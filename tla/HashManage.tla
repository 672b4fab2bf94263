----------------------------- MODULE HashManage -----------------------------
(***************************************************************************)
(* The values that several hashes index at once                            *)
(* (platform/hashManage_linux.h): zLHashManager3 and zLHashManager6 over   *)
(* LimitHash (one value per key) and MultiHash (any number).  Every        *)
(* operation holds the manager's lock, so each is one action.  A hash is   *)
(* the sequence of its values: the key of a value is computed from the     *)
(* value by mhkey, also when it is removed.                                *)
(***************************************************************************)
EXTENDS Naturals, Sequences, SequencesExt

CONSTANTS Values,    \* what is indexed
          Indexes,   \* the kinds of m_e1, m_e2, ...: a sequence over {"Limit", "Multi"}
          mhkey(_, _), \* the key of a value in an index
          MaxLen     \* how long insertValue lets an index grow

VARIABLES
    ets,        \* index -> its hash
    present,    \* values added and not removed since
    stale       \* values an insertValue has replaced in some index, or put twice into one

hashVars == <<ets, present, stale>>

I == DOMAIN Indexes

InitHash ==
    /\ ets = [i \in I |-> <<>>]
    /\ present = {}
    /\ stale = {}

\* The places of the values of one key, in the order of equal_range.
equal_range(h, i, k) == SelectSeq([j \in 1..Len(h) |-> j], LAMBDA j : mhkey(i, h[j]) = k)

(***************************************************************************)
(* MultiHash::find takes the nidx-th value of a key; an index out of range *)
(* is the first one, or any with borandom.                                 *)
(***************************************************************************)
find(h, i, k, nidx, borandom) ==
    LET its == equal_range(h, i, k)
        rd == Len(its)
    IN  IF rd = 0 THEN {}
        ELSE IF nidx \in 0..rd - 1 THEN {h[its[nidx + 1]]}
        ELSE IF borandom THEN {h[its[j]] : j \in 1..rd}
        ELSE {h[its[1]]}

\* push: LimitHash refuses a key it has.
Pushes(h, i, v) == Indexes[i] = "Multi" \/ find(h, i, mhkey(i, v), 0, FALSE) = {}

\* insert: LimitHash replaces the value of a key it has.
insert(h, i, v) ==
    LET its == equal_range(h, i, mhkey(i, v)) IN
    IF Indexes[i] = "Limit" /\ its # <<>> THEN [h EXCEPT ![its[1]] = v] ELSE Append(h, v)

\* remove(key, value): LimitHash only when the key's value is this one, MultiHash the first that is.
remove(h, i, v) ==
    LET its == SelectSeq(equal_range(h, i, mhkey(i, v)), LAMBDA j : h[j] = v) IN
    IF its = <<>> THEN h ELSE RemoveAt(h, its[1])

\* The indexes that refuse a value.
Refusing(e, v) == {i \in I : ~Pushes(e[i], i, v)}

\* Mutant: the values pushed before a refusal stay.
PushedKeeps(e, v) ==
    [i \in I |-> IF \A r \in Refusing(e, v) : i < r THEN Append(e[i], v) ELSE e[i]]

\* addValue: the value is pushed into one index after the other; at the first refusal it is
\* removed from those before.
Pushed(e, v) ==
    [i \in I |-> IF \E r \in Refusing(e, v) : r <= i THEN e[i]
                 ELSE IF Refusing(e, v) = {} THEN Append(e[i], v)
                 ELSE remove(Append(e[i], v), i, v)]

addValue(v) ==
    LET ok == Refusing(ets, v) = {} IN
    /\ ets' = Pushed(ets, v)
    /\ present' = IF ok THEN present \cup {v} ELSE present
    /\ stale' = IF ok /\ v \in present THEN stale \cup {v} ELSE stale

insertValue(v) ==
    /\ ets' = [i \in I |-> insert(ets[i], i, v)]
    /\ present' = present \cup {v}
    /\ stale' = stale \cup {u \in present : \E i \in I :
                    IF u = v THEN Indexes[i] = "Multi"
                    ELSE Indexes[i] = "Limit" /\ mhkey(i, u) = mhkey(i, v)}

\* Mutant: the value stays in the last index.
removeValueButLast(v) ==
    /\ ets' = [i \in I |-> IF i = Len(Indexes) THEN ets[i] ELSE remove(ets[i], i, v)]
    /\ present' = present \ {v}
    /\ UNCHANGED stale

removeValue(v) ==
    /\ ets' = [i \in I |-> remove(ets[i], i, v)]
    /\ present' = present \ {v}
    /\ UNCHANGED stale

\* removeValue_if collects from the first index, then removes one by one.
removeValue_if(Pred) ==
    LET removed == SelectSeq(ets[1], LAMBDA v : v \in Pred)
        All(i) == FoldLeft(LAMBDA h, v : remove(h, i, v), ets[i], removed)
    IN  /\ ets' = [i \in I |-> All(i)]
        /\ present' = present \ ToSet(removed)
        /\ UNCHANGED stale

clear ==
    /\ ets' = [i \in I |-> <<>>]
    /\ present' = {} /\ stale' = {}

NextHash ==
    \/ \E v \in Values :
        \/ addValue(v)
        \/ (\A i \in I : Len(ets[i]) < MaxLen) /\ insertValue(v)
        \/ removeValue(v)
    \/ \E Pred \in SUBSET Values : removeValue_if(Pred)
    \/ clear

SpecHash == InitHash /\ [][NextHash]_hashVars

Occurs(v, i) == Len(SelectSeq(ets[i], LAMBDA u : u = v))

(***************************************************************************)
(* All the indexes hold the same values, each once: an add that one index  *)
(* refuses leaves nothing behind in the others, a removal reaches all of   *)
(* them (597-682).  A value that insertValue has replaced under one of its *)
(* keys stays in the other indexes, and one inserted twice stays in a      *)
(* MultiHash after its removal: for the values it never did this to, the   *)
(* indexes agree, and the hashes with one value per key have one.          *)
(***************************************************************************)
IndexesAgree ==
    /\ \A v \in Values \ stale, i \in I : Occurs(v, i) = IF v \in present THEN 1 ELSE 0
    /\ \A i \in I, v \in Values : Indexes[i] = "Limit" =>
            Len(equal_range(ets[i], i, mhkey(i, v))) <= 1
    /\ \A i \in I, v \in Values \ stale : v \in present =>
            v \in find(ets[i], i, mhkey(i, v), 7, TRUE)

=============================================================================
