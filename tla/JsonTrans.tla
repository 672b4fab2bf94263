------------------------------ MODULE JsonTrans ------------------------------
(***************************************************************************)
(* Data2Json and Json2Data: a member of a structure is saved under its     *)
(* name in a JSON object and loaded again, by one overload per type.  A    *)
(* behaviour has one member, whose type is chosen first; it is assigned,   *)
(* saved and loaded in any order, and the object may be edited by hand.    *)
(***************************************************************************)
EXTENDS Integers, Sequences, SequencesExt, FiniteSetsExt, Functions

CONSTANTS
    Bits,       \* two bits stand for int32_t's width, twice as many for int64_t's: 2 ^ Bits values
    Size,       \* elements of an array, bytes of a char[]
    MaxLen,     \* bound: elements of a vector or map, characters of a string
    MaxSteps    \* bound: assignments, saves, loads and edits

Scalars == {"bool", "int32", "uint32"}
Wide == {"int64", "uint64"}
Arrays == {"bool[]", "int32[]", "uint32[]"}
Types == Scalars \cup Wide \cup Arrays \cup {"string", "char[]", "int64[]", "vector", "map"}

Signed(n) == -(2 ^ (n - 1))..(2 ^ (n - 1) - 1)
Unsigned(n) == 0..(2 ^ n - 1)

\* The values of one element of a type.
Element(t) ==
    CASE t \in {"bool", "bool[]"} -> {0, 1}
      [] t \in {"int32", "int32[]", "vector", "map"} -> Signed(Bits)
      [] t \in {"uint32", "uint32[]"} -> Unsigned(Bits)
      [] t \in {"int64", "int64[]"} -> Signed(Bits + 1)
      [] t = "uint64" -> Unsigned(Bits + 1)
      [] t \in {"string", "char[]"} -> {1}

VARIABLES
    type,   \* of the member
    data,   \* the member: a sequence of elements; a map is one of <<key, value>>, by key
    elem,   \* what the object has under the name: [t, v] with t "none", "null", "number", "text",
            \* "array" or "objects"
    saved,  \* history: what was saved last, or loaded by hand since: <<>> for nothing
    before, \* history: the member before the last load
    did,    \* history: the last step
    steps

jsonVars == <<type, data, elem, saved, before, did, steps>>

\* Values a member of the type can have.
ValuesOf(t) ==
    IF t \in Scalars \cup Wide THEN {<<x>> : x \in Element(t)}
    ELSE IF t \in Arrays \cup {"int64[]"} THEN [1..Size -> Element(t)]
    ELSE IF t = "char[]" THEN {[i \in 1..n |-> 1] : n \in 0..Size - 1}
    ELSE IF t = "map" THEN {<<>>} \cup {<< <<0, x>> >> : x \in {0, 1}}
                                  \cup {<< <<0, x>>, <<1, y>> >> : x, y \in {0, 1}}
    ELSE UNION {[1..n -> Element(t)] : n \in 0..MaxLen}

None == [t |-> "none", v |-> <<>>]

InitJson ==
    /\ type \in Types
    /\ data \in {CHOOSE v \in ValuesOf(type) : TRUE}
    /\ elem = None /\ saved = None /\ before = <<>> /\ did = "none" /\ steps = 0

\* ui64toa_q takes a uint64_t, and strtoll and strtoull stop at their largest.
Printed(x) == x % (2 ^ (Bits + 1))
strto64_q(x) == IF x < 2 ^ Bits THEN x ELSE 2 ^ Bits - 1

-----------------------------------------------------------------------------

Step(what) == steps < MaxSteps /\ steps' = steps + 1 /\ did' = what

\* The program gives the member a value.
Assign(v) == data' = v /\ Step("assign") /\ UNCHANGED <<type, elem, saved, before>>

\* Mutant: an array is not cleared before its elements are appended.
Data2Json_uncleared(t, old, v) ==
    CASE t \in Scalars -> [t |-> "number", v |-> v]
      [] t \in Wide -> [t |-> "text", v |-> <<Printed(v[1])>>]
      [] t \in {"string", "char[]"} -> [t |-> "text", v |-> v]
      [] t \in Arrays \cup {"vector"} -> [t |-> "array", v |-> old.v \o v]
      [] t = "int64[]" -> [t |-> "array", v |-> old.v \o [i \in DOMAIN v |-> Printed(v[i])]]
      [] t = "map" -> [t |-> "objects", v |-> old.v \o v]

\* Data2Json: what the object holds after a save; wide numbers are texts, and an array is cleared
\* and filled, which leaves null as it was when there is nothing to append.
Data2Json(t, old, v) ==
    CASE t \in Scalars -> [t |-> "number", v |-> v]
      [] t \in Wide -> [t |-> "text", v |-> <<Printed(v[1])>>]
      [] t \in {"string", "char[]"} -> [t |-> "text", v |-> v]
      [] t \in Arrays \cup {"vector"} -> [t |-> "array", v |-> v]
      [] t = "int64[]" -> [t |-> "array", v |-> [i \in DOMAIN v |-> Printed(v[i])]]
      [] t = "map" -> [t |-> "objects", v |-> v]

Save ==
    /\ elem' = Data2Json(type, elem, data)
    /\ saved' = [t |-> "saved", v |-> data]
    /\ Step("save")
    /\ UNCHANGED <<type, data, before>>

\* The first Size elements, over those the member has.
Over(v, old) == [i \in DOMAIN old |-> IF i <= Len(v) THEN v[i] ELSE old[i]]

\* The map's insert keeps the value of a key that is there.
insert(old, v) ==
    LET keys == {old[i][1] : i \in DOMAIN old} \cup {v[i][1] : i \in DOMAIN v}
        Of(k) == IF \E i \in DOMAIN old : old[i][1] = k
                 THEN CHOOSE p \in ToSet(old) : p[1] = k ELSE CHOOSE p \in ToSet(v) : p[1] = k IN
    SetToSortSeq({Of(k) : k \in keys}, LAMBDA p, q : p[1] < q[1])

\* Json2Data: the member after a load.  A scalar that is not there loads as zero; what is loaded as
\* a wide number, a string, a vector or a map is looked for first.  A char[] too short for the text
\* is left alone; an array takes what fits; a vector gets the elements after its own.
Json2Data(t, e, old) ==
    CASE t \in Scalars -> IF e.v = <<>> THEN <<0>> ELSE e.v
      [] t = "int64" -> IF e.t = "none" THEN old
                        ELSE IF e.t = "text" THEN <<strto64_q(e.v[1])>> ELSE e.v
      [] t = "uint64" -> IF e.t = "none" THEN old ELSE e.v
      [] t = "string" -> IF e.t = "none" THEN old ELSE e.v
      [] t = "char[]" -> IF e.t = "none" \/ Len(e.v) >= Size THEN old ELSE e.v
      [] t \in Arrays -> Over(e.v, old)
      [] t = "int64[]" -> Over([i \in DOMAIN e.v |-> strto64_q(e.v[i])], old)
      [] t = "vector" -> old \o e.v
      [] t = "map" -> insert(old, e.v)

\* operator[] of the object that can change adds the name with null, where it is not looked for
\* first and not const.
Touched(t, e) == IF e.t = "none" /\ t \in Scalars \cup Arrays THEN [t |-> "null", v |-> <<>>] ELSE e

Load ==
    /\ type = "vector" => Len(data) + Len(elem.v) <= 2 * MaxLen
    /\ before' = data
    /\ data' = Json2Data(type, elem, data)
    /\ elem' = Touched(type, elem)
    /\ Step("load")
    /\ UNCHANGED <<type, saved>>

\* The object's text is edited: a number where the code writes a text, which asInt takes if it is
\* an int32_t; a longer or shorter array or string; or the name is taken out.
Edit ==
    /\ \/ elem' = None
       \/ type \in Wide /\ \E x \in Signed(Bits) \cap Element(type) : elem' = [t |-> "number", v |-> <<x>>]
       \/ /\ type \in Arrays \cup {"vector"}
          /\ \E n \in {0, Size + 1} : \E x \in Element(type) : elem' = [t |-> "array", v |-> [i \in 1..n |-> x]]
       \/ type = "char[]" /\ elem' = [t |-> "text", v |-> [i \in 1..Size |-> 1]]
    /\ saved' = None
    /\ Step("edit")
    /\ UNCHANGED <<type, data, before>>

NextJson == (\E v \in ValuesOf(type) : Assign(v)) \/ Save \/ Load \/ Edit

SpecJson == InitJson /\ [][NextJson]_jsonVars

-----------------------------------------------------------------------------

\* After a load of what was saved last, whatever the member was given in between: a number, a
\* string and an array are as they were saved, a negative int64_t is the largest one; a vector has
\* the saved elements behind its own, and a map the saved pairs whose keys it had not.
LoadsTheSaved ==
    did = "load" /\ saved.t = "saved" =>
        CASE type \in Scalars \cup Arrays \cup {"uint64", "string", "char[]"} -> data = saved.v
          [] type \in {"int64", "int64[]"} ->
                data = [i \in DOMAIN saved.v |->
                          IF saved.v[i] >= 0 THEN saved.v[i] ELSE Max(Element(type))]
          [] type = "vector" -> data = before \o saved.v
          [] type = "map" ->
                /\ \A p \in ToSet(before) : p \in ToSet(data)
                /\ \A p \in ToSet(saved.v) : p \in ToSet(data) \/ \E q \in ToSet(before) : q[1] = p[1]
                /\ ToSet(data) \subseteq ToSet(before) \cup ToSet(saved.v)

\* A member keeps its type's range and its number of elements through any edit of the text.
StaysInRange ==
    /\ type \notin {"map", "vector"} => \A i \in DOMAIN data : data[i] \in Element(type)
    /\ type \in Arrays \cup {"int64[]"} => Len(data) = Size
    /\ type = "char[]" => Len(data) < Size

\* A name that no load has added and no save has written is not found, and what is loaded from it
\* stays (isMember).
DefaultsStay ==
    did = "load" /\ elem.t = "none" => data = before

JsonKept == LoadsTheSaved /\ StaysInRange /\ DefaultsStay
=============================================================================
