--------------------------------- MODULE Rtti ---------------------------------
(***************************************************************************)
(* The descriptors of classes: each one is a static object, built in the   *)
(* order the linker and the run-time choose, that lists its fields and     *)
(* bases and enters itself into the repository's two hash tables.  Pointers *)
(* are converted along the bases, and a class's fields are made into the   *)
(* columns of a table (CRttiDbDataLoader).                                 *)
(***************************************************************************)
EXTENDS Integers, Sequences, FiniteSets, SequencesExt, FiniteSetsExt

CONSTANTS
    Classes,        \* descriptors
    Decl,           \* what each one is declared with: name, aliasname, sort, and parts
    Hash(_),        \* hashFunction % RTTI_CLASS_HASH_SIZE of a name; names are sequences
    Queries,        \* class names looked for, as typeid and the application write them
    Null

\* A part is a base, a struct, or a field of a column type; alias is its column's name.
Kinds == {"base", "struct", "column", "other"}

VARIABLES
    built,          \* descriptors in the order they were built
    hashTable,      \* by name: the chain of each bucket, newest first
    hashAliasTable,
    classes         \* the list of all classes, newest first

rttiVars == <<built, hashTable, hashAliasTable, classes>>

Buckets == {Hash(Decl[c].name) : c \in Classes} \cup {Hash(Decl[c].aliasname) : c \in Classes}
           \cup {Hash(q) : q \in Queries}

InitRtti ==
    /\ built = <<>> /\ classes = <<>>
    /\ hashTable = [b \in 0..Max(Buckets) |-> <<>>] /\ hashAliasTable = hashTable

IsBuilt(c) == c \in ToSet(built)

\* strcmp over one chain: the first class that has the name.
InChain(chain, name, field) ==
    LET found == SelectSeq(chain, LAMBDA c : Decl[c][field] = name) IN
    IF found = <<>> THEN Null ELSE Head(found)

\* Mutant: only the name is looked for.
addClass_byName(c) ==
    LET name == Decl[c].name
        alias == Decl[c].aliasname IN
    IF InChain(hashTable[Hash(name)], name, "name") = Null
    THEN /\ classes' = <<c>> \o classes
         /\ hashTable' = [hashTable EXCEPT ![Hash(name)] = <<c>> \o @]
         /\ hashAliasTable' = [hashAliasTable EXCEPT ![Hash(alias)] = <<c>> \o @]
    ELSE UNCHANGED <<hashTable, hashAliasTable, classes>>

\* RTTIRepository::addClass, under the repository's lock.
addClass(c) ==
    LET name == Decl[c].name
        alias == Decl[c].aliasname IN
    IF /\ InChain(hashTable[Hash(name)], name, "name") = Null
       /\ InChain(hashAliasTable[Hash(alias)], alias, "aliasname") = Null
    THEN /\ classes' = <<c>> \o classes
         /\ hashTable' = [hashTable EXCEPT ![Hash(name)] = <<c>> \o @]
         /\ hashAliasTable' = [hashAliasTable EXCEPT ![Hash(alias)] = <<c>> \o @]
    ELSE UNCHANGED <<hashTable, hashAliasTable, classes>>

\* The constructor of RTTIClassDescriptor: the parts are sorted out, and the class is added; what
\* addClass returns is not looked at.
Construct(c) ==
    /\ ~IsBuilt(c)
    /\ built' = Append(built, c)
    /\ addClass(c)

NextRtti == \E c \in Classes : Construct(c)

SpecRtti == InitRtti /\ [][NextRtti]_rttiVars

-----------------------------------------------------------------------------
(* What a descriptor holds after buildClassDescriptor; before, its lists are empty.  *)

Parts(c) == IF IsBuilt(c) THEN Decl[c].parts ELSE <<>>
BaseFields(c) == SelectSeq(Parts(c), LAMBDA f : f.kind = "base")

\* The fields without the bases, in the order of the declaration or of their offsets.
Fields(c) ==
    LET own == SelectSeq(Parts(c), LAMBDA f : f.kind # "base") IN
    IF Decl[c].sort = "eSortByOffSet" THEN SortSeq(own, LAMBDA f, g : f.offs < g.offs) ELSE own

\* findField from the nbegin-th field on: its index, or 0.
findField(c, name, nbegin) ==
    LET at == {i \in nbegin..Len(Fields(c)) : Fields(c)[i].name = name} IN
    IF at = {} THEN 0 ELSE Min(at)

NotKind == -1

\* Mutant: the offset of the base is not added.
RECURSIVE IsKindOf_flat(_, _)
IsKindOf_flat(c, k) ==
    LET way == {i \in DOMAIN BaseFields(c) : IsKindOf_flat(BaseFields(c)[i].of, k) # NotKind} IN
    IF c = k THEN 0 ELSE IF way = {} THEN NotKind ELSE IsKindOf_flat(BaseFields(c)[Min(way)].of, k)

\* RTTIClassDescriptor::IsKindOf: the offset of the first way up the bases that meets k.
RECURSIVE IsKindOf(_, _)
IsKindOf(c, k) ==
    LET way == {i \in DOMAIN BaseFields(c) : IsKindOf(BaseFields(c)[i].of, k) # NotKind} IN
    IF c = k THEN 0
    ELSE IF way = {} THEN NotKind
    ELSE IsKindOf(BaseFields(c)[Min(way)].of, k) + BaseFields(c)[Min(way)].offs

\* ConvertClassPtr: up from the source, or down to the destination; NotKind stands for NULL.
ConvertClassPtr(p, src, dst) ==
    IF IsKindOf(src, dst) # NotKind THEN p + IsKindOf(src, dst)
    ELSE IF IsKindOf(dst, src) # NotKind THEN p - IsKindOf(dst, src)
    ELSE NotKind

-----------------------------------------------------------------------------
(* The repository's lookups.                                                 *)

\* strrchr: what follows the last character ch of a name, or the empty name if there is none.
After(name, ch) ==
    LET at == {i \in DOMAIN name : name[i] = ch} IN
    IF at = {} THEN <<>> ELSE SubSeq(name, Max(at) + 1, Len(name))
Has(name, ch) == ch \in ToSet(name)

ByName(name) == InChain(hashTable[Hash(name)], name, "name")

\* findClass: without what comes before the last space ("class "); then without the namespace, or
\* with everything if there was a space and no ':'.  Comparing without case finds no more, because
\* the hash codes must be equal first.
findClass(q) ==
    LET plain == IF Has(q, " ") THEN After(q, " ") ELSE q IN
    IF ByName(plain) # Null THEN ByName(plain)
    ELSE IF Has(q, ":") THEN ByName(After(q, ":"))
    ELSE IF Has(q, " ") THEN ByName(q)
    ELSE Null

findClassByAliasName(alias) == InChain(hashAliasTable[Hash(alias)], alias, "aliasname")

-----------------------------------------------------------------------------
(* The columns of a class.                                                   *)

Column(f) == [n |-> f.alias, ts |-> f.size, offs |-> f.offs]

\* MakedbCol: the bases' columns, then the fields', a struct's in its place; it stops at a field
\* that is no column and keeps what it has.  <<the result, the columns>>.
RECURSIVE MakedbCol(_)
MakedbCol(c) ==
    LET own == BaseFields(c) \o Fields(c)
        part(f) == CASE f.kind \in {"base", "struct"} -> MakedbCol(f.of)
                     [] f.kind = "column" -> <<TRUE, <<Column(f)>> >>
                     [] f.kind = "other" -> <<FALSE, <<>> >>
        cols[i \in 0..Len(own)] ==
            IF i = 0 THEN <<TRUE, <<>> >>
            ELSE IF ~cols[i - 1][1] THEN cols[i - 1]
            ELSE <<part(own[i])[1], cols[i - 1][2] \o part(own[i])[2]>> IN
    cols[Len(own)]

-----------------------------------------------------------------------------

\* A class is found by its name and by its alias, whatever the order of the constructors, unless a
\* class with either of them was built before and was itself entered; then neither name nor alias
\* leads to it, and the list of classes has it not (addClass, findClass).
ClassesFound ==
    LET entered[i \in 0..Len(built)] ==
            IF i = 0 THEN {}
            ELSE IF \E c \in entered[i - 1] : \/ Decl[c].name = Decl[built[i]].name
                                              \/ Decl[c].aliasname = Decl[built[i]].aliasname
                 THEN entered[i - 1] ELSE entered[i - 1] \cup {built[i]}
        all == entered[Len(built)] IN
    /\ ToSet(classes) = all /\ IsInjective(classes)
    /\ \A c \in all : /\ findClass(Decl[c].name) = c
                      /\ findClassByAliasName(Decl[c].aliasname) = c
    /\ \A q \in Queries : findClass(q) \in all \cup {Null}
    /\ \A q \in Queries, c \in all :
         Decl[c].name = (IF Has(q, ":") THEN After(q, ":") ELSE After(q, " "))
            => findClass(q) # Null

\* Every offset at which an object of class c has one of class k in it, from the declarations.
RECURSIVE Layout(_, _)
Layout(c, k) ==
    (IF c = k THEN {0} ELSE {}) \cup
    UNION {{o + f.offs : o \in Layout(f.of, k)} : f \in {g \in ToSet(Decl[c].parts) : g.kind = "base"}}

\* A pointer is only converted to where the object has such a base, and back to where it was; when
\* all descriptors are built every conversion is possible that the classes allow.  While they are
\* being built a conversion may fail, or go another way up a class that is there twice.
CastsHold ==
    \A c, k \in Classes :
        LET up == ConvertClassPtr(100, c, k) IN
        /\ up # NotKind => \/ up - 100 \in Layout(c, k)
                           \/ 100 - up \in Layout(k, c)
        /\ up # NotKind => ConvertClassPtr(up, k, c) = 100
        /\ Len(built) = Cardinality(Classes) =>
             (up = NotKind <=> Layout(c, k) = {} /\ Layout(k, c) = {})

\* The fields of a name are met one after the other, each once, in the order of their index.
FieldsFound ==
    \A c \in Classes : \A f \in ToSet(Fields(c)) :
        LET met[i \in 0..Len(Fields(c))] ==
                IF i = 0 THEN findField(c, f.name, 1)
                ELSE IF met[i - 1] = 0 THEN 0 ELSE findField(c, f.name, met[i - 1] + 1) IN
        {met[i] : i \in DOMAIN met} \ {0} = {i \in DOMAIN Fields(c) : Fields(c)[i].name = f.name}

\* The true place of each column of an object at a place, bases first.
RECURSIVE Places(_, _)
Places(c, at) ==
    LET own == BaseFields(c) \o Fields(c) IN
    FlattenSeq([i \in DOMAIN own |->
        CASE own[i].kind \in {"base", "struct"} -> Places(own[i].of, at + own[i].offs)
          [] own[i].kind = "column" -> << [n |-> own[i].alias, ts |-> own[i].size,
                                           offs |-> at + own[i].offs, in |-> at] >>
          [] own[i].kind = "other" -> <<>>])

\* A class made of columns gives each of them once; the statement's buffers are bound to the right
\* place of the object for those whose struct begins where the object does (the place of a struct
\* or base inside the object is not added).
ColumnsKept ==
    \A c \in Classes :
        LET made == MakedbCol(c)
            right == Places(c, 0) IN
        made[1] => /\ Len(made[2]) = Len(right)
                   /\ \A i \in DOMAIN right :
                        /\ made[2][i].n = right[i].n /\ made[2][i].ts = right[i].ts
                        /\ made[2][i].offs = right[i].offs <=> right[i].in = 0

RttiKept == ClassesFound /\ CastsHold /\ FieldsFound /\ ColumnsKept
=============================================================================
