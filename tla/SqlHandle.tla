------------------------------ MODULE SqlHandle ------------------------------
(* CSqlBase as its callers use it: statements made from a structure and its    *)
(* dbCols, rows bound back to structures, the id of the row inserted last.     *)
(* The table and the session behind mysql_query are external: a statement is   *)
(* run, or not, or run although the client is told otherwise.                  *)
EXTENDS Integers, FiniteSets, Sequences, SequencesExt

CONSTANTS
    WriteColumns,   \* dbCol arrays statements are made of: sequences of [name, offset, data_addr, canWrite]
    ReadColumns,    \* arrays rows are bound with: [cols |-> the same, size |-> the structure's, or 0]
    Values,         \* what the fields of a structure hold
    Selects,        \* the columns SELECTs ask for, each a sequence of names
    MaxRows,        \* rows the buffer of a SELECT has room for, and bound of the table
    MaxIds,         \* bound: rows ever inserted
    MaxFaults       \* bound: statements that fail

VARIABLES
    table,          \* rows on the server: [id, k, v]
    generated,      \* the last id given to a row
    identity,       \* @@IDENTITY of the session
    m_naffectedrows, m_qinid, m_bocangetqinid,
    selected,       \* the last SELECT, if no statement followed: [column, names, rows, data, static]
    inserted,       \* the id of the row this handle has inserted last
    faults

handleVars == <<table, generated, identity, m_naffectedrows, m_qinid, m_bocangetqinid,
                selected, inserted, faults>>

NoId == -1
Garbage == -9
None == <<>>

\* What a SELECT is given: the callers' structures and variables, field by field.
Fresh == [data |-> [i \in 1..(MaxRows * 2) |-> Garbage], static |-> Garbage]

InitHandle ==
    /\ table = <<>> /\ generated = 0 /\ identity = 0
    /\ m_naffectedrows = 0 /\ m_qinid = NoId /\ m_bocangetqinid = FALSE
    /\ selected = None /\ inserted = NoId
    /\ faults = 0

-----------------------------------------------------------------------------
(* Statements that change the table.                                         *)

\* What the caller read before is no longer of interest, and the id is left as it is.
Quiet == selected' = None /\ UNCHANGED m_qinid

\* A fault: the id fetched for an earlier statement stays valid.
ToldKeep(n) == m_naffectedrows' = n /\ UNCHANGED m_bocangetqinid

\* Every statement takes the id fetched before from its callers, though not from m_qinid.
Told(n) == m_naffectedrows' = n /\ m_bocangetqinid' = FALSE

\* A failed statement may have been run, when the connection was lost before the answer: the
\* library opens another, in whose session nothing has been inserted.
Fails(run) ==
    /\ faults < MaxFaults /\ faults' = faults + 1
    /\ identity' \in IF run = 1 THEN {0} ELSE {0, identity}

\* execSql of a statement that makes t of the table, affects n rows and gives a row this id.
execSql(t, n, id) ==
    \/ /\ table' = t /\ generated' = IF id = NoId THEN generated ELSE id
       /\ identity' = IF id = NoId THEN identity ELSE id
       /\ inserted' = IF id = NoId THEN inserted ELSE id
       /\ Told(n) /\ UNCHANGED faults
    \/ \E run \in {0, 1} :
       /\ Fails(run) /\ Told(-1)
       /\ table' = IF run = 1 THEN t ELSE table
       /\ generated' = IF run = 1 /\ id # NoId THEN id ELSE generated
       /\ inserted' = IF run = 1 /\ id # NoId THEN id ELSE inserted

\* The server refuses a statement it cannot parse; the session stays.
Refused == Told(-1) /\ UNCHANGED <<table, generated, identity, inserted, faults>>

Named(column) == SelectSeq(column, LAMBDA c : c.name # "")
Written(column) == SelectSeq(Named(column), LAMBDA c : c.canWrite)

\* A row with what the writable columns take from the structure or the variable they name.
RowOf(old, column, st) ==
    LET at(n) == SelectInSeq(Written(column), LAMBDA c : c.name = n)
        new(n, keep) == IF at(n) = 0 THEN keep ELSE st[Written(column)[at(n)].offset + 1]
    IN [id |-> old.id, k |-> new("k", old.k), v |-> new("v", old.v)]

\* All columns are named, values are there only for the writable ones: with a column that is not
\* the server refuses the statement.  "where not exists" inserts nothing if there is such a row.
execInsert(column, st, noexists_where) ==
    LET row == RowOf([id |-> generated + 1, k |-> 0, v |-> 0], column, st)
    IN /\ Len(table) < MaxRows /\ generated < MaxIds
       /\ CASE Len(Named(column)) # Len(Written(column)) -> Refused
            [] Len(Named(column)) = Len(Written(column)) /\ noexists_where
                 /\ (\E i \in DOMAIN table : table[i].k = row.k) -> execSql(table, 0, NoId)
            [] OTHER -> execSql(Append(table, row), 1, row.id)
       /\ Quiet

\* UPDATE ... SET the writable columns WHERE k = key; rows that stay as they are do not count.
execUpdate(column, st, key) ==
    LET new == [i \in DOMAIN table |->
                  IF table[i].k = key THEN RowOf(table[i], column, st) ELSE table[i]]
    IN execSql(new, Cardinality({i \in DOMAIN table : new[i] # table[i]}), NoId) /\ Quiet

execDelete(key) ==
    LET kept == SelectSeq(table, LAMBDA r : r.k # key)
    IN execSql(kept, Len(table) - Len(kept), NoId) /\ Quiet

-----------------------------------------------------------------------------
(* SELECT.                                                                   *)

\* "*" stands for the column of the result at its own place, a name for the one of that name.
findDbCol(column, name, nindex) ==
    SelectInSeq([i \in DOMAIN column.cols |-> <<i, column.cols[i].name>>],
                LAMBDA x : (x[2] = "*" /\ x[1] = nindex) \/ x[2] = name)

Cell(row, name) == IF name = "k" THEN row.k ELSE row.v

\* A fault: a placeholder takes any column that is left.
Bind_first(b, column, r, i, names) ==
    LET at == findDbCol(column, names[i], 1)
    IN IF at = 0 THEN b
       ELSE [b EXCEPT !.data[(r - 1) * column.size + column.cols[at].offset + 1] = Cell(table[r], names[i])]

\* Row r, column i of the result goes where its column says; the structures follow each other.
Bind(b, column, r, i, names) ==
    LET at == findDbCol(column, names[i], i)
        val == Cell(table[r], names[i])
    IN CASE at = 0 -> b
         [] at # 0 /\ column.cols[at].data_addr -> [b EXCEPT !.static = val]
         [] OTHER -> [b EXCEPT !.data[(r - 1) * column.size + column.cols[at].offset + 1] = val]

Bound(column, names) ==
    LET row(b, r) == FoldLeft(LAMBDA bb, i : Bind(bb, column, r, i, names), b, [i \in DOMAIN names |-> i])
    IN FoldLeft(row, Fresh, [r \in DOMAIN table |-> r])

execSelectSql(column, names) ==
    /\ m_bocangetqinid' = FALSE
    /\ \/ /\ selected' = [column |-> column, names |-> names, rows |-> table, b |-> Bound(column, names)]
          /\ UNCHANGED <<faults, identity>>
       \/ Fails(0) /\ selected' = None
    /\ UNCHANGED <<table, generated, inserted, m_naffectedrows, m_qinid>>

\* SELECT @@IDENTITY, bound to m_qinid; 0 means none.
getinsertid ==
    /\ ~m_bocangetqinid /\ m_naffectedrows >= 0
    /\ \/ /\ m_bocangetqinid' = (identity > 0)
          /\ m_qinid' = IF identity > 0 THEN identity ELSE NoId
          /\ UNCHANGED <<identity, faults>>
       \/ Fails(0) /\ m_bocangetqinid' = FALSE /\ m_qinid' = NoId
    /\ selected' = None
    /\ UNCHANGED <<table, generated, inserted, m_naffectedrows>>

Structs == [1..2 -> Values]

NextHandle ==
    \/ \E column \in WriteColumns, st \in Structs :
          \/ \E ne \in BOOLEAN : execInsert(column, st, ne)
          \/ \E key \in Values : execUpdate(column, st, key)
    \/ \E key \in Values : execDelete(key)
    \/ \E column \in ReadColumns, names \in Selects : execSelectSql(column, names)
    \/ getinsertid

SpecHandle == InitHandle /\ [][NextHandle]_handleVars

-----------------------------------------------------------------------------
(* Properties.                                                               *)

\* The id a caller can still get without asking the server is that of the row inserted last,
\* whatever statements, failures and SELECTs came in between (execSql, getinsertid).
IdIsOfLast == m_bocangetqinid => m_qinid = inserted /\ m_qinid # NoId

\* After a SELECT each structure holds the row it was read from, a variable that of the last row,
\* and what no column is bound to is untouched, whatever the order of the columns (findDbCol,
\* execSelectSqlRealWork).  Columns are named, or placeholders that all come by place.
SelectedIsBound ==
    selected # None =>
        LET cols == selected.column.cols
            from(o, static) ==
                {i \in DOMAIN selected.names : \E c \in DOMAIN cols :
                    /\ cols[c].data_addr = static /\ cols[c].offset = o
                    /\ cols[c].name = selected.names[i] \/ (cols[c].name = "*" /\ c = i)}
            cell(i, r) == Cell(selected.rows[r], selected.names[i])
        IN /\ \A r \in 1..MaxRows, o \in {0, 1} :
                 LET found == selected.b.data[(r - 1) * 2 + o + 1]
                 IN IF r > Len(selected.rows) THEN found = Garbage
                    ELSE IF from(o, FALSE) = {} THEN found = Garbage
                    ELSE \E i \in from(o, FALSE) : found = cell(i, r)
           /\ LET static == UNION {from(o, TRUE) : o \in {0, 1}}
              IN IF static = {} \/ selected.rows = <<>> THEN selected.b.static = Garbage
                 ELSE \E i \in static : selected.b.static = cell(i, Len(selected.rows))

\* What the comment on m_qinid promises: it is -1 after any statement until it is asked for.
IdIsReset == ~m_bocangetqinid => m_qinid = NoId
=============================================================================
