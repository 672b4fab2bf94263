------------------------------ MODULE CmdLine ------------------------------
(* CCmdlineParse: a line is a command and properties key=value, in any order, *)
(* cut by CEasyStrParse; dump writes them again.                              *)
EXTENDS Integers, Sequences, SequencesExt, TLC

CONSTANTS
    Pieces,     \* what lines are made of
    Lower(_),   \* a key in small letters: keys are the same if these are
    MaxPieces   \* bound: pieces of a line

VARIABLE cmdLine    \* the object: its properties and its command, if it has one

lineVars == <<cmdLine>>

Zero == <<"0", "0">>

\* CEasyStrParse with the separators and brackets of each of the two functions.
Words == INSTANCE EasyStrParse WITH
    Chars <- {}, MaxLen <- 0, m_pch <- {" ", ",", ":"}, m_pBAch <- ("\"" :> "\""), m_zychr <- "\"",
    src <- <<>>, m_bokeepnil <- FALSE, buf <- <<>>, m_pStart <- 1, m_pszParams <- <<>>
Fields == INSTANCE EasyStrParse WITH
    Chars <- {}, MaxLen <- 0, m_pch <- {"|"}, m_pBAch <- <<>>, m_zychr <- "0",
    src <- <<>>, m_bokeepnil <- FALSE, buf <- <<>>, m_pStart <- 1, m_pszParams <- <<>>

\* The strings that a line is cut into.
Params(line) ==
    LET s == Words!Scan(line \o Zero, 1, <<>>, 99)
    IN IF line = <<>> THEN <<>> ELSE [i \in DOMAIN s.pars |-> Words!Text(s.b, s.pars[i])]
GMParams(line) ==
    LET s == Fields!Scan(line \o Zero, 1, <<>>, 99)
    IN IF line = <<>> THEN <<>> ELSE [i \in DOMAIN s.pars |-> Fields!Text(s.b, s.pars[i])]

\* A value's quotes, if it has both.
Unquoted(v) ==
    IF Len(v) >= 2 /\ v[1] = "\"" /\ v[Len(v)] = "\"" THEN SubSeq(v, 2, Len(v) - 1) ELSE v

LowerKey(k) == [i \in DOMAIN k |-> Lower(k[i])]

Nothing == [properties |-> <<>>, m_cmd |-> <<>>, m_getcmd |-> FALSE]

\* What is before the first "=" is set, unless to nothing; a parameter without one is the command.
Assign(s, param) ==
    IF "=" \notin Range(param) THEN [s EXCEPT !.m_cmd = param, !.m_getcmd = TRUE]
    ELSE LET at == SelectInSeq(param, LAMBDA c : c = "=")
             value == Unquoted(SubSeq(param, at + 1, Len(param)))
         IN IF value = <<>> THEN s
            ELSE [s EXCEPT !.properties = (LowerKey(SubSeq(param, 1, at - 1)) :> value) @@ @]

\* Both forget the command and keep the properties.
parseCmdLine(s, line) == FoldLeft(Assign, [s EXCEPT !.m_cmd = <<>>, !.m_getcmd = FALSE], Params(line))

DhhGMparseCmdLine(s, line) ==
    FoldLeft(Assign, [s EXCEPT !.m_cmd = <<>>, !.m_getcmd = FALSE], GMParams(line))

\* The command and the properties, these in the order of the hash table.
dump(s, order) ==
    (IF s.m_getcmd THEN Append(s.m_cmd, " ") ELSE <<>>)
    \o FlattenSeq([i \in DOMAIN order |->
            order[i] \o <<"=", "\"">> \o s.properties[order[i]] \o <<"\"", " ">>])

-----------------------------------------------------------------------------
Lines == {FlattenSeq(s) : s \in UNION {[1..n -> Pieces] : n \in 0..MaxPieces}}

InitLine == cmdLine = Nothing

\* One line is read.
Read(line) ==
    /\ cmdLine = Nothing
    /\ cmdLine' \in {parseCmdLine(cmdLine, line), DhhGMparseCmdLine(cmdLine, line)}

NextLine == \E line \in Lines : Read(line)
SpecLine == InitLine /\ [][NextLine]_lineVars

-----------------------------------------------------------------------------
(* Properties.                                                                *)

\* An object that has read another command.
Stale == [Nothing EXCEPT !.m_cmd = <<"0">>, !.m_getcmd = TRUE]

Orders(S) == {o \in [1..Cardinality(S) -> S] : Range(o) = S}

\* What either function has read and dump writes, parseCmdLine reads as the same command and
\* properties, whatever was read before and in whatever order they are written, if there are no
\* quotes left in it, and no separator where nothing is quoted.
DumpReadsBack ==
    LET keys == DOMAIN cmdLine.properties
        Bare(t) == Range(t) \cap {" ", ",", ":", "\""} = {}
    IN /\ Bare(cmdLine.m_cmd)
       /\ \A k \in keys : Bare(k) /\ "\"" \notin Range(cmdLine.properties[k])
       => \A order \in Orders(keys) : parseCmdLine(Stale, dump(cmdLine, order)) = cmdLine
=============================================================================
