---------------------------- MODULE EasyStrParse ----------------------------
(* CEasyStrParse: a string is cut at separators, except between brackets, one *)
(* parameter at a time as they are asked for, in place: the separators become *)
(* zeros, and what follows an escape moves forward over it.  A character is a *)
(* token, "0" the end of a C string.                                          *)
EXTENDS Integers, Sequences, SequencesExt

CONSTANTS
    Chars,          \* characters of the strings to cut
    m_pch,          \* separators
    m_pBAch,        \* the bracket that closes each opening one
    m_zychr,        \* escapes a closing bracket
    MaxLen          \* bound: length of the strings

VARIABLES
    src,            \* the string given to SetParseStrEx
    m_bokeepnil,    \* keep empty parameters?
    buf,            \* its copy, which is cut
    m_pStart,       \* where the rest begins
    m_pszParams     \* where each parameter begins

strVars == <<src, m_bokeepnil, buf, m_pStart, m_pszParams>>

\* The C string that begins at p.
Text(b, p) ==
    LET ends == {i \in p..Len(b) : b[i] = "0"}
    IN SubSeq(b, p, (CHOOSE i \in ends : \A j \in ends : i <= j) - 1)

Closes(s, c) == s.close # "0" /\ c = s.close

-----------------------------------------------------------------------------
(* The loop of ParseParam over the rest of the string: one step per character *)
(* read.  laststart = 0 once the parameter at the end has been stored.        *)

Start(b, p, pars) ==
    [b |-> b, pread |-> p, pwrite |-> p, laststart |-> p, pars |-> pars, close |-> "0", done |-> FALSE]

\* The bracket state after a character, whether it was escaped and whether it is a bracket
\* that opens (which is looked up as a separator although the state is no longer 0).
Bracket(s, c) ==
    IF s.close = "0"
    THEN IF c \in DOMAIN m_pBAch
         THEN [close |-> m_pBAch[c], escaped |-> FALSE, opens |-> TRUE]
         ELSE [close |-> "0", escaped |-> FALSE, opens |-> FALSE]
    ELSE IF c = m_zychr /\ Closes(s, s.b[s.pread + 1])
         THEN [close |-> s.close, escaped |-> TRUE, opens |-> FALSE]
         ELSE [close |-> IF Closes(s, c) THEN "0" ELSE s.close, escaped |-> FALSE, opens |-> FALSE]

\* A fault: the escape is copied in place of what it escapes.
CopyEscape(s, close, skip) ==
    [s EXCEPT !.b[s.pwrite] = s.b[s.pread], !.pread = @ + skip + 1, !.pwrite = @ + 1, !.close = close]

Copy(s, close, skip) ==
    [s EXCEPT !.b[s.pwrite] = s.b[s.pread + skip], !.pread = @ + skip + 1, !.pwrite = @ + 1,
              !.close = close]

\* A separator ends the parameter, which is stored unless it is empty.
Cut(s, close, nCount) ==
    LET zeroed == [s.b EXCEPT ![s.pwrite] = "0", ![s.pread] = "0"]
        kept == m_bokeepnil \/ zeroed[s.laststart] # "0"
        t == [s EXCEPT !.b = zeroed,
                       !.pars = IF kept THEN Append(@, s.laststart) ELSE @,
                       !.laststart = s.pwrite + 1]
    IN CASE kept /\ Len(t.pars) >= nCount /\ close = "0" ->
               [t EXCEPT !.pread = @ + 1, !.done = TRUE]
         [] kept /\ ~(Len(t.pars) >= nCount /\ close = "0") /\ zeroed[s.pread + 1] = "0" ->
               [t EXCEPT !.pread = @ + 1, !.laststart = 0, !.done = TRUE]
         [] OTHER -> Copy(t, close, 0)

ReadChar(s, nCount) ==
    LET c == s.b[s.pread]
        k == Bracket(s, c)
    IN IF ~k.escaped /\ (k.opens \/ k.close = "0") /\ c \in m_pch
       THEN Cut(s, k.close, nCount)
       ELSE Copy(s, k.close, IF k.escaped THEN 1 ELSE 0)

\* The end of the string ends the last parameter.
AtEnd(s) ==
    LET t == [s EXCEPT !.b[s.pwrite] = "0"]
    IN IF t.b[t.laststart] # "0" THEN [t EXCEPT !.pars = Append(@, t.laststart)] ELSE t

Scan(b, p, pars, nCount) ==
    LET Step(s, i) == IF s.done \/ i < s.pread \/ s.b[s.pread] = "0" THEN s ELSE ReadChar(s, nCount)
        s == FoldLeft(Step, Start(b, p, pars), [i \in 1..(Len(b) - p) |-> p + i - 1])
    IN IF s.done THEN s ELSE AtEnd(s)

ParseParam(nCount) ==
    IF buf[m_pStart] = "0" \/ nCount <= Len(m_pszParams)
    THEN UNCHANGED <<buf, m_pStart, m_pszParams>>
    ELSE LET s == Scan(buf, m_pStart, m_pszParams, nCount)
         IN buf' = s.b /\ m_pStart' = s.pread /\ m_pszParams' = s.pars

-----------------------------------------------------------------------------
Strings == UNION {[1..n -> Chars] : n \in 0..MaxLen}

\* SetParseStrEx copies the string; nothing is cut yet.
InitStr ==
    /\ src \in Strings /\ m_bokeepnil \in BOOLEAN
    /\ buf = src \o <<"0", "0">>
    /\ m_pStart = 1 /\ m_pszParams = <<>>

Param(i) == ParseParam(i + 1) /\ UNCHANGED <<src, m_bokeepnil>>

NextStr == \E i \in 0..MaxLen : Param(i)
SpecStr == InitStr /\ [][NextStr]_strVars

-----------------------------------------------------------------------------
(* Properties.                                                               *)

\* All at once: what one call that asks for more parameters than there are would find.
AllParams ==
    LET s == IF src = <<>> THEN Start(buf, 1, <<>>) ELSE Scan(src \o <<"0", "0">>, 1, <<>>, MaxLen + 9)
    IN [i \in DOMAIN s.pars |-> Text(s.b, s.pars[i])]

\* What is not cut away: the characters between the separators.
Kept(s) == SelectSeq(s, LAMBDA c : c \notin m_pch \cup {m_zychr})

\* Whatever parameters are asked for, in whatever order, those found are the first of the ones
\* that a single pass finds, and stay what they are when more are asked for (ParseParam begins
\* again in the middle of a string it has changed); together they are the string without its
\* separators and escapes.
ParamsStay ==
    /\ Len(m_pszParams) <= Len(AllParams)
    /\ \A i \in DOMAIN m_pszParams : Text(buf, m_pszParams[i]) = AllParams[i]
    /\ Kept(FlattenSeq(AllParams)) = Kept(src)
=============================================================================
