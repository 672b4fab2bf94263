------------------------------- MODULE SqlText -------------------------------
(* How CSqlBase turns the fields of a structure into the text of a statement   *)
(* and the cells of a row into fields, and stUrlInfo a URL into what a handle  *)
(* connects with.  Bytes are tokens: "H" any byte from 0x80 on, "0" the zero   *)
(* byte; in the text of a statement "CHAR(.)" is one token.                    *)
EXTENDS Integers, Sequences, SequencesExt, TLC

CONSTANTS
    MaxChars,       \* bound: characters of a string, and of a URL
    Bits,           \* width of a uint8_t; a uint16_t has twice as many, a uint32_t three times
    FieldSize       \* size of a string field

VARIABLE in         \* what is converted: a string, a number or a URL

textVars == <<in>>

-----------------------------------------------------------------------------
(* Strings.                                                                  *)

mysql_stc_escape == ("0" :> "CHAR(0)") @@ ("'" :> "CHAR(39)")

\* A fault: after an escape the literal is not opened again.
Plain_unopened(s, bytes) == [s EXCEPT !.dest = @ \o bytes, !.bolastescape = FALSE]

\* Bytes that stay go into a literal, which is opened again after an escape.
Plain(s, bytes) ==
    [s EXCEPT !.dest = @ \o (IF s.bolastescape THEN <<"+", "'">> ELSE <<>>) \o bytes,
              !.bolastescape = FALSE]

\* A byte that cannot stay closes the literal; the last one leaves it open.
Escape(s, text, last) ==
    [s EXCEPT !.dest = @ \o (IF s.bolastescape THEN <<"+">> ELSE <<"'", "+">>) \o <<text>>
                         \o (IF last THEN <<"+", "'">> ELSE <<>>),
              !.bolastescape = TRUE]

\* Three bytes at a time from 0x80 on, except the last byte: whatever the second and third are,
\* and if the string has only two left, the byte that follows it in memory.
escapeStr(src, follows) ==
    LET n == Len(src)
        step(s, i) ==
            CASE i < s.i -> s
              [] i >= s.i /\ src[i] = "H" /\ i < n ->
                    [Plain(s, SubSeq(Append(src, follows), i, i + 2)) EXCEPT !.i = i + 3]
              [] i >= s.i /\ src[i] = "H" /\ i = n -> [Escape(s, "CHAR(H)", TRUE) EXCEPT !.i = i + 1]
              [] i >= s.i /\ src[i] \in DOMAIN mysql_stc_escape ->
                    [Escape(s, mysql_stc_escape[src[i]], i = n) EXCEPT !.i = i + 1]
              [] OTHER -> [Plain(s, <<src[i]>>) EXCEPT !.i = i + 1]
    IN FoldLeft(step, [dest |-> <<>>, bolastescape |-> FALSE, i |-> 1], [i \in DOMAIN src |-> i]).dest

\* The C string of a field, which may fill it, or of escapeStr's text.
CString(field) ==
    LET ends == {i \in DOMAIN field : field[i] = "0"}
    IN IF ends = {} THEN field ELSE SubSeq(field, 1, (CHOOSE i \in ends : \A j \in ends : i <= j) - 1)

\* A field that is not full: its zero follows the string.
DB_STR(field) == <<"'">> \o CString(escapeStr(CString(field), "0")) \o <<"'">>

\* strcpy_q: the rest of the field is zero, and its last byte always.
putString(cell) ==
    [i \in 1..FieldSize |-> IF i <= Len(cell) /\ i < FieldSize THEN cell[i] ELSE "0"]

\* How the text is read: literals and CHAR()s, put together by "+"; a quote that follows the end of
\* a literal at once is part of it.
Char == [t \in {"CHAR(0)", "CHAR(39)", "CHAR(H)"} |->
            CASE t = "CHAR(0)" -> "0" [] t = "CHAR(39)" -> "'" [] OTHER -> "H"]
Read(text) ==
    LET step(s, t) ==
            CASE t = "'" /\ s.closed -> [s EXCEPT !.value = Append(@, t), !.literal = TRUE, !.closed = FALSE]
              [] t = "'" /\ ~s.closed -> [s EXCEPT !.literal = ~@, !.closed = s.literal,
                                                  !.ok = @ /\ (s.literal \/ s.next), !.next = FALSE]
              [] s.literal /\ t # "'" -> [s EXCEPT !.value = Append(@, t)]
              [] ~s.literal /\ t \in DOMAIN Char ->
                    [s EXCEPT !.value = Append(@, Char[t]), !.ok = @ /\ s.next, !.next = FALSE, !.closed = FALSE]
              [] ~s.literal /\ t = "+" -> [s EXCEPT !.ok = @ /\ ~s.next, !.next = TRUE, !.closed = FALSE]
              [] OTHER -> [s EXCEPT !.ok = FALSE]
        r == FoldLeft(step, [value |-> <<>>, literal |-> FALSE, closed |-> FALSE, next |-> TRUE, ok |-> TRUE],
                      text)
    IN [value |-> r.value, ok |-> r.ok /\ ~r.literal /\ ~r.next]

-----------------------------------------------------------------------------
(* Numbers.                                                                  *)

Width == [DB_BYTE |-> Bits, DB_WORD |-> 2 * Bits, DB_DWORD |-> 3 * Bits]
Signed(n, w) == IF n >= 2^(w - 1) THEN n - 2^w ELSE n

\* The cast is to int, as wide as a uint32_t: only that may be printed negative.
userdata2sql(type, n) == IF type = "DB_DWORD" THEN Signed(n, Width[type]) ELSE n

\* atoi, and a cast that keeps the low bits; a cell that is NULL has no text.
putUserData(type, cell) == IF cell = <<>> THEN 0 ELSE cell[1] % 2^Width[type]

-----------------------------------------------------------------------------
(* URLs: what follows the head, user:passwd@host:port/dbName/param.          *)

Ends == <<":", "@", ":", "/">>

\* The name of the database, and parameters, empty ones left out.
DbParts(s) == SelectSeq(
    FoldLeft(LAMBDA parts, c : IF c = "/" THEN Append(parts, <<>>)
                               ELSE [parts EXCEPT ![Len(parts)] = Append(@, c)], <<<<>>>>, s),
    LAMBDA p : p # <<>>)

parseURLString(s) ==
    LET step(p, c) == IF p.j <= 4 /\ c = Ends[p.j] THEN [p EXCEPT !.j = @ + 1]
                      ELSE [p EXCEPT !.part[p.j] = Append(@, c)]
        p == FoldLeft(step, [j |-> 1, part |-> [i \in 1..5 |-> <<>>]], s)
        db == DbParts(p.part[5])
    IN [part |-> SubSeq(p.part, 1, 4), db |-> db,
        urlerror |-> p.j # 5 \/ (p.part[5] # <<>> /\ Len(db) \notin {1, 2})]

\* putURL of the parts.
UrlOf(part, dbname) ==
    part[1] \o <<":">> \o part[2] \o <<"@">> \o part[3] \o <<":">> \o part[4] \o <<"/">> \o dbname

-----------------------------------------------------------------------------
Characters == {<<"x">>, <<"+">>, <<"'">>, <<"0">>, <<"H", "H">>, <<"H", "H", "H">>}
Sources == {FlattenSeq(s) \o last : s \in UNION {[1..n -> Characters] : n \in 0..MaxChars},
                                    last \in {<<>>, <<"H">>}}

InitText ==
    in \in [kind : {"string"}, src : Sources]
           \cup UNION {[kind : {"number"}, type : {t}, n : 0..(2^Width[t] - 1)] : t \in DOMAIN Width}
           \cup [kind : {"url"}, src : UNION {[1..n -> {"x", ":", "@", "/"}] : n \in 0..(MaxChars + 2)}]

NextText == UNCHANGED in
SpecText == InitText /\ [][NextText]_textVars

-----------------------------------------------------------------------------
(* Properties.                                                               *)

\* A quote or a zero is behind a byte from 0x80 on where escapeStr copies three bytes unread, or
\* it copies a byte that follows the string and is not its end.
Swallowed(src, follows) ==
    LET lead[i \in -1..Len(src)] ==
            i > 0 /\ i < Len(src) /\ src[i] = "H" /\ ~lead[i - 1] /\ ~lead[i - 2]
    IN \/ \E i \in DOMAIN src : src[i] \in {"'", "0"} /\ (lead[i - 1] \/ lead[i - 2])
       \/ follows # "0" /\ lead[Len(src) - 1]

\* What escapeStr makes of a string reads back as the string, every literal closed and every part
\* joined, wherever the quotes and zeros are, unless one is swallowed; and of a string that its
\* zero follows it reads back only then.
EscapedReadsBack ==
    in.kind = "string" =>
        \A follows \in {"0", "x", "'"} :
            LET r == Read(<<"'">> \o CString(escapeStr(in.src, follows)) \o <<"'">>)
                back == r.ok /\ r.value = in.src
            IN /\ ~Swallowed(in.src, follows) => back
               /\ back /\ follows = "0" => ~Swallowed(in.src, follows)

\* A string that leaves room for its zero comes back into the field it was written from, unless
\* a quote in it follows a character of two bytes.
FieldComesBack ==
    in.kind = "string" /\ Len(CString(in.src)) < FieldSize /\ ~Swallowed(CString(in.src), "0") =>
        CString(putString(Read(DB_STR(in.src)).value)) = CString(in.src)

\* A number comes back whatever its width, through the signed text of the widest (userdata2sql,
\* putUserData).
NumberComesBack ==
    in.kind = "number" => putUserData(in.type, <<userdata2sql(in.type, in.n)>>) = in.n

\* A URL that is accepted is made of the parts that were found in it, and one made of parts
\* without separators is accepted.
UrlComesBack ==
    in.kind = "url" =>
        LET u == parseURLString(in.src)
            joined == IF Len(u.db) = 2 THEN u.db[1] \o <<"/">> \o u.db[2]
                      ELSE IF Len(u.db) = 1 THEN u.db[1] ELSE <<>>
            inks == Len(SelectSeq(in.src, LAMBDA c : c = "x"))
        IN /\ ~u.urlerror /\ u.db # <<>> /\ in.src[Len(in.src)] # "/" =>
                 \E slashes \in 0..MaxChars :
                    in.src = UrlOf(u.part, [i \in 1..slashes |-> "/"] \o joined)
           /\ Len(in.src) = inks + 4 /\ (\E a, b, c, d \in 0..inks :
                 in.src = UrlOf([i \in 1..4 |-> [k \in 1..<<a, b, c, d>>[i] |-> "x"]],
                                [k \in 1..(inks - a - b - c - d) |-> "x"])) => ~u.urlerror

TextComesBack == EscapedReadsBack /\ FieldComesBack /\ NumberComesBack /\ UrlComesBack
=============================================================================
