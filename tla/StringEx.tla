------------------------------ MODULE StringEx ------------------------------
(* The library's functions on names, texts and times, and the word filter.    *)
(* Characters are tokens; "H" is a character of three bytes, none of them a   *)
(* space, "*" what the filter writes.                                         *)
EXTENDS Integers, Sequences, SequencesExt

CONSTANTS
    MaxChars,       \* bound: length of names and texts
    Words,          \* words a filter forbids, in the order of its file
    MaxFilter       \* half of _MAX_FILTER_SIZE_

VARIABLE in         \* what a function is given

stringVars == <<in>>

Last0(S) == IF S = {} THEN 0 ELSE CHOOSE i \in S : \A j \in S : j <= i

\* strrchr: where a character is last, or 0.
strrchr(s, c) == Last0({i \in DOMAIN s : s[i] = c})

\* strstr: where t is first from q on, or 0.
strstr(s, t, q) ==
    LET found == {i \in q..(Len(s) - Len(t) + 1) : SubSeq(s, i, i + Len(t) - 1) = t}
    IN IF found = {} THEN 0 ELSE CHOOSE i \in found : \A j \in found : i <= j

-----------------------------------------------------------------------------
(* Names of files.                                                            *)

\* The dot of a name's extension, or 0: after the last slash, and not before a slash.
find_path_dian_houzui(s) ==
    LET p == strrchr(s, ".")
    IN IF p > strrchr(s, "/") /\ (p < Len(s) => s[p + 1] # "\\") THEN p ELSE 0

\* Without an extension all of it is a directory.
extractfilepath(s) ==
    IF find_path_dian_houzui(s) > 0 THEN SubSeq(s, 1, strrchr(s, "/"))
    ELSE IF s = <<>> \/ s[Len(s)] = "/" THEN s ELSE Append(s, "/")

extractfilename(s) ==
    SubSeq(s, Last0({strrchr(s, "/"), strrchr(s, "\\")}) + 1, Len(s))

\* A new extension may come with its dot or without.
changefileext(s, ext) ==
    LET p == find_path_dian_houzui(s)
    IN IF p = 0 THEN s
       ELSE SubSeq(s, 1, IF ext # <<>> /\ ext[1] # "." THEN p ELSE p - 1) \o ext

extractfiletitle(s) == changefileext(extractfilename(s), <<>>)

-----------------------------------------------------------------------------
(* Texts.                                                                     *)

Blank(c) == c = " "

str_trim_left(s) ==
    LET first == {i \in DOMAIN s : ~Blank(s[i])}
    IN IF first = {} THEN <<>> ELSE SubSeq(s, CHOOSE i \in first : \A j \in first : i <= j, Len(s))

\* The first of the spaces that reach to the end becomes the end.
str_trim_right(s) == SubSeq(s, 1, Last0({i \in DOMAIN s : ~Blank(s[i])}))

str_trim(s) == str_trim_right(str_trim_left(s))

\* str_replace into a buffer of ndlen bytes: as long as the text with one more replacement has
\* room.  nnext is its length.
Replaced(s, old, new, ndlen) ==
    LET step(r, i) ==
            LET p == strstr(s, old, r.q)
            IN IF r.done \/ p = 0 \/ r.nnext >= ndlen
               THEN IF r.done THEN r ELSE [r EXCEPT !.dst = @ \o SubSeq(s, r.q, Len(s)), !.done = TRUE]
               ELSE [r EXCEPT !.dst = @ \o SubSeq(s, r.q, p - 1) \o new, !.q = p + Len(old),
                              !.nnext = @ + Len(new) - Len(old)]
    IN FoldLeft(step, [dst |-> <<>>, q |-> 1, nnext |-> Len(s) + Len(new) - Len(old), done |-> FALSE],
                [i \in 1..(Len(s) + 1) |-> i]).dst

-----------------------------------------------------------------------------
(* The word filter.                                                           *)

\* A line's carriage return is not part of its word.
init(lines) ==
    [i \in DOMAIN lines |->
        LET l == lines[i] IN IF l # <<>> /\ l[Len(l)] = "\r" THEN SubSeq(l, 1, Len(l) - 1) ELSE l]

m_forbidWords == SelectSeq(init(Words), LAMBDA w : w # <<>>)

\* A text that is too long is refused unread.
hasFilterStr(s) ==
    \/ Len(s) >= MaxFilter
    \/ \E i \in DOMAIN m_forbidWords : strstr(s, m_forbidWords[i], 1) > 0

\* One word after the other, each of the stars before it being part of the text; a text with any
\* of them is emptied.  len is the size of the text's buffer, its zero included.
doFilter(s, len) ==
    LET text == IF len >= MaxFilter THEN SubSeq(s, 1, IF Len(s) < MaxFilter - 2 THEN Len(s) ELSE MaxFilter - 2)
                ELSE s
        step(r, w) == [t |-> Replaced(r.t, w, <<"*">>, 2 * Len(s) + 2),
                       bFind |-> r.bFind \/ strstr(r.t, w, 1) > 0]
    IN IF FoldLeft(step, [t |-> text, bFind |-> FALSE], m_forbidWords).bFind THEN <<>> ELSE text

-----------------------------------------------------------------------------
(* Times and months.                                                          *)

\* Days, hours, minutes and seconds, those that are shown.
sec2str(n) ==
    CASE n < 0 -> <<>>
      [] n \in 0..59 -> <<n>>
      [] n \in 60..3599 -> <<(n \div 60) % 60, n % 60>>
      [] n \in 3600..86399 -> <<n \div 3600, (n \div 60) % 60, n % 60>>
      [] OTHER -> <<n \div 86400, (n \div 3600) % 24, (n \div 60) % 60, n % 60>>

Months == << <<"J","a","n">>, <<"F","e","b">>, <<"M","a","r">>, <<"A","p","r">>, <<"M","a","y">>,
             <<"J","u","n">>, <<"J","u","l">>, <<"A","u","g">>, <<"S","e","p">>, <<"O","c","t">>,
             <<"N","o","v">>, <<"D","e","c">> >>

\* The month of a date, told by its first letter and, where two or three share it, by one more.
endate2date(src) ==
    CASE src[1] = "J" -> (IF src[2] = "a" THEN 1 ELSE IF src[3] = "l" THEN 7 ELSE 6)
      [] src[1] = "F" -> 2
      [] src[1] = "M" -> (IF src[3] = "r" THEN 3 ELSE 5)
      [] src[1] = "A" -> (IF src[2] = "u" THEN 4 ELSE 8)
      [] src[1] = "S" -> 9
      [] src[1] = "O" -> 10
      [] src[1] = "N" -> 11
      [] src[1] = "D" -> 12
      [] OTHER -> 0

-----------------------------------------------------------------------------
InitString ==
    in \in [kind : {"name"}, src : UNION {[1..n -> {"x", ".", "/", "\\"}] : n \in 0..MaxChars}]
           \cup [kind : {"text"}, src : UNION {[1..n -> {"x", "y", " ", "H"}] : n \in 0..MaxChars}]
           \cup [kind : {"time"}, n : {-1, 0, 59, 60, 3599, 3600, 86399, 86400, 90061, 2147483647}]

NextString == UNCHANGED in
SpecString == InitString /\ [][NextString]_stringVars

-----------------------------------------------------------------------------
(* Properties.                                                                *)

\* A name with an extension is its path and its file's name, one without is a path; the
\* extension that is put in place of another is found there again.
NamesSplit ==
    in.kind = "name" =>
        LET s == in.src
            new == changefileext(s, <<"y">>)
        IN /\ "\\" \notin Range(s) /\ find_path_dian_houzui(s) > 0 =>
                /\ extractfilepath(s) \o extractfilename(s) = s
                /\ extractfilename(new) = extractfiletitle(s) \o <<".", "y">>
           /\ extractfilepath(extractfilepath(s)) = extractfilepath(s)
           /\ IF find_path_dian_houzui(s) = 0 THEN new = s
              ELSE /\ new = changefileext(s, <<".", "y">>)
                   /\ new = changefileext(s, <<>>) \o <<".", "y">>

\* Trimming takes all spaces at the ends and nothing else, in whatever order.
TextsTrimmed ==
    in.kind = "text" =>
        LET t == str_trim(in.src)
        IN /\ t # <<>> => ~Blank(t[1]) /\ ~Blank(t[Len(t)])
           /\ t = str_trim_left(str_trim_right(in.src))
           /\ SelectSeq(t, LAMBDA c : ~Blank(c)) = SelectSeq(in.src, LAMBDA c : ~Blank(c))

\* A text that fits its buffer still does when words in it have been replaced, and those that did
\* not find room are the last ones.
ReplacedFits ==
    in.kind = "text" =>
        \A old \in {<<"x">>, <<"x", "x">>, <<"x", "y">>}, new \in {<<>>, <<"y">>, <<"y", "y", "y">>},
           ndlen \in (Len(in.src) + 1)..(Len(in.src) + 5) :
            LET t == Replaced(in.src, old, new, ndlen)
            IN /\ Len(t) < ndlen
               /\ "y" \notin Range(old) /\ strstr(t, old, 1) > 0 => Len(t) + Len(new) - Len(old) >= ndlen

\* The filter empties exactly the texts it calls bad, if they are not too long for it.
FilterAgrees ==
    in.kind = "text" /\ Len(in.src) < MaxFilter - 1 =>
        doFilter(in.src, Len(in.src) + 1) = (IF hasFilterStr(in.src) THEN <<>> ELSE in.src)

\* A time is the one its parts say, and a month has its own number, except April, which gets
\* August's, and August, which gets April's (endate2date).
TimesAddUp ==
    /\ \A i \in DOMAIN Months :
          endate2date(Months[i]) = CASE i = 4 -> 8 [] i = 8 -> 4 [] OTHER -> i
    /\ in.kind = "time" /\ in.n >= 0 =>
        FoldLeft(LAMBDA n, p : n + p[1] * p[2], 0,
                 Zip(Reverse(sec2str(in.n)), SubSeq(<<1, 60, 3600, 86400>>, 1, Len(sec2str(in.n))))) = in.n

StringsKept == NamesSplit /\ TextsTrimmed /\ ReplacedFits /\ FilterAgrees /\ TimesAddUp
=============================================================================
