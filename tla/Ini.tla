-------------------------------- MODULE Ini --------------------------------
(* CSimpleIni (utils/ini/simpleIni.h) behind CSimpleIniManage, the way        *)
(* GetPrivateProfileString and WritePrivateProfileString use it: one ini file *)
(* kept in memory, changed there and saved as a whole, and read again when a  *)
(* caller forces it.  A file is a sequence of lines, a line a sequence of     *)
(* tokens (" " stands for white space); a section or a key is kept where the  *)
(* load order (nOrder) puts it.                                               *)
EXTENDS Integers, Sequences, SequencesExt

CONSTANTS
    Names,              \* what sections and keys the application writes are called
    Texts,              \* the values it writes: sequences of lines
    Files,              \* files made by hand; their brackets and their texts are closed
    MaxWrites,          \* bound: calls of WritePrivateProfileString
    None

VARIABLES
    m_bAllowMultiKey,   \* may a key have several values? set when the object is made
    simini,             \* the CSimpleIni of m_FileMemData, or None
    disk,               \* the file, or None
    writes              \* calls of WritePrivateProfileString so far, up to the bound

iniVars == <<m_bAllowMultiKey, simini, disk, writes>>
END_OF_TEXT == <<"END_OF_TEXT">>

locase(t) == [i \in DOMAIN t |-> IF t[i] = "A" THEN "a" ELSE t[i]]

\* Neither IsLess: the names are the same but for case.
Same(x, y) == locase(x) = locase(y)

Strip(t) ==
    LET ink == {i \in DOMAIN t : t[i] # " "}
    IN IF ink = {} THEN <<>>
       ELSE SubSeq(t, CHOOSE i \in ink : \A j \in ink : i <= j, CHOOSE i \in ink : \A j \in ink : i >= j)

Empty == [fileComment |-> <<>>, sections |-> <<>>]

Find(s, name) == SelectInSeq(s, LAMBDA e : Same(e.name, name))

-----------------------------------------------------------------------------
(* The table.                                                                *)

SectionOf(d, sec) == LET i == Find(d.sections, sec) IN IF i = 0 THEN <<>> ELSE d.sections[i].keys

GetAllValues(d, sec, key) == SelectSeq(SectionOf(d, sec), LAMBDA e : Same(e.name, key))

GetValue(d, sec, key) ==
    LET all == GetAllValues(d, sec, key) IN IF all = <<>> THEN None ELSE all[1].value

\* The names of a section's keys, each once, in load order.
GetAllKeys(keys) ==
    FoldLeft(LAMBDA names, e : IF \E i \in DOMAIN names : Same(names[i], e.name)
                               THEN names ELSE Append(names, e.name), <<>>, keys)

\* The section is created with the comment only if no key comes with it.
WithSection(d, sec, comment) ==
    IF Find(d.sections, sec) # 0 THEN d
    ELSE [d EXCEPT !.sections = Append(@, [name |-> sec, comment |-> comment, keys |-> <<>>])]

\* A forced value of a key that may have several takes the place and the comment of the first.
Put(keys, e, force) ==
    LET i == Find(keys, e.name)
        others == SelectSeq(SubSeq(keys, i + 1, Len(keys)), LAMBDA x : ~Same(x.name, e.name))
    IN CASE i = 0 \/ (m_bAllowMultiKey /\ ~force) -> Append(keys, e)
         [] m_bAllowMultiKey /\ force ->
               SubSeq(keys, 1, i - 1)
                 \o <<IF keys[i].comment = <<>> THEN e ELSE [e EXCEPT !.comment = keys[i].comment]>>
                 \o others
         [] OTHER -> [keys EXCEPT ![i].value = e.value]

AddEntry(d, sec, key, val, comment, force) ==
    LET made == WithSection(d, sec, <<>>)
    IN [made EXCEPT !.sections[Find(made.sections, sec)].keys =
            Put(@, [name |-> key, value |-> val, comment |-> comment], force)]

DeleteKey(d, sec, key) ==
    LET i == Find(d.sections, sec)
    IN IF i = 0 THEN d
       ELSE [d EXCEPT !.sections[i].keys = SelectSeq(@, LAMBDA e : ~Same(e.name, key))]

DeleteSection(d, sec) == [d EXCEPT !.sections = SelectSeq(@, LAMBDA e : ~Same(e.name, sec))]

-----------------------------------------------------------------------------
(* Reading.  The reader goes line by line, with what FindEntry and            *)
(* LoadMultiLineText have on their stacks.                                    *)

Reader == [d |-> Empty, section |-> <<>>, comment |-> <<>>, gap |-> <<>>, top |-> TRUE,
           open |-> FALSE, tag |-> <<>>, key |-> <<>>, text |-> <<>>]

\* The blank lines between two comments are part of the comment, those after it are not.
CommentLine(r, line) ==
    IF r.top THEN [r EXCEPT !.d.fileComment = Append(@, line)]
    ELSE [r EXCEPT !.comment = IF @ = <<>> \/ r.gap = None THEN <<line>> ELSE @ \o r.gap \o <<line>>,
                   !.gap = <<>>]

SectionLine(r, t) ==
    LET close == SelectInSeq(t, LAMBDA c : c = "]")
        name == Strip(SubSeq(t, 2, close - 1))
    IN [r EXCEPT !.d = WithSection(@, name, r.comment), !.section = name,
                 !.comment = <<>>, !.gap = <<>>]

Loaded(r, key, val) ==
    [r EXCEPT !.d = AddEntry(@, r.section, key, val, r.comment, FALSE),
              !.comment = <<>>, !.gap = <<>>, !.open = FALSE]

IsMultiLineTag(val) == val # <<>> /\ val[1] = "<<<"

\* A line without a key is skipped; it ends a comment, which stays with the next entry.
KeyLine(r, t) ==
    LET eq == SelectInSeq(t, LAMBDA c : c = "=")
        key == Strip(SubSeq(t, 1, eq - 1))
        val == Strip(SubSeq(t, eq + 1, Len(t)))
    IN CASE eq <= 1 -> [r EXCEPT !.gap = None]
         [] eq > 1 /\ IsMultiLineTag(val) ->
               [r EXCEPT !.open = TRUE, !.tag = Tail(val), !.key = key, !.text = <<>>]
         [] OTHER -> Loaded(r, key, <<val>>)

LoadMultiLineText(r, line) ==
    IF Same(line, r.tag) THEN Loaded(r, r.key, r.text)
    ELSE [r EXCEPT !.text = Append(@, line)]

FindEntry(r, line) ==
    LET t == Strip(line)
        s == [r EXCEPT !.top = FALSE]
    IN CASE r.open -> LoadMultiLineText(r, line)
         [] ~r.open /\ t = <<>> -> [s EXCEPT !.gap = IF @ = None THEN @ ELSE Append(@, <<>>)]
         [] ~r.open /\ t # <<>> /\ t[1] = ";" -> CommentLine(r, line)
         [] ~r.open /\ t # <<>> /\ t[1] = "[" -> SectionLine(s, t)
         [] OTHER -> KeyLine(s, t)

\* A text whose tag never comes ends with the file.
LoadData(lines) ==
    LET r == FoldLeft(FindEntry, Reader, lines)
    IN IF r.open THEN Loaded(r, r.key, Append(r.text, <<>>)).d ELSE r.d

-----------------------------------------------------------------------------
(* Writing.                                                                  *)

\* A fault: white space around a single line is not seen.
IsMultiLineDataInside(val) == val # <<<<>>>> /\ Len(val) > 1

IsMultiLineData(val) == val # <<<<>>>> /\ (Len(val) > 1 \/ Strip(val[1]) # val[1])

OutputMultiLineText(text) == text

OutputValue(key, val) ==
    LET head == key \o <<" ", "=", " ">>
    IN IF IsMultiLineData(val)
       THEN <<head \o <<"<<<">> \o END_OF_TEXT>> \o OutputMultiLineText(val) \o <<END_OF_TEXT>>
       ELSE <<head \o val[1]>>

OutputKey(keys, key) ==
    LET entries == SelectSeq(keys, LAMBDA e : Same(e.name, key))
    IN FlattenSeq([i \in DOMAIN entries |->
            (IF entries[i].comment = <<>> THEN <<>>
             ELSE <<<<>>>> \o OutputMultiLineText(entries[i].comment))
              \o OutputValue(key, entries[i].value)])

OutputSection(sec, bNeedNewLine) ==
    LET keys == GetAllKeys(sec.keys)
    IN (IF bNeedNewLine THEN <<<<>>, <<>>>> ELSE <<>>)
         \o OutputMultiLineText(sec.comment)
         \o (IF sec.name = <<>> THEN <<>> ELSE <<<<"[">> \o sec.name \o <<"]">>>>)
         \o FlattenSeq([i \in DOMAIN keys |-> OutputKey(sec.keys, keys[i])])

Save(d) ==
    OutputMultiLineText(d.fileComment)
      \o FlattenSeq([i \in DOMAIN d.sections |->
                        OutputSection(d.sections[i], i > 1 \/ d.fileComment # <<>>)])

-----------------------------------------------------------------------------
InitIni ==
    /\ m_bAllowMultiKey \in BOOLEAN
    /\ simini = None /\ disk \in Files \cup {None} /\ writes = 0

\* The file is read the first time, and again when a caller forces it; if there is none, what
\* is in memory is empty.
LoadFile == IF disk = None THEN Empty ELSE LoadData(disk)

getMemFileData(bforceupdate) == IF simini = None \/ bforceupdate THEN LoadFile ELSE simini

GetPrivateProfileStringA(bforceupdate) ==
    simini' = getMemFileData(bforceupdate) /\ UNCHANGED <<disk, writes>>

\* The memory changes whether or not the file can be written.
Changed(d) == simini' = d /\ disk' \in {disk, Save(d)}

WritePrivateProfileStringA ==
    LET d == getMemFileData(FALSE)
    IN /\ writes < MaxWrites
       /\ writes' = writes + 1
       /\ \E sec \in Names, key \in Names :
            \/ \E val \in Texts : Changed(AddEntry(d, sec, key, val, <<>>, FALSE))
            \/ Changed(DeleteKey(d, sec, key))
            \/ Changed(DeleteSection(d, sec))

\* What SetValue of the class offers besides: a value that replaces all others of its key.
SetValue ==
    /\ simini # None /\ writes < MaxWrites
    /\ writes' = writes + 1
    /\ \E sec \in Names, key \in Names, val \in Texts :
          simini' = AddEntry(simini, sec, key, val, <<>>, TRUE)
    /\ UNCHANGED disk

Edit == \E lines \in Files : disk' = lines /\ UNCHANGED <<simini, writes>>

NextIni ==
    /\ \/ \E force \in BOOLEAN : GetPrivateProfileStringA(force)
       \/ WritePrivateProfileStringA
       \/ SetValue
       \/ Edit
    /\ UNCHANGED m_bAllowMultiKey

SpecIni == InitIni /\ [][NextIni]_iniVars

-----------------------------------------------------------------------------
(* Properties.                                                               *)

\* What a section holds, key by key: every value with its comment, in order.
Contents(d) ==
    [i \in DOMAIN d.sections |->
        LET s == d.sections[i]
            keys == GetAllKeys(s.keys)
        IN <<s.name, [j \in DOMAIN keys |-> <<keys[j], [k \in DOMAIN GetAllValues(d, s.name, keys[j]) |->
                LET e == GetAllValues(d, s.name, keys[j])[k] IN <<e.value, e.comment>>]>>]>>]

CommentsOf(d) ==
    SelectSeq(<<d.fileComment>> \o [i \in DOMAIN d.sections |-> d.sections[i].comment],
              LAMBDA c : c # <<>>)

\* Every file saved is read back as it was in memory: sections, keys, all their values and
\* comments, in the order they were first loaded or added (AddEntry, Save and LoadData agree).
\* The comment of the first section becomes the file's when the file has none.
SavedIsLoaded ==
    simini # None =>
        LET again == LoadData(Save(simini))
        IN Contents(again) = Contents(simini) /\ CommentsOf(again) = CommentsOf(simini)

\* A section is there once, and a key once unless keys may have several values, whatever the
\* case of the names (AddEntry).
NamesOnce ==
    simini # None =>
        \A i, j \in DOMAIN simini.sections :
            /\ Same(simini.sections[i].name, simini.sections[j].name) => i = j
            /\ LET keys == simini.sections[i].keys
               IN ~m_bAllowMultiKey =>
                    \A k, l \in DOMAIN keys : Same(keys[k].name, keys[l].name) => k = l

IniKept == SavedIsLoaded /\ NamesOnce
=============================================================================
