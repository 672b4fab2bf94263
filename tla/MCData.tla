------------------------------- MODULE MCData -------------------------------
(* The library's containers, files, caches and conversions, each on its own:   *)
(* a behaviour is one of them, chosen by part.                                 *)
(*   SqlHandle     statements of the fields k and v, of a key that is not       *)
(*                 written, or of v alone; rows bound by name, by place in the  *)
(*                 other order, or v to a variable and k to the second field    *)
(*   LoopBuf       6 bytes, growing by twos up to 12, in steps of 1, 3 and 4   *)
(*   LoopList      rings of 3 and 2 elements                                   *)
(*   MemPool       pools of two nodes, sizes at the borders of the pools       *)
(*   FrameAlloc    a frame of 6 bytes, three nested scopes                     *)
(*   Redis         two calls, two faults                                     *)
(*   HashManage    three values in three indexes, two of them unique           *)
(*   Ini           three files, two writes of four texts                       *)
(*   EasyStrParse  strings of up to four characters                            *)
(*   Logger        one call while the levels are changed once                  *)
(*   SqlText       strings of four characters, numbers of 2, 4 and 6 bits      *)
(*   Lookaside     two threads, two pools of one node at a time                *)
(*   XmlTree       three elements, four calls, names that differ in case       *)
(*   JsonTrans     four steps on a member of each type                         *)
(*   Rtti          five classes built in every order                           *)
(*   MsgTrans      two commands of sizes at every limit, on the real scale     *)
(*   Base64        up to four bytes, three maps, three paddings                *)
(*   StringEx      names, texts and times, four words of which one is empty    *)
(*   CmdLine       lines of four pieces                                        *)
EXTENDS SqlHandle, LoopBuf, LoopList, MsgTrans, Logger, FrameAlloc, MemPool, Lookaside, Redis, TLC

VARIABLE part

Col(n, o, s, w) == [name |-> n, offset |-> o, data_addr |-> s, canWrite |-> w]

MCWrite == {<<Col("k", 0, FALSE, TRUE), Col("v", 1, FALSE, TRUE)>>,
            <<Col("v", 1, FALSE, TRUE), Col("k", 0, FALSE, FALSE)>>,
            <<Col("v", 1, FALSE, TRUE)>>}

MCRead == {[cols |-> <<Col("k", 0, FALSE, TRUE), Col("v", 1, FALSE, TRUE)>>, size |-> 2],
           [cols |-> <<Col("*", 1, FALSE, TRUE), Col("*", 0, FALSE, TRUE)>>, size |-> 2],
           [cols |-> <<Col("v", 0, TRUE, TRUE), Col("k", 1, FALSE, TRUE)>>, size |-> 2]}

MCSelects == {<<"k", "v">>, <<"v", "k">>, <<"v">>}

Kinds == <<"Limit", "Multi", "Limit">>
MCKey(i, v) == IF i = 1 THEN v \div 2 ELSE IF i = 2 THEN v % 2 ELSE (v + 1) \div 2
VARIABLES ets, present, stale
Hash == INSTANCE HashManage WITH
    Values <- {1, 2, 3}, Indexes <- Kinds, mhkey <- MCKey, MaxLen <- 3

MCNames == {<<"a">>, <<"A">>}
MCTexts == {<<<<>>>>, <<<<" ", "x">>>>, <<<<"x">>, <<>>>>,
            <<<<"[", "a", "]">>, <<"x", " ", "=", "y", " ">>>>}
\* Comments, a multi-line value, a key given twice; keys before any section, names in both
\* cases, an empty value and an empty key.
MCFiles ==
    { <<>>,
      << <<";", "f">>, <<>>, <<";", "s">>, <<>>, <<";", "t">>, <<"[", "b", " ", "]">>, <<"x">>,
         <<";", "k">>, <<"a", "=", "<<<", "T">>, <<";", "y">>, <<>>, <<"T">>, <<"A", "=", "z">> >>,
      << <<>>, <<"a", "=", "x">>, <<>>, <<";", "s">>, <<>>, <<"[", "a", "]">>, <<"b", "=">>,
         <<"[", "A", "]">>, <<"B", "=", "y">>, <<"=", "y">> >> }
CONSTANT NoFile
VARIABLES m_bAllowMultiKey, simini, disk, writes
File == INSTANCE Ini WITH
    Names <- MCNames, Texts <- MCTexts, Files <- MCFiles, MaxWrites <- 2, None <- NoFile

VARIABLES src, m_bokeepnil, buf, m_pStart, m_pszParams
Str == INSTANCE EasyStrParse WITH
    Chars <- {"x", "y", ",", "(", ")", "\\"}, m_pch <- {","}, m_pBAch <- ("(" :> ")"),
    m_zychr <- "\\", MaxLen <- 4

VARIABLE in
Text == INSTANCE SqlText WITH MaxChars <- 4, Bits <- 2, FieldSize <- 6

MCLower(name) == IF name = "A" THEN "a" ELSE name
VARIABLES doc, file, made, adds
Xml == INSTANCE XmlTree WITH
    Names <- {"a", "A"}, Lower <- MCLower, Texts <- {" "}, Bits <- 2, Numbers <- {-1, 1},
    MaxNodes <- 3, MaxCalls <- 4, calls <- adds

VARIABLES type, data, elem, saved, before, did, steps
Json == INSTANCE JsonTrans WITH Bits <- 2, Size <- 2, MaxLen <- 2, MaxSteps <- 4

\* A class with a base and a field in the wrong order, one with two bases of which one has a base,
\* one whose alias and one whose name is taken, the last one with a struct inside.
Part(n, k, of, o, s) == [name |-> n, alias |-> n, kind |-> k, of |-> of, offs |-> o, size |-> s]
Class(n, alias, sort, p) == [name |-> n, aliasname |-> alias, sort |-> sort, parts |-> p]
MCDecl ==
    [A |-> Class(<<"a">>, <<"a">>, "none", <<Part("y", "column", "A", 4, 4), Part("x", "column", "A", 0, 4)>>),
     B |-> Class(<<"b">>, <<"b">>, "eSortByOffSet",
                 <<Part("z", "column", "A", 8, 2), Part("A", "base", "A", 0, 8), Part("z", "column", "A", 10, 2)>>),
     C |-> Class(<<"c">>, <<"a">>, "none", <<Part("A", "base", "A", 4, 8), Part("v", "other", "A", 0, 4)>>),
     G |-> Class(<<"g">>, <<"g">>, "none",
                 <<Part("B", "base", "B", 0, 12), Part("C", "base", "C", 12, 12), Part("w", "column", "A", 24, 4)>>),
     E |-> Class(<<"b">>, <<"e">>, "none", <<Part("s", "struct", "B", 4, 12), Part("u", "column", "A", 0, 4)>>)]
MCQueries == {<<"k", " ", "a">>, <<"n", ":", "b">>, <<"k", " ", "n", ":", "g">>, <<"h">>}
VARIABLES built, hashTable, hashAliasTable, classes
Types == INSTANCE Rtti WITH
    Classes <- DOMAIN MCDecl, Decl <- MCDecl, Hash <- Len, Queries <- MCQueries, Null <- NoFile

Base == INSTANCE Base64 WITH Bytes <- {0, 47, 65, 165, 255}, StrayBytes <- {0, 77, 255}, MaxLen <- 4

MCWords == <<<<"x", "\r">>, <<"\r">>, <<"y", "y">>, <<"*", "H">>>>
Strings == INSTANCE StringEx WITH MaxChars <- 5, Words <- MCWords, MaxFilter <- 6

MCPieces == {<<"x">>, <<"X", "=">>, <<"x", "=", "x">>, <<"\"">>, <<" ">>, <<"|">>}
MCLowerX(c) == IF c = "X" THEN "x" ELSE c
VARIABLE cmdLine
Line == INSTANCE CmdLine WITH Pieces <- MCPieces, Lower <- MCLowerX, MaxPieces <- 4

indexVars == <<ets, present, stale>>
fileVars == <<m_bAllowMultiKey, simini, disk, writes>>
cutVars == <<src, m_bokeepnil, buf, m_pStart, m_pszParams>>
xmlVars == <<doc, file, made, adds>>
jsonVars == <<type, data, elem, saved, before, did, steps>>
rttiVars == <<built, hashTable, hashAliasTable, classes>>
dataVars == <<handleVars, bufVars, listVars, poolVars, frameVars, redisVars, indexVars, fileVars,
              cutVars, logVars>>
docVars == <<asideVars, xmlVars, jsonVars, rttiVars, msgVars, cmdLine>>

Converts == {"SqlText", "Base64", "StringEx"}

\* What is chosen once, and only for the part it belongs to.
Chosen ==
    /\ part # "Ini" => m_bAllowMultiKey = FALSE /\ disk = NoFile
    /\ part # "EasyStrParse" => m_bokeepnil = FALSE /\ src = <<>>
    /\ part \notin Converts => in = <<>>
    /\ part # "JsonTrans" => type = "bool"

MCInit ==
    /\ part \in {"SqlHandle", "LoopBuf", "LoopList", "MemPool", "FrameAlloc", "Redis", "HashManage",
                 "Ini", "EasyStrParse", "Logger", "SqlText", "Lookaside", "XmlTree", "JsonTrans", "Rtti",
                 "MsgTrans", "Base64", "StringEx", "CmdLine"}
    /\ Chosen
    /\ InitHandle /\ InitBuf /\ InitList /\ InitPool /\ InitFrame
    /\ InitRedis /\ Hash!InitHash /\ File!InitIni /\ Str!InitStr /\ InitLog
    /\ InitAside /\ Xml!InitXml /\ Json!InitJson /\ Types!InitRtti /\ InitMsgs /\ Line!InitLine
    /\ \/ part \notin Converts
       \/ part = "SqlText" /\ Text!InitText
       \/ part = "Base64" /\ Base!InitBase64
       \/ part = "StringEx" /\ Strings!InitString

BufStep == \E n \in {1, 3, 4} : (put + n <= 18 /\ putData(n)) \/ setReadPtr(n)

MCNext ==
    /\ UNCHANGED <<part, in>>
    /\ \/ /\ UNCHANGED docVars
          /\ \/ /\ part = "SqlHandle" /\ NextHandle
                /\ UNCHANGED <<bufVars, listVars, poolVars, frameVars, redisVars, indexVars, fileVars,
                               cutVars, logVars>>
             \/ /\ part = "LoopBuf" /\ BufStep
                /\ UNCHANGED <<handleVars, listVars, poolVars, frameVars, redisVars, indexVars,
                               fileVars, cutVars, logVars>>
             \/ /\ part = "LoopList" /\ NextList
                /\ UNCHANGED <<handleVars, bufVars, poolVars, frameVars, redisVars, indexVars,
                               fileVars, cutVars, logVars>>
             \/ /\ part = "MemPool" /\ NextPool
                /\ UNCHANGED <<handleVars, bufVars, listVars, frameVars, redisVars, indexVars,
                               fileVars, cutVars, logVars>>
             \/ /\ part = "FrameAlloc" /\ NextFrame
                /\ UNCHANGED <<handleVars, bufVars, listVars, poolVars, redisVars, indexVars,
                               fileVars, cutVars, logVars>>
             \/ /\ part = "Redis" /\ NextRedis
                /\ UNCHANGED <<handleVars, bufVars, listVars, poolVars, frameVars, indexVars,
                               fileVars, cutVars, logVars>>
             \/ /\ part = "HashManage" /\ Hash!NextHash
                /\ UNCHANGED <<handleVars, bufVars, listVars, poolVars, frameVars, redisVars,
                               fileVars, cutVars, logVars>>
             \/ /\ part = "Ini" /\ File!NextIni
                /\ UNCHANGED <<handleVars, bufVars, listVars, poolVars, frameVars, redisVars,
                               indexVars, cutVars, logVars>>
             \/ /\ part = "EasyStrParse" /\ Str!NextStr
                /\ UNCHANGED <<handleVars, bufVars, listVars, poolVars, frameVars, redisVars,
                               indexVars, fileVars, logVars>>
             \/ /\ part = "Logger" /\ NextLog
                /\ UNCHANGED <<handleVars, bufVars, listVars, poolVars, frameVars, redisVars,
                               indexVars, fileVars, cutVars>>
       \/ /\ UNCHANGED dataVars
          /\ \/ /\ part = "Lookaside" /\ NextAside
                /\ UNCHANGED <<xmlVars, jsonVars, rttiVars, msgVars, cmdLine>>
             \/ /\ part = "XmlTree" /\ Xml!NextXml
                /\ UNCHANGED <<asideVars, jsonVars, rttiVars, msgVars, cmdLine>>
             \/ /\ part = "JsonTrans" /\ Json!NextJson
                /\ UNCHANGED <<asideVars, xmlVars, rttiVars, msgVars, cmdLine>>
             \/ /\ part = "Rtti" /\ Types!NextRtti
                /\ UNCHANGED <<asideVars, xmlVars, jsonVars, msgVars, cmdLine>>
             \/ /\ part = "MsgTrans" /\ NextMsgs
                /\ UNCHANGED <<asideVars, xmlVars, jsonVars, rttiVars, cmdLine>>
             \/ /\ part = "CmdLine" /\ Line!NextLine
                /\ UNCHANGED <<asideVars, xmlVars, jsonVars, rttiVars, msgVars>>

MCSpec ==
    MCInit /\ [][MCNext]_<<part, in, dataVars, docVars>>

-----------------------------------------------------------------------------
(* Their properties.                                                         *)

\* A value is in all the indexes or in none; a row of a SELECT is bound to what it was asked for.
LookupsAgree ==
    /\ part = "HashManage" => Hash!IndexesAgree
    /\ part = "SqlHandle" => SelectedIsBound

\* What is written to a file, a document or a description is read back.
DocumentsKept ==
    /\ part = "Ini" => File!IniKept
    /\ part = "XmlTree" => Xml!XmlKept
    /\ part = "JsonTrans" => Json!JsonKept
    /\ part = "Rtti" => Types!RttiKept

=============================================================================
