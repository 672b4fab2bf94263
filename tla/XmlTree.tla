------------------------------- MODULE XmlTree -------------------------------
(***************************************************************************)
(* zXMLParser: a document is built by calls that add elements, texts and   *)
(* attributes, is dumped to a file and read again, and is looked into by   *)
(* name.  The tree is TinyXML's; its names are told apart by case when     *)
(* children are looked up and attributes set, and not when roots and       *)
(* attributes are looked up.                                               *)
(***************************************************************************)
EXTENDS Integers, Sequences, FiniteSets, SequencesExt, TLC

CONSTANTS
    Names,      \* names of elements and attributes
    Lower(_),   \* a name in lower case (stricmp_q compares these)
    Texts,      \* texts that are not numbers; "" is one
    Bits,       \* width of int64_t
    Numbers,    \* the numbers written
    MaxNodes,   \* bound: elements of a document
    MaxCalls    \* bound: calls that add to a document

NoText == "no text"
Doc == 0

VARIABLES
    doc,    \* the elements in the order they were made: parent, name, text, attributes
    file,   \* what the file holds, and how it was made; an empty document when there is none
    made,   \* history: the attributes set in the document, in order
    calls   \* counts the calls that add to the document, for the bound

xmlVars == <<doc, file, made, calls>>

Empty == [doc |-> <<>>, made |-> <<>>]

InitXml == doc = <<>> /\ file = Empty /\ made = <<>> /\ calls = 0

-----------------------------------------------------------------------------
(* Numbers.                                                                  *)

Int64 == -(2 ^ (Bits - 1))..(2 ^ (Bits - 1) - 1)

\* ui64toa_q takes the number as a uint64_t.
ui64toa_q(v) == ToString(v % (2 ^ Bits))

\* strtoll stops at the largest int64_t; a text that is no number is 0.
strto64_q(s) ==
    IF \E n \in 0..(2 ^ Bits - 1) : ToString(n) = s
    THEN LET n == CHOOSE k \in 0..(2 ^ Bits - 1) : ToString(k) = s IN
         IF n \in Int64 THEN n ELSE 2 ^ (Bits - 1) - 1
    ELSE 0

-----------------------------------------------------------------------------
(* TinyXML.                                                                  *)

Nodes == 1..Len(doc)
ChildrenOf(p) == SelectSeq([n \in Nodes |-> n], LAMBDA n : doc[n].parent = p)
Named(s, name) == SelectSeq(s, LAMBDA n : doc[n].name = name)
FirstOf(s) == IF s = <<>> THEN Doc ELSE Head(s)

\* Mutant: SetAttribute as the lookups compare.
SetAttribute_nocase(attrs, name, value) ==
    IF \E i \in DOMAIN attrs : Lower(attrs[i].name) = Lower(name)
    THEN [i \in DOMAIN attrs |->
            IF Lower(attrs[i].name) = Lower(name) THEN [name |-> name, value |-> value] ELSE attrs[i]]
    ELSE Append(attrs, [name |-> name, value |-> value])

\* TiXmlElement::SetAttribute: a name that is there, in this case, gets a new value.
SetAttribute(attrs, name, value) ==
    IF \E i \in DOMAIN attrs : attrs[i].name = name
    THEN [i \in DOMAIN attrs |->
            IF attrs[i].name = name THEN [name |-> name, value |-> value] ELSE attrs[i]]
    ELSE Append(attrs, [name |-> name, value |-> value])

\* What a file keeps of a document: a text without any but blank characters is not read back.
Parsed(d) == [n \in DOMAIN d |-> IF d[n].text \in {"", " "} THEN [d[n] EXCEPT !.text = NoText] ELSE d[n]]

-----------------------------------------------------------------------------
(* The calls that change the document or the file.                           *)

Add(parent, name, text) ==
    /\ Len(doc) < MaxNodes
    /\ calls < MaxCalls /\ calls' = calls + 1
    /\ doc' = Append(doc, [parent |-> parent, name |-> name, text |-> text, attrs |-> <<>>])
    /\ UNCHANGED <<file, made>>

newRootNode(name) == Add(Doc, name, NoText)

\* content may be NULL.
newChildNode(parent, name, text) == Add(parent, name, text)

newChildNode_Num(parent, name, v) == newChildNode(parent, name, ui64toa_q(v))

newNodeProp(n, name, value) ==
    /\ calls < MaxCalls /\ calls' = calls + 1
    /\ doc' = [doc EXCEPT ![n].attrs = SetAttribute(@, name, value)]
    /\ made' = Append(made, [node |-> n, name |-> name, value |-> value])
    /\ UNCHANGED file

newNodeProp_Num(n, name, v) == newNodeProp(n, name, ui64toa_q(v))

\* dump: the old file is removed; nothing is written of a document without a root, that is without
\* any element.
dump ==
    /\ file' = [doc |-> doc, made |-> made]
    /\ UNCHANGED <<doc, made, calls>>

\* initFile: the document is cleared, and loaded if there is a file.
initFile ==
    /\ doc' = Parsed(file.doc)
    /\ made' = file.made
    /\ UNCHANGED <<file, calls>>

\* init, initStr, final: a new document.
Clear == doc' = <<>> /\ made' = <<>> /\ UNCHANGED <<file, calls>>

NextXml ==
    \/ \E name \in Names : newRootNode(name)
    \/ \E p \in Nodes, name \in Names, text \in Texts \cup {NoText} : newChildNode(p, name, text)
    \/ \E p \in Nodes, name \in Names, v \in Numbers : newChildNode_Num(p, name, v)
    \/ \E n \in Nodes, name \in Names, v \in Numbers : newNodeProp_Num(n, name, v)
    \/ dump \/ initFile \/ Clear

SpecXml == InitXml /\ [][NextXml]_xmlVars

-----------------------------------------------------------------------------
(* The lookups; Doc stands for NULL.                                         *)

\* Case does not count, and without a name any root does.
getRootNode(name) == FirstOf(SelectSeq(ChildrenOf(Doc), LAMBDA n : Lower(doc[n].name) = Lower(name)))

getChildNode(p, name) == FirstOf(Named(ChildrenOf(p), name))

getNextNode(n, name) == FirstOf(Named(SelectSeq(ChildrenOf(doc[n].parent), LAMBDA k : k > n), name))

getChildNodeCount(p, name) == Len(Named(ChildrenOf(p), name))

\* _getChildNodeNum leaves the value alone when the child has no text, and getChildNodeNum gives 0.
getChildNodeNum(p, name) ==
    LET n == getChildNode(p, name) IN
    IF n = Doc THEN <<FALSE, 0>>
    ELSE <<TRUE, IF doc[n].text = NoText THEN 0 ELSE strto64_q(doc[n].text)>>

\* getChildNodeStr into a field leaves it alone without a text; into a std::string it takes NULL.
getChildNodeStr(p, name) ==
    LET n == getChildNode(p, name) IN
    IF n = Doc THEN <<FALSE, "">> ELSE <<TRUE, doc[n].text>>

\* The loop over the attributes: the first whose name is equal but for case.
PropFound(n, name) ==
    LET found == SelectSeq(doc[n].attrs, LAMBDA a : Lower(a.name) = Lower(name)) IN
    IF found = <<>> THEN <<FALSE, "">> ELSE <<TRUE, Head(found).value>>

_getNodePropNum(n, name) ==
    <<PropFound(n, name)[1], IF PropFound(n, name)[1] THEN strto64_q(PropFound(n, name)[2]) ELSE 0>>

-----------------------------------------------------------------------------

\* An attribute reads as the value set last under the spelling that was set first: another spelling
\* of the same name makes an attribute that no lookup reaches (newNodeProp, getNodePropStr).
PropsRead ==
    \A n \in Nodes, name \in Names :
        LET sets == SelectSeq(made, LAMBDA w : w.node = n /\ Lower(w.name) = Lower(name))
            same == SelectSeq(sets, LAMBDA w : w.name = sets[1].name) IN
        PropFound(n, name) = IF sets = <<>> THEN <<FALSE, "">> ELSE <<TRUE, same[Len(same)].value>>

\* Walking from the first child to the next by name meets getChildNodeCount elements, each one made
\* under that parent: the lookups of texts and numbers find one then, and no root is missed for its case.
WalkMeetsAll ==
    /\ \A p \in Nodes, name \in Names :
         LET walk[k \in 0..MaxNodes] ==
                 IF k = 0 THEN getChildNode(p, name)
                 ELSE IF walk[k - 1] = Doc THEN Doc ELSE getNextNode(walk[k - 1], name)
             met == {walk[k] : k \in 0..MaxNodes} \ {Doc} IN
         /\ met = {n \in Nodes : doc[n].parent = p /\ doc[n].name = name}
         /\ Cardinality(met) = getChildNodeCount(p, name)
         /\ getChildNodeStr(p, name)[1] = (met # {})
         /\ getChildNodeNum(p, name)[1] = (met # {})
    /\ \A n \in Nodes, name \in Names :
         doc[n].parent = Doc /\ Lower(doc[n].name) = Lower(name) => getRootNode(name) \in 1..n

\* A number that is not negative is read back, from the document and from the file; a negative one
\* is printed as a large one, and comes back as the largest.
NumbersComeBack ==
    \A n \in Nodes, v \in Int64 :
        LET back == IF v >= 0 THEN v ELSE 2 ^ (Bits - 1) - 1 IN
        /\ doc[n].parent # Doc /\ doc[n].text = ui64toa_q(v)
              => \E m \in 1..n : /\ doc[m].parent = doc[n].parent
                                 /\ getChildNode(doc[n].parent, doc[n].name) = m
                                 /\ m = n => getChildNodeNum(doc[n].parent, doc[n].name) = <<TRUE, back>>
        /\ \A i \in DOMAIN doc[n].attrs :
             /\ doc[n].attrs[i].value = ui64toa_q(v)
             /\ PropFound(n, doc[n].attrs[i].name)[2] = ui64toa_q(v)
             => _getNodePropNum(n, doc[n].attrs[i].name) = <<TRUE, back>>

XmlKept == PropsRead /\ WalkMeetsAll /\ NumbersComeBack
=============================================================================
