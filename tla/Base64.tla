------------------------------- MODULE Base64 -------------------------------
(* stBase64Setup: bytes as digits of six bits, written in the characters of a *)
(* map that can be exchanged.  Bytes and characters are their codes.          *)
EXTENDS Integers, Sequences, SequencesExt
LOCAL INSTANCE Bitwise

CONSTANTS
    Bytes,      \* bytes of the strings to encode, and of the texts to decode
    StrayBytes, \* what may lie in memory before the decoding map
    MaxLen      \* bound: their length

VARIABLE in     \* a string, and the map and the padding set before it is encoded

base64Vars == <<in>>

-----------------------------------------------------------------------------
(* Maps.                                                                      *)

\* Capitals, small letters, digits, plus and slash.
def_base64_map ==
    [i \in 1..64 |-> CASE i <= 26 -> 64 + i
                       [] i \in 27..52 -> 70 + i
                       [] i \in 53..62 -> i - 5
                       [] i = 63 -> 43
                       [] i = 64 -> 47]
def_base64_mod == 61

\* A char is signed: of the 256 places of the decoding map only these are ever asked for.
Ascii == 0..127

\* Where each character is in the map, 255 for those that are not.
DecodeMap(map) ==
    [c \in Ascii |-> IF \E i \in DOMAIN map : map[i] = c
                      THEN (CHOOSE i \in DOMAIN map : map[i] = c) - 1 ELSE 255]

DefaultSetup == [map |-> def_base64_map, mod |-> def_base64_mod, decode |-> DecodeMap(def_base64_map)]


\* A map that holds the padding is refused, and so is padding alone that is new.
init_base64_map(s, pmap, mod) ==
    IF pmap = s.map \/ mod \in Range(pmap) THEN s
    ELSE [map |-> pmap, mod |-> mod, decode |-> DecodeMap(pmap)]

-----------------------------------------------------------------------------
(* Encoding: 0 stands for an empty result where the destination is too small. *)

base64_encode_size(len) == 4 * ((len + 2) \div 3)

\* The digits of up to three bytes, the missing ones zero.
Digits(a, b, c) == <<a \div 4, (a % 4) * 16 + b \div 16, (b % 16) * 4 + c \div 64, c % 64>>

\* Three bytes at a time, and padding for those that are missing at the end.
base64_encode(s, src, dst_len) ==
    LET byte(i) == IF i <= Len(src) THEN src[i] ELSE 0
        group(g) == LET d == Digits(byte(3 * g - 2), byte(3 * g - 1), byte(3 * g))
                        missing == IF 3 * g <= Len(src) THEN 0 ELSE 3 * g - Len(src)
                    IN [k \in 1..4 |-> IF k > 4 - missing THEN s.mod ELSE s.map[d[k] + 1]]
    IN IF dst_len < base64_encode_size(Len(src)) THEN <<>>
       ELSE FlattenSeq([g \in 1..((Len(src) + 2) \div 3) |-> group(g)])

-----------------------------------------------------------------------------
(* Decoding.                                                                  *)

\* The characters before the padding at the end.
Unpadded(s, src) ==
    LET n == CHOOSE n \in 0..Len(src) :
                /\ n > 0 => src[n] # s.mod
                /\ \A i \in (n + 1)..Len(src) : src[i] = s.mod
    IN SubSeq(src, 1, n)

base64_decode_size(s, src) == (Len(Unpadded(s, src)) * 3) \div 4

\* A byte of two neighbouring digits, which are the n-th and the next of their group; what does
\* not fit a byte is cut off.  A digit that is none may be any byte: the third byte of a group
\* takes all bits of the last one.
Byte(n, d, e) ==
    (CASE n = 1 -> d * 4 + ((e \div 16) % 4)
       [] n = 2 -> d * 16 + ((e \div 4) % 16)
       [] n = 3 -> (d * 64) | e) % 256

\* Four characters at a time; of two that are left over comes one byte, of three two.  The index
\* of a character from 0x80 on is negative: stray is what is read before the map.
base64_decode(s, src, dst_len, stray) ==
    LET text == Unpadded(s, src)
        digit(i) == IF text[i] \in Ascii THEN s.decode[text[i]] ELSE stray[text[i]]
        left == Len(text) % 4
        bytes == 3 * (Len(text) \div 4) + (IF left = 0 THEN 0 ELSE left - 1)
        at(j) == 4 * ((j - 1) \div 3) + ((j - 1) % 3) + 1
    IN IF dst_len < base64_decode_size(s, src) THEN <<>>
       ELSE [j \in 1..bytes |-> Byte(((j - 1) % 3) + 1, digit(at(j)), digit(at(j) + 1))]

\* What may be read for the characters of a text that the map has no place for.
Strays(src) == [Range(src) \ Ascii -> StrayBytes]

-----------------------------------------------------------------------------
UrlMap == [def_base64_map EXCEPT ![63] = 45, ![64] = 95]
Reversed == [i \in 1..64 |-> def_base64_map[65 - i]]

InitBase64 ==
    in \in [src : UNION {[1..n -> Bytes] : n \in 0..MaxLen},
            map : {def_base64_map, UrlMap, Reversed}, mod : {def_base64_mod, 46, 65}]

NextBase64 == UNCHANGED in
SpecBase64 == InitBase64 /\ [][NextBase64]_base64Vars

-----------------------------------------------------------------------------
(* Properties.                                                                *)

\* With any map of ASCII characters and any padding, what is encoded is decoded to the same bytes,
\* whatever lies before the map, in destinations as large as the size functions say and no
\* larger, and a smaller one gets nothing.
BytesComeBack ==
    LET s == init_base64_map(DefaultSetup, in.map, in.mod)
        size == base64_encode_size(Len(in.src))
        text == base64_encode(s, in.src, size)
    IN /\ Len(text) = size
       /\ base64_decode_size(s, text) = Len(in.src)
       /\ \A stray \in Strays(text) :
             /\ base64_decode(s, text, Len(in.src), stray) = in.src
             /\ size > 0 => base64_decode(s, text, Len(in.src) - 1, stray) = <<>>
       /\ size > 0 => base64_encode(s, in.src, size - 1) = <<>>

\* Whatever text is decoded, with characters that no map has or an odd number of them, and
\* whatever is read before the map for those from 0x80 on, as many bytes are written as
\* base64_decode_size says.  Those of a text of the map's characters are encoded to that text
\* again, but for bits of its last character that are in no byte.
DecodedFits ==
    LET s == init_base64_map(DefaultSetup, in.map, in.mod)
        text == Unpadded(s, in.src)
    IN \A stray \in Strays(in.src) :
        LET bytes == base64_decode(s, in.src, 4 * MaxLen, stray)
            again == Unpadded(s, base64_encode(s, bytes, 4 * MaxLen))
        IN /\ Len(bytes) = base64_decode_size(s, in.src)
           /\ Range(text) \subseteq Range(s.map) /\ Len(text) % 4 # 1 =>
                 /\ Len(again) = Len(text)
                 /\ \A i \in DOMAIN text : i < Len(text) \/ i % 4 = 0 => again[i] = text[i]

Base64Kept == BytesComeBack /\ DecodedFits
=============================================================================
