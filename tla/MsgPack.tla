------------------------------- MODULE MsgPack -------------------------------
(***************************************************************************)
(* packet_getcmd: cuts the commands out of a LoopBuf that receives the     *)
(* packets of packetbuf in pieces of any size.  It decrypts in place, in   *)
(* blocks, and remembers in _de_size how much of the readable bytes is     *)
(* decrypted: across calls, and across moves of the bytes.                 *)
(*                                                                         *)
(* What a byte holds follows from its place in the stream: a packet is its *)
(* size, whether it is compressed, and its command.                        *)
(***************************************************************************)
EXTENDS LoopBuf, Sequences

CONSTANTS
    Kinds,      \* what can be sent: [size |-> bytes, packed |-> bytes after compression, or 0]
    NumCmds,    \* bound: commands sent
    Encrypted,  \* a cipher other than ENCDEC_NONE is set
    nmsgmaxlen, \* size of the reader's command buffer
    Pieces      \* sizes of the pieces the stream comes in

\* A command is never empty (packetbuf refuses it).
ASSUME MsgConstants ==
    /\ Kinds \subseteq [size : Nat \ {0}, packed : Nat]
    /\ NumCmds \in Nat /\ Encrypted \in BOOLEAN /\ nmsgmaxlen \in Nat
    /\ Pieces \subseteq Nat

HdrSize == 6    \* sizeof(SIZE_TYPE) + sizeof(TYPE_TYPE) + sizeof(FLAG_TYPE)
CmdLenSize == 4 \* sizeof(_cmdlen), sent when compressed
Block == 8

VARIABLES
    Commands,   \* the commands sent: the sender's choice
    _de_size,   \* decrypted bytes at the front of the readable ones
    clear,      \* how often each byte of the stream was decrypted
    cmds,       \* commands handed out: their places in Commands
    last        \* result of the last call: "none", "more", "cmd", "error"

packVars == <<bufVars, Commands, _de_size, clear, cmds, last>>

-----------------------------------------------------------------------------
(* Packets: stPacketBase and packetbuf.                                     *)

iscompress(c) == c.packed > 0

\* The size field: the length of the data, compressed or not.
SizeField(c) == IF iscompress(c) THEN c.packed ELSE c.size

getpacketsize(c) == SizeField(c) + HdrSize + (IF iscompress(c) THEN CmdLenSize ELSE 0)

\* packetbuf: what is sent is rounded up to a multiple of the block.
packetbuf(c) == ROUNDNUM2(getpacketsize(c), Block)

\* Mutant: the next packet is expected where the data end.
PacketStep_exact(c) == getpacketsize(c)

\* Where the reader goes on after a packet.
PacketStep(c) == ROUNDNUM2(getpacketsize(c), Block)

\* The first byte of the k-th packet.
StartOf[k \in 1..NumCmds + 1] ==
    IF k = 1 THEN 1 ELSE StartOf[k - 1] + packetbuf(Commands[k - 1])

StreamLen == StartOf[NumCmds + 1] - 1

-----------------------------------------------------------------------------
(* The reader.                                                              *)

\* The readable bytes begin with this packet (0: in the middle of one).
FirstPacket ==
    IF b.m_nReadLeft = 0 THEN 0
    ELSE IF \E k \in 1..NumCmds : StartOf[k] = b.mem[b.m_ptrRead]
         THEN CHOOSE k \in 1..NumCmds : StartOf[k] = b.mem[b.m_ptrRead]
         ELSE 0

\* Mutant: a packet is decrypted from its first byte each time.
Decrypted_front(i, n) ==
    [p \in DOMAIN clear |->
        IF \E j \in 0..i + n - 1 : b.mem[b.m_ptrRead + j] = p THEN clear[p] + 1 ELSE clear[p]]

\* encdec of the n bytes from offset i of the readable ones, in place.
Decrypted(i, n) ==
    [p \in DOMAIN clear |->
        IF \E j \in i..i + n - 1 : b.mem[b.m_ptrRead + j] = p THEN clear[p] + 1 ELSE clear[p]]

\* What getmsg2buf decrypts when it finds size bytes it has not decrypted: the first block of a
\* packet, whose size says how many more blocks of what has come are its own.
HeadLen == IF _de_size = 0 THEN Block ELSE 0

BodyLen(c, size) ==
    (Least(size - HeadLen, PacketStep(c) - (_de_size + HeadLen)) \div Block) * Block

InitMsg ==
    /\ InitBuf /\ Commands \in [1..NumCmds -> Kinds]
    /\ _de_size = 0 /\ clear = [p \in 1..StreamLen |-> 0] /\ cmds = <<>> /\ last = "none"

\* The stream's next bytes come.
Receive(n) ==
    /\ put + n <= StreamLen
    /\ putData(n)
    /\ UNCHANGED <<Commands, _de_size, clear, cmds, last>>

\* Mutant: the padding is left in the buffer.
HandOut_unpadded(c, de) ==
    /\ _de_size' = de - PacketStep(c)
    /\ IF iscompress(c) /\ c.size > nmsgmaxlen
       THEN last' = "error" /\ UNCHANGED <<bufVars, cmds>>
       ELSE /\ last' = "cmd"
            /\ cmds' = Append(cmds, FirstPacket)
            /\ setReadPtr(getpacketsize(c))

\* Mutant: the packet's bytes stay in the count of decrypted ones.
HandOut_keep(c, de) ==
    /\ _de_size' = de
    /\ IF iscompress(c) /\ c.size > nmsgmaxlen
       THEN last' = "error" /\ UNCHANGED <<bufVars, cmds>>
       ELSE /\ last' = "cmd"
            /\ cmds' = Append(cmds, FirstPacket)
            /\ setReadPtr(PacketStep(c))

\* The rest of getmsg2buf for a packet that is complete in its de decrypted bytes.  A command the
\* caller's buffer does not hold is an error, found when it is decompressed.
HandOut(c, de) ==
    /\ _de_size' = de - PacketStep(c)
    /\ IF iscompress(c) /\ c.size > nmsgmaxlen
       THEN last' = "error" /\ UNCHANGED <<bufVars, cmds>>
       ELSE /\ last' = "cmd"
            /\ cmds' = Append(cmds, FirstPacket)
            /\ setReadPtr(PacketStep(c))

\* packet_getcmd.  The caller gives up after an error.
packet_getcmd ==
    /\ b.m_nReadLeft > 0 /\ last # "error" /\ UNCHANGED Commands
    /\ LET c == Commands[FirstPacket]
           size == b.m_nReadLeft - _de_size
           isfullpacket(de) == getpacketsize(c) <= de
           de == _de_size + HeadLen + BodyLen(c, size) IN
       IF _de_size >= Block /\ isfullpacket(_de_size)
       THEN HandOut(c, _de_size) /\ UNCHANGED clear
       ELSE IF size < Block
       THEN last' = "more" /\ UNCHANGED <<bufVars, _de_size, clear, cmds>>
       ELSE /\ clear' = IF Encrypted THEN Decrypted(_de_size, de - _de_size) ELSE clear
            /\ IF SizeField(c) > nmsgmaxlen
               THEN last' = "error" /\ _de_size' = de /\ UNCHANGED <<bufVars, cmds>>
               ELSE IF ~isfullpacket(de)
               THEN last' = "more" /\ _de_size' = de /\ UNCHANGED <<bufVars, cmds>>
               ELSE HandOut(c, de)

NextMsg == (\E n \in Pieces : Receive(n)) \/ packet_getcmd

\* The bytes keep coming and the reader keeps asking.
SpecMsg ==
    /\ InitMsg /\ [][NextMsg]_packVars
    /\ WF_packVars(\E n \in Pieces : Receive(n)) /\ WF_packVars(packet_getcmd)

-----------------------------------------------------------------------------
(* Properties.                                                              *)

\* However the stream is cut into pieces, the commands come out in order and complete, and what
\* can be read begins with the packet after them (packet_getcmd, getmsg2buf).
CommandsInOrder ==
    /\ cmds = [k \in 1..Len(cmds) |-> k]
    /\ taken + 1 = StartOf[Len(cmds) + 1]

\* Every byte of a packet is decrypted once: those before _de_size, and no other of the readable
\* ones, whatever was moved between two calls.
DecryptedOnce ==
    \A p \in 1..StreamLen :
        clear[p] = IF Encrypted /\ p <= taken + _de_size /\ last # "error" THEN 1
                   ELSE IF last = "error" THEN clear[p] ELSE 0

\* _de_size stays within the readable bytes and the first packet, in whole blocks.
DecryptedWithin == _de_size % Block = 0 /\ _de_size <= b.m_nReadLeft

\* Whether the reader's buffer holds a command.
Holds(c) == SizeField(c) <= nmsgmaxlen /\ c.size <= nmsgmaxlen

\* All the commands come out in the end, up to the first that does not fit, and none that fits is
\* refused (the results 0, > 0 and < 0 of getmsg2buf).
AllHandedOut ==
    <>[](IF last = "error" THEN ~Holds(Commands[Len(cmds) + 1]) ELSE Len(cmds) = NumCmds)

\* However the stream comes in pieces, its commands come out in order, every byte of them
\* decrypted once (packet_getcmd, getpackethdr, getmsg2buf).
PacketsInOrder == CommandsInOrder /\ DecryptedOnce /\ DecryptedWithin
=============================================================================
