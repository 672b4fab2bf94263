------------------------------ MODULE MsgTrans ------------------------------
(* A command's way into a packet and out again: packetbuf makes one packet of *)
(* a command for encodeMessage and data_encode_to_cache, and decodeMessage    *)
(* makes a queue message of each packet the link has cut.  A command is its   *)
(* size and what deflate makes of it; sizes are bytes.  No caller gives a     *)
(* cipher (MsgPack has them).                                                 *)
EXTENDS Integers, Sequences

CONSTANTS
    Sizes,          \* sizes of the commands
    MaxSend,        \* _MAX_SEND_PACKET_SIZE_
    MaxMsgs         \* bound: commands accepted

ASSUME MsgTransConstants ==
    Sizes \subseteq Nat /\ MaxSend \in Nat /\ MaxSend + 1 < 1024 * 1024 * 10

VARIABLES
    cache_,         \* packets waiting for SendCache
    sent,           \* packets given to the link, oldest first
    results,        \* what decodeMessage returned for the first of them: a size, or 0
    cmd_queue_,     \* messages handed to the logic and not yet parsed
    live            \* queue message buffers allocated

msgVars == <<cache_, sent, results, cmd_queue_, live>>

HdrSize == 6        \* sizeof(SIZE_TYPE) + sizeof(TYPE_TYPE) + sizeof(FLAG_TYPE)
CmdLenSize == 4     \* sizeof(_cmdlen)
MINZLIBPACKSIZE == 64 - (HdrSize + CmdLenSize)
_MIN_PACKETBUF_SIZE_ == 8

RoundUp(n, m) == ((n + m - 1) \div m) * m

-----------------------------------------------------------------------------
(* A packet's header.                                                         *)

iscompress(p) == p.packed > 0
SizeField(p) == IF iscompress(p) THEN p.packed ELSE p.size
getcmdsize(p) == p.size
getpacketsize(p) == SizeField(p) + HdrSize + (IF iscompress(p) THEN CmdLenSize ELSE 0)
Wire(p) == RoundUp(getpacketsize(p), 8)

\* What deflate can make of n bytes: little, as much, or five bytes more for every 16 Kbyte block.
Deflated(n) == {20, n, n + 6 + 5 * (n \div 16383 + 1)}

-----------------------------------------------------------------------------
(* Sending.                                                                   *)

\* The sizes of the thread's buffer, one for both callers.
nmaxsize == MaxSend + 1

\* packetbuf: the packet it makes of a command, if any.
packetbuf(size, zliblevel) ==
    LET zips == (zliblevel >= 1 \/ zliblevel = -1) /\ size > MINZLIBPACKSIZE
    IN {p \in [size : {size}, packed : IF zips THEN Deflated(size) ELSE {0}] :
            /\ size > 0 /\ size + _MIN_PACKETBUF_SIZE_ <= nmaxsize
            /\ p.packed <= nmaxsize /\ Wire(p) <= nmaxsize}

Room == Len(sent) + Len(cache_) < MaxMsgs

encodeMessage(size, zliblevel) ==
    /\ Room /\ size <= nmaxsize
    /\ \E p \in packetbuf(size, zliblevel) : sent' = Append(sent, p)
    /\ UNCHANGED <<cache_, results, cmd_queue_, live>>

data_encode_to_cache(size, zliblevel) ==
    /\ Room /\ size <= nmaxsize
    /\ \E p \in packetbuf(size, zliblevel) : cache_' = Append(cache_, p)
    /\ UNCHANGED <<sent, results, cmd_queue_, live>>

SendCache ==
    /\ cache_ # <<>> /\ sent' = sent \o cache_ /\ cache_' = <<>>
    /\ UNCHANGED <<results, cmd_queue_, live>>

-----------------------------------------------------------------------------
(* Receiving.                                                                 *)

\* The sizes getpackethdr lets through.
SizeAllowed(p) == SizeField(p) >= 2 /\ SizeField(p) < 1024 * 1024 * 10

\* A fault: the buffer is sized by what came over the wire.
tmpMsgBufferSize_wire(p) == RoundUp(SizeField(p) + 64, 64)

tmpMsgBufferSize(p) == RoundUp(getcmdsize(p) + 64, 64)

\* getmsg2buf of a whole packet that is decrypted up to its eighth byte: what came is compared with
\* the buffer unless the packet ends there, and what inflate makes of it always.
getmsg2buf(p, nmsgmaxlen) ==
    CASE getpacketsize(p) > 8 /\ SizeField(p) > nmsgmaxlen -> -2
      [] iscompress(p) /\ getcmdsize(p) > nmsgmaxlen -> -3
      [] OTHER -> getcmdsize(p)

\* The buffer of a message that cannot be read is given back.
decodeMessage ==
    /\ Len(results) < Len(sent)
    /\ LET p == sent[Len(results) + 1]
           ncmdlen == IF SizeAllowed(p) THEN getmsg2buf(p, tmpMsgBufferSize(p)) ELSE 0
       IN IF ncmdlen > 0
          THEN /\ results' = Append(results, ncmdlen)
               /\ cmd_queue_' = Append(cmd_queue_, [cmdsize |-> ncmdlen, room |-> tmpMsgBufferSize(p)])
               /\ live' = live + 1
          ELSE results' = Append(results, 0) /\ UNCHANGED <<cmd_queue_, live>>
    /\ UNCHANGED <<cache_, sent>>

\* The logic parses a message and frees its buffer.
ParseEvent ==
    /\ cmd_queue_ # <<>> /\ cmd_queue_' = Tail(cmd_queue_) /\ live' = live - 1
    /\ UNCHANGED <<cache_, sent, results>>

InitMsgs == cache_ = <<>> /\ sent = <<>> /\ results = <<>> /\ cmd_queue_ = <<>> /\ live = 0

NextMsgs ==
    \/ \E size \in Sizes, lvl \in {-1, 0, 9} : encodeMessage(size, lvl) \/ data_encode_to_cache(size, lvl)
    \/ SendCache \/ decodeMessage \/ ParseEvent

SpecMsgs == InitMsgs /\ [][NextMsgs]_msgVars

-----------------------------------------------------------------------------
(* Properties.                                                                *)

\* decodeMessage gives back what encodeMessage and data_encode_to_cache accepted, in the order the
\* packets were sent, and nothing of any other size: the buffer it takes from the header, before
\* anything is decompressed, holds the packet and the command as long as deflate has not made more
\* than 64 bytes more of it.  (Past that it refuses what the sender accepted.)
RoundTrip ==
    \A i \in DOMAIN results :
        /\ results[i] \in {0, sent[i].size}
        /\ sent[i].size >= 2 /\ sent[i].packed <= sent[i].size + 64 => results[i] = sent[i].size

\* Messages handed to the logic fit their buffers, and the buffers of those it has parsed, and of
\* those that could not be read, are free.
BuffersKept ==
    /\ live = Len(cmd_queue_)
    /\ \A i \in DOMAIN cmd_queue_ : cmd_queue_[i].cmdsize <= cmd_queue_[i].room

\* A link can cut every packet that is made: its size is in whole blocks and between the limits of
\* TcpLink::PacketSizeCheck.
PacketsCut == \A i \in DOMAIN sent : Wire(sent[i]) % 8 = 0 /\ Wire(sent[i]) \in 8..(10 * 1024 * 1024)

MessagesComeBack == RoundTrip /\ BuffersKept /\ PacketsCut
=============================================================================
