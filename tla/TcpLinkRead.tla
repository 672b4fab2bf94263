----------------------------- MODULE TcpLinkRead -----------------------------
(***************************************************************************)
(* The read side of TcpLink: libuv hands the link the peer's bytes in      *)
(* chunks of any size, and TcpLink::OnRead cuts them into packets.  A      *)
(* gateway link (LAT_GATEWAY) first collects GW_AUTHORITY_SIZE bytes and   *)
(* looks for the authority string in them (Preprocess).                    *)
(*                                                                         *)
(* Bytes are identified by their position in the peer's stream.  A buffer  *)
(* of the code (pre_msg_, the part of the chunk not parsed yet, a message) *)
(* is the run [lo, hi) of positions it holds; appending bytes that do not  *)
(* continue the run gives Torn.  The header at a position is in `wire'.    *)
(*                                                                         *)
(* OnRead runs on the libuv thread only and shares nothing with another    *)
(* thread before rcv_msg_cb_, so its loop is split into one step per       *)
(* iteration; `pc' is the point it has reached.                            *)
(***************************************************************************)
EXTENDS Integers, Sequences

CONSTANTS
    WireLen,            \* bound: number of bytes the peer sends
    Wires,              \* the streams considered: position -> packet header
    Attrs,              \* link kinds considered: is it LAT_GATEWAY, and does its
                        \* prefix contain GW_AUTHORITY_PACKATE
    parse_need_size_,   \* bytes needed to read a packet's size (6)
    PACKET_MIN_SIZE,    \* 8
    PACKET_MAX_SIZE,    \* 10 MB
    GW_AUTHORITY_SIZE,  \* 256
    INT32_HALF          \* 2^31: int32_t ranges over -INT32_HALF..INT32_HALF-1

Int32 == -INT32_HALF..(INT32_HALF - 1)

\* What the size computation reads of a packet: its first four bytes as an
\* int32_t, and bit 7 of the flag byte at offset 5.
Header == [data_size : Int32, flag : BOOLEAN]

ASSUME ReadConstants ==
    /\ WireLen \in Nat
    /\ INT32_HALF \in Nat /\ INT32_HALF > 0
    /\ \A w \in Wires : w \in [0..WireLen -> Header]
    /\ Attrs \subseteq [gateway : BOOLEAN, authentic : BOOLEAN]
    /\ parse_need_size_ \in Nat /\ parse_need_size_ > 0
    /\ PACKET_MIN_SIZE \in Nat /\ PACKET_MAX_SIZE \in Nat
    /\ parse_need_size_ <= PACKET_MIN_SIZE
    /\ GW_AUTHORITY_SIZE \in Nat

VARIABLES
    wire,        \* the peer's stream (never changes)
    attr,        \* link_attr_, and whether the gateway prefix is authentic
    arrived,     \* bytes libuv has handed to this link
    gw_attr,     \* GWConnecter: write_ and is_auth_
    pre_msg_,    \* an incomplete packet kept for the next read
    data,        \* the part of the current chunk not consumed yet
    read_queue_, \* the packets completed by the current OnRead
    recv,        \* the messages passed to rcv_msg_cb_ so far
    pc           \* "idle", inside OnRead, or "stopped"

vars == <<wire, attr, arrived, gw_attr, pre_msg_, data, read_queue_, recv, pc>>

-----------------------------------------------------------------------------
(* Runs of stream positions: the code's buffers.                            *)

Run(lo, hi) == [lo |-> lo, hi |-> hi]
NoBytes == Run(0, 0)
Torn == Run(1, 0)
Size(b) == b.hi - b.lo

\* pre_msg_.append(data, n)
AppendBytes(b, d, n) ==
    CASE Size(b) = 0                -> Run(d.lo, d.lo + n)
      [] Size(b) # 0 /\ b.hi = d.lo -> Run(b.lo, b.hi + n)
      [] OTHER                      -> Torn

\* Mutant: nread is reduced but data is not advanced.
Skip_inPlace(d, n) == Run(d.lo, d.hi - n)

\* data += n; nread -= n
Skip(d, n) == Run(d.lo + n, d.hi)

-----------------------------------------------------------------------------
(* The size of a packet.                                                    *)

\* int32_t arithmetic: the sum wraps around.
ToInt32(v) == ((v + INT32_HALF) % (2 * INT32_HALF)) - INT32_HALF

\* (DLEN + 7) & ~7
ROUNDNUM8(v) == ToInt32(8 * (ToInt32(v + 7) \div 8))

SizeOf(h) ==
    ROUNDNUM8(ToInt32(h.data_size + parse_need_size_ + (IF h.flag THEN 4 ELSE 0)))

\* GetOnePacketSize of a buffer whose first byte is at stream position p.
GetOnePacketSize(p) == SizeOf(wire[p])

\* Mutant: only the upper limit is checked.
PacketSizeCheck_noMin(sz) == sz <= PACKET_MAX_SIZE

PacketSizeCheck(sz) == PACKET_MIN_SIZE <= sz /\ sz <= PACKET_MAX_SIZE

\* Mutant: a chunk that ends exactly with the packet is taken for too short.
Covers_strict(d, need) == Size(d) > need

\* The chunk holds all of a packet of this size.
Covers(d, need) == Size(d) >= need

-----------------------------------------------------------------------------

\* Attributes of a link that is not a gateway's are irrelevant but fixed.
Init ==
    /\ wire \in Wires
    /\ attr \in Attrs
    /\ arrived = 0
    /\ gw_attr = [write_ |-> 0, is_auth_ |-> FALSE]
    /\ pre_msg_ = NoBytes
    /\ data = NoBytes
    /\ read_queue_ = <<>>
    /\ recv = <<>>
    /\ pc = "idle"

\* OnRead returns 0 before reaching rcv_msg_cb_.
Return ==
    /\ pc' = "idle"
    /\ data' = NoBytes
    /\ UNCHANGED <<read_queue_, recv>>

\* Mutant: a negative result of OnRead is ignored and the link keeps reading.
Fail_ignored ==
    /\ pc' = "idle"
    /\ data' = NoBytes
    /\ read_queue_' = <<>>
    /\ UNCHANGED recv

\* OnRead returns a negative value: TcpManager::OnRead calls OnError, which stops
\* the link.  The packets in read_queue_ go nowhere.
Fail ==
    /\ pc' = "stopped"
    /\ data' = NoBytes
    /\ read_queue_' = <<>>
    /\ UNCHANGED recv

\* tcp_read_cb with nread >= 0, up to the gateway test of OnRead.
tcp_read_cb(n) ==
    /\ pc = "idle"
    /\ arrived + n <= WireLen
    /\ arrived' = arrived + n
    /\ data' = Run(arrived, arrived + n)
    /\ pc' = IF attr.gateway /\ ~gw_attr.is_auth_ THEN "preprocess" ELSE "left"
    /\ UNCHANGED <<wire, attr, gw_attr, pre_msg_, read_queue_, recv>>

\* tcp_read_cb with nread < 0 (end of stream, socket error), or the link is stopped
\* by another callback of the libuv thread between two reads.
read_error ==
    /\ pc = "idle"
    /\ Fail
    /\ UNCHANGED <<wire, attr, arrived, gw_attr, pre_msg_>>

\* Fewer bytes than the authority packet still needs.
PreprocessPart ==
    /\ pc = "preprocess"
    /\ Size(data) < GW_AUTHORITY_SIZE - gw_attr.write_
    /\ gw_attr' = [gw_attr EXCEPT !.write_ = @ + Size(data)]
    /\ Return
    /\ UNCHANGED <<wire, attr, arrived, pre_msg_>>

\* The authority packet is complete: is_auth_ is set before the string is looked for.
PreprocessAll ==
    LET need == GW_AUTHORITY_SIZE - gw_attr.write_ IN
    /\ pc = "preprocess"
    /\ Size(data) >= need
    /\ gw_attr' = [write_ |-> GW_AUTHORITY_SIZE, is_auth_ |-> TRUE]
    /\ \/ /\ ~attr.authentic
          /\ Fail
       \/ /\ attr.authentic
          /\ Size(data) = need
          /\ Return
       \/ /\ attr.authentic
          /\ Size(data) > need
          /\ data' = Skip(data, need)
          /\ pc' = "left"
          /\ UNCHANGED <<read_queue_, recv>>
    /\ UNCHANGED <<wire, attr, arrived, pre_msg_>>

Preprocess == PreprocessPart \/ PreprocessAll

\* Finish the packet left over in pre_msg_ by the previous reads, if any.
OnReadLeft ==
    LET left_size == Size(pre_msg_)
        fill   == IF left_size < parse_need_size_ THEN parse_need_size_ - left_size ELSE 0
        headed == AppendBytes(pre_msg_, data, fill)
        rest   == Skip(data, fill)
        need   == GetOnePacketSize(headed.lo)
        append == need - Size(headed)
    IN
    /\ pc = "left"
    /\ \/ /\ left_size = 0
          /\ pc' = "parse"
          /\ UNCHANGED <<pre_msg_, data, read_queue_, recv>>
       \/ /\ left_size > 0
          /\ left_size + Size(data) < parse_need_size_
          /\ pre_msg_' = AppendBytes(pre_msg_, data, Size(data))
          /\ Return
       \/ /\ left_size > 0
          /\ left_size + Size(data) >= parse_need_size_
          /\ \/ /\ ~PacketSizeCheck(need)
                /\ pre_msg_' = headed
                /\ Fail
             \/ /\ PacketSizeCheck(need)
                /\ append > Size(rest)
                /\ pre_msg_' = AppendBytes(headed, rest, Size(rest))
                /\ Return
             \/ /\ PacketSizeCheck(need)
                /\ append <= Size(rest)
                /\ read_queue_' = Append(read_queue_, AppendBytes(headed, rest, append))
                /\ pre_msg_' = NoBytes
                /\ data' = Skip(rest, append)
                /\ pc' = "parse"
                /\ UNCHANGED recv
    /\ UNCHANGED <<wire, attr, arrived, gw_attr>>

\* Mutant: the loop goes on after the rest of the chunk is kept.
KeepRest_noBreak ==
    /\ pre_msg_' = AppendBytes(pre_msg_, data, Size(data))
    /\ UNCHANGED <<data, read_queue_, recv, pc>>

\* The rest of the chunk is no whole packet: it is kept for the next read, and the loop ends.
KeepRest ==
    /\ pre_msg_' = AppendBytes(pre_msg_, data, Size(data))
    /\ data' = NoBytes
    /\ pc' = "deliver"
    /\ UNCHANGED <<read_queue_, recv>>

\* One iteration of the loop over the chunk.
OnReadLoop ==
    LET need == GetOnePacketSize(data.lo) IN
    /\ pc = "parse"
    /\ \/ /\ Size(data) < parse_need_size_ \/ (PacketSizeCheck(need) /\ ~Covers(data, need))
          /\ KeepRest
       \/ /\ Size(data) >= parse_need_size_
          /\ ~PacketSizeCheck(need)
          /\ Fail
          /\ UNCHANGED pre_msg_
       \/ /\ Size(data) >= parse_need_size_
          /\ PacketSizeCheck(need)
          /\ Covers(data, need)
          /\ read_queue_' = Append(read_queue_, Run(data.lo, data.lo + need))
          /\ data' = Skip(data, need)
          /\ UNCHANGED <<pre_msg_, recv, pc>>
    /\ UNCHANGED <<wire, attr, arrived, gw_attr>>

\* Mutant: the local queue survives the callback and is delivered again.
rcv_msg_cb_keep ==
    /\ pc = "deliver"
    /\ recv' = recv \o read_queue_
    /\ pc' = "idle"
    /\ UNCHANGED <<wire, attr, arrived, gw_attr, pre_msg_, data, read_queue_>>

\* rcv_msg_cb_(read_queue_), the end of OnRead.
rcv_msg_cb_ ==
    /\ pc = "deliver"
    /\ recv' = recv \o read_queue_
    /\ read_queue_' = <<>>
    /\ pc' = "idle"
    /\ UNCHANGED <<wire, attr, arrived, gw_attr, pre_msg_, data>>

\* The rest of a running OnRead.
OnRead == Preprocess \/ OnReadLeft \/ OnReadLoop \/ rcv_msg_cb_

Next == (\E n \in 0..WireLen : tcp_read_cb(n)) \/ read_error \/ OnRead

Spec == Init /\ [][Next]_vars

\* The libuv thread does not stop inside a callback.
FairSpec == Spec /\ WF_vars(OnRead)

-----------------------------------------------------------------------------
(* Properties.                                                              *)

RunOK(b) == b \in [lo : 0..WireLen, hi : 0..WireLen] /\ b.lo <= b.hi

\* Every buffer is a run of bytes that have arrived: no buffer is torn, none reaches
\* past the received bytes (the memcpy and append calls stay in bounds).
TypeOK ==
    /\ wire \in [0..WireLen -> Header]
    /\ attr \in [gateway : BOOLEAN, authentic : BOOLEAN]
    /\ arrived \in 0..WireLen
    /\ gw_attr \in [write_ : 0..GW_AUTHORITY_SIZE, is_auth_ : BOOLEAN]
    /\ RunOK(pre_msg_) /\ pre_msg_.hi <= arrived
    /\ RunOK(data) /\ data.hi <= arrived
    /\ read_queue_ \in Seq([lo : 0..WireLen, hi : 0..WireLen])
    /\ recv \in Seq([lo : 0..WireLen, hi : 0..WireLen])
    /\ pc \in {"idle", "preprocess", "left", "parse", "deliver", "stopped"}

\* Where the packets of the stream begin.
First == IF attr.gateway THEN GW_AUTHORITY_SIZE ELSE 0

\* m is one whole packet of admissible size of the stream w.
Whole(w, m) ==
    /\ PacketSizeCheck(SizeOf(w[m.lo]))
    /\ m.hi = m.lo + SizeOf(w[m.lo])

\* The sequence q is made of consecutive whole packets of w, the first one at p.
Framed(w, q, p) ==
    \A i \in 1..Len(q) :
        /\ Whole(w, q[i])
        /\ q[i].lo = IF i = 1 THEN p ELSE q[i - 1].hi

\* The stream position after the packets of q, which begin at p.
EndOf(q, p) == IF Len(q) = 0 THEN p ELSE q[Len(q)].hi

\* What has been parsed so far ends here.
ParsedTo == EndOf(read_queue_, EndOf(recv, First))

\* The link is past its gateway prefix.
Open == attr.gateway => gw_attr.is_auth_

\* A packet begins at the first byte of b and b does not hold all of it.
Partial(b) ==
    \/ Size(b) < parse_need_size_
    \/ /\ PacketSizeCheck(GetOnePacketSize(b.lo))
       /\ Size(b) < GetOnePacketSize(b.lo)

\* b continues the stream at position p (or is empty).
Follows(b, p) == Size(b) > 0 => b.lo = p

\* However the stream is cut into chunks, at every point of OnRead the packets handed
\* over, then those completed by this call, then pre_msg_, then the unparsed bytes are
\* exactly the bytes received after the gateway prefix, each once and in order.
StreamConserved ==
    /\ Framed(wire, recv, First)
    /\ Framed(wire, read_queue_, EndOf(recv, First))
    /\ (pc # "stopped" /\ Open) =>
          /\ Follows(pre_msg_, ParsedTo)
          /\ Follows(data, ParsedTo + Size(pre_msg_))
          /\ ParsedTo + Size(pre_msg_) + Size(data) = arrived

\* Between two reads nothing complete is held back: pre_msg_ is the proper beginning of
\* one packet, so every packet received in full has been handed over.
NothingHeldBack ==
    pc = "idle" => Partial(pre_msg_)

\* What else holds at each point of OnRead, for the proofs.
AtPoint ==
    /\ pc \in {"idle", "preprocess", "left", "stopped"} => read_queue_ = <<>>
    /\ pc \in {"idle", "deliver", "stopped"} => Size(data) = 0
    /\ pc \in {"idle", "preprocess", "left", "deliver"} => Partial(pre_msg_)
    /\ pc = "parse" => Size(pre_msg_) = 0
    /\ pc \in {"preprocess", "left", "parse"} => data.hi = arrived
    /\ pc = "preprocess" => ~Open
    /\ pc \in {"left", "parse", "deliver"} => Open
    /\ ~Open => /\ recv = <<>> /\ read_queue_ = <<>>
                /\ Size(pre_msg_) = 0
                /\ pc # "stopped" => gw_attr.write_ + Size(data) = arrived
    /\ (attr.gateway /\ ~attr.authentic) =>
          /\ recv = <<>> /\ read_queue_ = <<>>
          /\ gw_attr.is_auth_ => pc = "stopped"

\* The inductive invariant of the read side.
ReadInv == TypeOK /\ StreamConserved /\ AtPoint

\* A gateway link whose first GW_AUTHORITY_SIZE bytes lack the authority string never
\* hands a message over, although OnRead marks it authenticated before it looks.
GatewayGate ==
    (attr.gateway /\ ~attr.authentic) => recv = <<>>

\* The admissible packet sizes of the stream, as the abstract specification sees them.
SizeAt == [p \in 0..WireLen |-> IF PacketSizeCheck(GetOnePacketSize(p))
                                THEN GetOnePacketSize(p) ELSE 0]

Stream == INSTANCE PacketStream
            WITH size <- SizeAt, first <- First, stopped <- (pc = "stopped")

\* TcpLinkRead implements PacketStream: for every chunking, what reaches rcv_msg_cb_ is the
\* stream's packets in order, and nothing after the link has stopped.
ImplementsStream == Stream!Spec

\* Every call of OnRead returns (its loop consumes the chunk) or stops the link.
ReadReturns == (pc # "idle") ~> (pc \in {"idle", "stopped"})

\* A bound on the steps a call of OnRead still makes: its parts run in this order, and every
\* packet the loop cuts off shortens the chunk.
StepsLeft ==
    Size(data) + CASE pc = "preprocess" -> 4
                   [] pc = "left"       -> 3
                   [] pc = "parse"      -> 2
                   [] pc = "deliver"    -> 1
                   [] OTHER             -> 0

\* No step of OnRead is repeated on the same bytes: whatever sizes the headers claim, zero and
\* overflowed ones included, the loop cannot turn for ever (OnRead).
OnReadAdvances == [][OnRead => StepsLeft' \in Nat /\ StepsLeft' < StepsLeft]_vars

\* Between two reads the application has been handed every packet that has arrived in full, and
\* none at all of a gateway link without the authority string (OnRead, Preprocess).
HandsOverRightly == NothingHeldBack /\ GatewayGate
=============================================================================
