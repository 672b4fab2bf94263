-------------------------- MODULE TcpLinkReadProofs --------------------------
(* Proofs about TcpLinkRead, for every stream, chunking and size limit.       *)
EXTENDS TcpLinkRead, TLAPS

RunSet == [lo : 0..WireLen, hi : 0..WireLen]

\* The size computation yields an integer whatever the header holds.
LEMMA SizeIsInt == \A h \in Header : SizeOf(h) \in Int
<1>1. \A v \in Int : ToInt32(v) \in Int
  BY ReadConstants DEF ToInt32
<1>2. \A v \in Int : ROUNDNUM8(v) \in Int
  BY <1>1 DEF ROUNDNUM8
<1>3. TAKE h \in Header
<1>4. h.data_size \in Int
  BY ReadConstants DEF Header, Int32
<1>5. h.data_size + parse_need_size_ + (IF h.flag THEN 4 ELSE 0) \in Int
  BY <1>4, ReadConstants
<1> QED
  BY <1>1, <1>2, <1>5 DEF SizeOf

\* Adding the next whole packet to a framed sequence keeps it framed.
LEMMA FramedAppend ==
  ASSUME NEW w, NEW q \in Seq(RunSet), NEW p, NEW m \in RunSet,
         Framed(w, q, p), Whole(w, m), m.lo = EndOf(q, p)
  PROVE  /\ Append(q, m) \in Seq(RunSet)
         /\ Framed(w, Append(q, m), p)
         /\ EndOf(Append(q, m), p) = m.hi
  BY DEF Framed, EndOf, Whole

\* Delivering a framed queue after a framed history keeps the history framed.
LEMMA FramedConcat ==
  ASSUME NEW w, NEW a \in Seq(RunSet), NEW b \in Seq(RunSet), NEW p,
         Framed(w, a, p), Framed(w, b, EndOf(a, p))
  PROVE  /\ a \o b \in Seq(RunSet)
         /\ Framed(w, a \o b, p)
         /\ EndOf(a \o b, p) = EndOf(b, EndOf(a, p))
  BY SMTT(30) DEF Framed, EndOf, Whole

\* The facts about the state used by every step of the invariance proof.
LEMMA ReadFacts ==
  ASSUME TypeOK
  PROVE  /\ First \in Nat
         /\ \A p \in 0..WireLen : GetOnePacketSize(p) \in Int
         /\ pre_msg_ \in RunSet /\ data \in RunSet
         /\ read_queue_ \in Seq(RunSet) /\ recv \in Seq(RunSet)
  BY SizeIsInt, ReadConstants DEF TypeOK, RunOK, First, GetOnePacketSize, RunSet

\* The parsed part of the stream ends at a position of the stream.
LEMMA ParsedIsNat ==
  ASSUME TypeOK
  PROVE  EndOf(recv, First) \in Nat /\ ParsedTo \in Nat
<1>1. ASSUME NEW q \in Seq(RunSet), NEW p \in Nat
      PROVE  EndOf(q, p) \in Nat
  <2>1. Len(q) # 0 => q[Len(q)] \in RunSet
    OBVIOUS
  <2> QED
    BY <2>1, ReadConstants DEF EndOf, RunSet
<1> QED
  BY <1>1, ReadFacts DEF ParsedTo

\* A link begins with nothing parsed and nothing kept.
LEMMA ReadInit == Init => ReadInv
<1> SUFFICES ASSUME Init PROVE ReadInv
  OBVIOUS
<1>1. TypeOK
  BY ReadConstants DEF Init, TypeOK, RunOK, NoBytes, Run
<1>2. recv = <<>> /\ read_queue_ = <<>> /\ pc = "idle" /\ Size(pre_msg_) = 0 /\ Size(data) = 0
  BY DEF Init, NoBytes, Run, Size
<1>3. StreamConserved
  BY <1>2, ReadConstants DEF StreamConserved, Framed, EndOf, Follows, ParsedTo, Open, First, Init
<1>4. AtPoint
  BY <1>2, ReadConstants DEF AtPoint, Partial, Open, Init
<1> QED
  BY <1>1, <1>3, <1>4 DEF ReadInv

\* A chunk arrives: it continues the bytes received before it.
LEMMA ReadChunk ==
  ASSUME ReadInv, NEW n \in 0..WireLen, tcp_read_cb(n)
  PROVE  ReadInv'
<1> USE ReadConstants DEF ReadInv
<1>1. TypeOK'
  BY DEF TypeOK, RunOK, tcp_read_cb, Run
<1>2. StreamConserved'
  <2>1. UNCHANGED <<wire, First, recv, read_queue_, Open, pre_msg_>> /\ ParsedTo' = ParsedTo
    BY DEF tcp_read_cb, First, Open, ParsedTo, EndOf
  <2>2. Framed(wire, recv, First)' /\ Framed(wire, read_queue_, EndOf(recv, First))'
    BY <2>1 DEF StreamConserved, Framed, Whole, EndOf
  <2>3. Open' => /\ Follows(pre_msg_, ParsedTo)
                 /\ ParsedTo + Size(pre_msg_) = arrived
                 /\ data' = Run(arrived, arrived + n) /\ arrived' = arrived + n
    BY <2>1, ParsedIsNat DEF StreamConserved, tcp_read_cb, AtPoint, TypeOK, RunOK, Size
  <2>4. Open' => /\ Follows(pre_msg_, ParsedTo)'
                 /\ Follows(data, ParsedTo + Size(pre_msg_))'
                 /\ (ParsedTo + Size(pre_msg_) + Size(data) = arrived)'
    BY <2>1, <2>3, ParsedIsNat DEF Follows, Size, Run, TypeOK, RunOK
  <2> QED
    BY <2>2, <2>4 DEF StreamConserved
<1>3. AtPoint'
  BY DEF AtPoint, tcp_read_cb, Partial, Open, Size, Run, GetOnePacketSize, TypeOK, RunOK
<1> QED
  BY <1>1, <1>2, <1>3

\* The state after a call that keeps every byte and delivers nothing.
LEMMA KeepsStream ==
  ASSUME TypeOK, StreamConserved,
         UNCHANGED <<wire, attr, recv, read_queue_>>
  PROVE  /\ Framed(wire, recv, First)'
         /\ Framed(wire, read_queue_, EndOf(recv, First))'
         /\ First' = First /\ ParsedTo' = ParsedTo
  BY DEF StreamConserved, Framed, Whole, EndOf, First, ParsedTo

\* The link stops: what was delivered stays framed, the current call's packets are dropped.
LEMMA ReadFail ==
  ASSUME ReadInv, Fail, UNCHANGED <<wire, attr, arrived>>, RunOK(pre_msg_)', pre_msg_'.hi <= arrived,
         gw_attr' \in [write_ : 0..GW_AUTHORITY_SIZE, is_auth_ : BOOLEAN],
         ~Open' => UNCHANGED <<pre_msg_, Open>>
  PROVE  ReadInv'
<1> USE ReadConstants DEF ReadInv
<1>1. TypeOK'
  BY DEF TypeOK, Fail, RunOK, NoBytes, Run
<1>2. StreamConserved'
  BY DEF StreamConserved, Fail, Framed, Whole, EndOf, First
<1>3. AtPoint'
  BY DEF AtPoint, Fail, NoBytes, Run, Size
<1> QED
  BY <1>1, <1>2, <1>3

\* The gateway prefix: nothing is parsed before it is complete and authentic.
LEMMA ReadPreprocess ==
  ASSUME ReadInv, Preprocess
  PROVE  ReadInv'
<1> USE ReadConstants DEF ReadInv
<1>0. /\ ~Open /\ recv = <<>> /\ read_queue_ = <<>> /\ Size(pre_msg_) = 0
      /\ gw_attr.write_ + Size(data) = arrived /\ data.hi = arrived
      /\ gw_attr.write_ \in 0..GW_AUTHORITY_SIZE /\ attr.gateway
      /\ Partial(pre_msg_)
  BY DEF Preprocess, PreprocessPart, PreprocessAll, AtPoint, Open, TypeOK
<1>1. CASE PreprocessPart
  <2>1. TypeOK'
    <3>1. Size(data) \in Nat /\ Size(data) < GW_AUTHORITY_SIZE - gw_attr.write_
      BY <1>1, SMTT(30) DEF PreprocessPart, Size, TypeOK, RunOK
    <3>2. gw_attr' \in [write_ : 0..GW_AUTHORITY_SIZE, is_auth_ : BOOLEAN]
      BY <1>0, <1>1, <3>1, SMTT(30) DEF PreprocessPart, TypeOK
    <3>3. RunOK(data)' /\ data'.hi <= arrived
      BY <1>1 DEF PreprocessPart, Return, RunOK, NoBytes, Run, TypeOK
    <3> QED
      BY <1>1, <3>2, <3>3 DEF PreprocessPart, Return, TypeOK, RunOK
  <2>2. ~Open'
    BY <1>0, <1>1 DEF PreprocessPart, Open, TypeOK
  <2>3. StreamConserved'
    BY <1>1, <2>2, KeepsStream DEF PreprocessPart, Return, StreamConserved
  <2>4. Partial(pre_msg_)'
    BY <1>0, <1>1 DEF PreprocessPart, Partial, Size
  <2>5. AtPoint'
    BY <1>0, <1>1, <2>2, <2>4 DEF PreprocessPart, Return, AtPoint, NoBytes, Run, Size, TypeOK, RunOK
  <2> QED
    BY <2>1, <2>3, <2>5
<1>2. CASE PreprocessAll
  <2>1. gw_attr' = [write_ |-> GW_AUTHORITY_SIZE, is_auth_ |-> TRUE] /\ Open'
    BY <1>2 DEF PreprocessAll, Open
  <2>2. CASE Fail
    BY <1>2, <2>1, <2>2, ReadFail DEF PreprocessAll, TypeOK, RunOK
  <2>3. CASE attr.authentic /\ ~Fail
    <3>0. /\ UNCHANGED <<wire, attr, arrived, pre_msg_, read_queue_, recv>>
          /\ \/ pc' = "idle" /\ data' = NoBytes /\ Size(data) = GW_AUTHORITY_SIZE - gw_attr.write_
             \/ /\ pc' = "left" /\ data' = Skip(data, GW_AUTHORITY_SIZE - gw_attr.write_)
                /\ Size(data) > GW_AUTHORITY_SIZE - gw_attr.write_
      BY <1>2, <2>3 DEF PreprocessAll, Return
    <3>1. TypeOK'
      <4> DEFINE InBounds == RunOK(data)' /\ data'.hi <= arrived
      <4>1. data.lo \in Nat /\ data.hi \in Nat /\ data.lo <= data.hi /\ data.hi <= WireLen
        BY DEF TypeOK, RunOK
      <4>2. data' = NoBytes => InBounds
        BY <4>1 DEF RunOK, NoBytes, Run, TypeOK
      <4>3. /\ data' = Run(data.lo + (GW_AUTHORITY_SIZE - gw_attr.write_), data.hi)
            /\ data.hi - data.lo > GW_AUTHORITY_SIZE - gw_attr.write_
            => InBounds
        BY <1>0, <4>1 DEF RunOK, Run, TypeOK
      <4>4. gw_attr' \in [write_ : 0..GW_AUTHORITY_SIZE, is_auth_ : BOOLEAN]
        BY <2>1
      <4>5. InBounds
        BY <3>0, <4>2, <4>3 DEF Skip, Size
      <4> QED
        BY <3>0, <4>4, <4>5 DEF TypeOK, RunOK
    <3>2. ParsedTo' = GW_AUTHORITY_SIZE
      BY <1>0, <3>0 DEF ParsedTo, EndOf, First
    <3>3. StreamConserved'
      <4>1. Size(pre_msg_)' = 0
        BY <1>0, <3>0 DEF Size
      <4>2. /\ data.lo \in Nat /\ data.hi \in Nat
            /\ data.lo = gw_attr.write_ /\ data.hi = arrived
        BY <1>0 DEF TypeOK, RunOK, Size
      <4>3. Follows(data, ParsedTo + Size(pre_msg_))' /\ (ParsedTo + Size(pre_msg_) + Size(data) = arrived)'
        BY <1>0, <3>0, <3>2, <4>1, <4>2 DEF Follows, Size, NoBytes, Run, Skip
      <4> QED
        BY <3>0, <4>1, <4>3, KeepsStream DEF StreamConserved, Follows
    <3>4. AtPoint'
      BY <1>0, <3>0, <2>1, <2>3 DEF AtPoint, Partial, GetOnePacketSize, Size, NoBytes, Run, Skip, Open
    <3> QED
      BY <3>1, <3>3, <3>4
  <2> QED
    BY <1>2, <2>2, <2>3 DEF PreprocessAll
<1> QED
  BY <1>1, <1>2 DEF Preprocess

\* Appending the next n bytes of the chunk to a kept run.
LEMMA AppendContinues ==
  ASSUME NEW b \in [lo : Nat, hi : Nat], NEW d \in [lo : Nat, hi : Nat], NEW n \in Nat,
         b.lo < b.hi, d.lo = b.hi
  PROVE  AppendBytes(b, d, n) = Run(b.lo, b.hi + n)
  BY DEF AppendBytes, Size

\* A call that keeps all its bytes in pre_msg_ and returns, or goes on to deliver.
LEMMA ReadKeep ==
  ASSUME ReadInv, pc # "stopped", Open, UNCHANGED <<wire, attr, arrived, gw_attr, read_queue_, recv>>,
         data' = NoBytes,
         \/ pc' = "idle" /\ read_queue_ = <<>>
         \/ pc' = "deliver",
         NEW e \in Nat, e = ParsedTo, e <= arrived,
         arrived > e => pre_msg_' = Run(e, arrived),
         arrived = e => RunOK(pre_msg_)' /\ Size(pre_msg_)' = 0 /\ pre_msg_'.hi <= arrived,
         Partial(pre_msg_)'
  PROVE  ReadInv'
<1> USE ReadConstants DEF ReadInv
<1>0. arrived \in 0..WireLen /\ WireLen \in Nat
  BY DEF TypeOK
<1>1. RunOK(pre_msg_)' /\ pre_msg_'.hi <= arrived /\ Size(pre_msg_)' = arrived - e
      /\ (arrived > e => pre_msg_'.lo = e)
  <2>1. CASE arrived = e
    BY <1>0, <2>1
  <2>2. CASE arrived > e
    BY <1>0, <2>2 DEF RunOK, Run, Size
  <2> QED
    BY <1>0, <2>1, <2>2
<1>2. TypeOK'
  BY <1>1 DEF TypeOK, RunOK, NoBytes, Run
<1>3. Open' /\ Size(data)' = 0
  BY DEF Open, Size, NoBytes, Run
<1>4. StreamConserved'
  BY <1>1, <1>3, KeepsStream DEF StreamConserved, Follows, TypeOK
<1>5. AtPoint'
  BY <1>3 DEF AtPoint, Open
<1> QED
  BY <1>2, <1>4, <1>5

\* A call that completes the packet at the parse position and goes on parsing.
LEMMA ReadPacket ==
  ASSUME ReadInv, Open, pc \in {"left", "parse"},
         UNCHANGED <<wire, attr, arrived, gw_attr, recv>>, pc' = "parse",
         NEW e \in Nat, e = ParsedTo, e <= WireLen, NEW need \in Int, need = GetOnePacketSize(e),
         PacketSizeCheck(need), e + need <= arrived,
         read_queue_' = Append(read_queue_, Run(e, e + need)),
         data' = Run(e + need, arrived),
         RunOK(pre_msg_)', pre_msg_'.hi <= arrived, Size(pre_msg_)' = 0
  PROVE  ReadInv'
<1> USE ReadConstants DEF ReadInv
<1>0. /\ need \in Nat /\ arrived \in 0..WireLen
      /\ Run(e, e + need) \in RunSet
      /\ Run(e, e + need).lo = e /\ Run(e, e + need).hi = e + need
  BY DEF TypeOK, Run, RunSet, PacketSizeCheck
<1>1. read_queue_ \in Seq(RunSet) /\ recv \in Seq(RunSet)
  BY ReadFacts
<1>2. Whole(wire, Run(e, e + need))
  BY <1>0 DEF Whole, GetOnePacketSize
<1>3. /\ read_queue_' \in Seq(RunSet)
      /\ Framed(wire, read_queue_', EndOf(recv, First))
      /\ EndOf(read_queue_', EndOf(recv, First)) = e + need
  BY <1>0, <1>1, <1>2, FramedAppend DEF ParsedTo, StreamConserved
<1>4. TypeOK'
  BY <1>0, <1>3 DEF TypeOK, RunOK, Run, RunSet
<1>5. First' = First /\ EndOf(recv, First)' = EndOf(recv, First) /\ ParsedTo' = e + need
  BY <1>3 DEF First, EndOf, ParsedTo
<1>6. Framed(wire, recv, First)' /\ Framed(wire, read_queue_, EndOf(recv, First))'
  BY <1>3, <1>5 DEF StreamConserved, Framed, Whole
<1>7. Open' /\ Size(data)' = arrived - (e + need) /\ data'.lo = e + need /\ data'.hi = arrived'
  BY DEF Open, Size, Run
<1>8. StreamConserved'
  BY <1>0, <1>5, <1>6, <1>7 DEF StreamConserved, Follows
<1>9. AtPoint'
  BY <1>7 DEF AtPoint, Open
<1> QED
  BY <1>4, <1>8, <1>9

\* Where the buffers are while OnRead parses.
LEMMA ParsePosition ==
  ASSUME ReadInv, pc \in {"left", "parse"}
  PROVE  /\ Open
         /\ ParsedTo \in Nat /\ ParsedTo <= arrived /\ ParsedTo <= WireLen
         /\ arrived \in 0..WireLen
         /\ pre_msg_ \in [lo : Nat, hi : Nat] /\ data \in [lo : Nat, hi : Nat]
         /\ data.hi = arrived /\ data.lo <= data.hi
         /\ pre_msg_.lo <= pre_msg_.hi
         /\ data.lo = ParsedTo + Size(pre_msg_)
         /\ pre_msg_.lo < pre_msg_.hi => pre_msg_.lo = ParsedTo /\ pre_msg_.hi = data.lo
         /\ GetOnePacketSize(ParsedTo) \in Int
<1>1. Open /\ data.hi = arrived
  BY DEF ReadInv, AtPoint
<1>2. /\ ParsedTo \in Nat
      /\ arrived \in 0..WireLen /\ WireLen \in Nat
      /\ pre_msg_ \in [lo : Nat, hi : Nat] /\ data \in [lo : Nat, hi : Nat]
      /\ pre_msg_.lo <= pre_msg_.hi /\ data.lo <= data.hi
  BY ParsedIsNat, ReadConstants DEF ReadInv, TypeOK, RunOK
<1>3. /\ Follows(pre_msg_, ParsedTo)
      /\ ParsedTo + Size(pre_msg_) + Size(data) = arrived
  BY <1>1 DEF ReadInv, StreamConserved
<1>4. ParsedTo <= WireLen
  BY <1>2, <1>3 DEF Size
<1>5. GetOnePacketSize(ParsedTo) \in Int
  BY <1>2, <1>4, ReadFacts DEF ReadInv
<1> QED
  BY <1>1, <1>2, <1>3, <1>4, <1>5 DEF Size, Follows

\* One iteration of the parse loop.
LEMMA ReadLoop ==
  ASSUME ReadInv, OnReadLoop
  PROVE  ReadInv'
<1> DEFINE e == ParsedTo
           need == GetOnePacketSize(data.lo)
<1>1. /\ pc = "parse" /\ Size(pre_msg_) = 0 /\ UNCHANGED <<wire, attr, arrived, gw_attr>>
  BY DEF OnReadLoop, KeepRest, ReadInv, AtPoint
<1>2. data.lo = e /\ data.hi = arrived /\ Size(data) = arrived - e /\ Open /\ e <= arrived
      /\ e \in Nat /\ arrived \in 0..WireLen /\ e <= WireLen /\ need \in Int
  BY <1>1, ParsePosition DEF Size
<1>3. CASE /\ Size(data) < parse_need_size_ \/ (PacketSizeCheck(need) /\ ~Covers(data, need))
           /\ pre_msg_' = AppendBytes(pre_msg_, data, Size(data))
           /\ data' = NoBytes /\ pc' = "deliver" /\ UNCHANGED <<read_queue_, recv>>
  <2>1. pre_msg_' = Run(e, arrived)
    BY <1>1, <1>2, <1>3, ReadConstants DEF AppendBytes
  <2>2. Size(pre_msg_)' = arrived - e /\ pre_msg_'.lo = e /\ pre_msg_'.hi = arrived
    BY <2>1, <1>1, <1>2 DEF Size, Run
  <2>3. Partial(pre_msg_)'
    BY <1>1, <1>2, <1>3, <2>2 DEF Partial, Covers, GetOnePacketSize
  <2>4. arrived = e => RunOK(pre_msg_)'
    BY <1>2, <2>1, ReadConstants DEF RunOK, Run
  <2> QED
    BY <1>1, <1>2, <1>3, <2>1, <2>2, <2>3, <2>4, ReadKeep, ReadConstants
<1>4. CASE Fail /\ UNCHANGED pre_msg_
  <2>1. RunOK(pre_msg_)' /\ pre_msg_'.hi <= arrived /\ Open'
        /\ gw_attr' \in [write_ : 0..GW_AUTHORITY_SIZE, is_auth_ : BOOLEAN]
    BY <1>1, <1>2, <1>4 DEF ReadInv, TypeOK, RunOK, Open
  <2> QED
    BY <1>1, <1>4, <2>1, ReadFail
<1>5. CASE /\ PacketSizeCheck(need) /\ Covers(data, need)
           /\ read_queue_' = Append(read_queue_, Run(data.lo, data.lo + need))
           /\ data' = Skip(data, need) /\ UNCHANGED <<pre_msg_, recv, pc>>
  <2>1. /\ e + need <= arrived /\ data' = Run(e + need, arrived)
        /\ read_queue_' = Append(read_queue_, Run(e, e + need))
        /\ need = GetOnePacketSize(e)
    BY <1>2, <1>5 DEF Covers, Skip, Size
  <2>2. RunOK(pre_msg_)' /\ pre_msg_'.hi <= arrived /\ Size(pre_msg_)' = 0 /\ pc' = "parse"
    BY <1>1, <1>5 DEF ReadInv, TypeOK, RunOK, Size
  <2> HIDE DEF need, e
  <2> QED
    BY <1>1, <1>2, <1>5, <2>1, <2>2, ReadPacket DEF e
<1> QED
  BY <1>3, <1>4, <1>5 DEF OnReadLoop, KeepRest

\* The packet left over by earlier reads is completed, refused, or kept.
LEMMA ReadLeft ==
  ASSUME ReadInv, OnReadLeft
  PROVE  ReadInv'
<1> DEFINE e == ParsedTo
           left == Size(pre_msg_)
           fill == IF left < parse_need_size_ THEN parse_need_size_ - left ELSE 0
           headed == AppendBytes(pre_msg_, data, fill)
           rest == Skip(data, fill)
           need == GetOnePacketSize(headed.lo)
           add == need - Size(headed)
<1>0. /\ parse_need_size_ \in Nat /\ parse_need_size_ > 0 /\ parse_need_size_ <= PACKET_MIN_SIZE
      /\ PACKET_MIN_SIZE \in Nat /\ WireLen \in Nat
  BY ReadConstants
<1>1. /\ pc = "left" /\ Partial(pre_msg_) /\ read_queue_ = <<>>
      /\ UNCHANGED <<wire, attr, arrived, gw_attr>>
  BY DEF OnReadLeft, ReadInv, AtPoint
<1>2. /\ e \in Nat /\ e <= arrived /\ e <= WireLen /\ arrived \in 0..WireLen /\ Open
      /\ pre_msg_ \in [lo : Nat, hi : Nat] /\ data \in [lo : Nat, hi : Nat]
      /\ pre_msg_.lo <= pre_msg_.hi
      /\ data.lo = e + left /\ data.hi = arrived /\ data.lo <= data.hi
      /\ left = pre_msg_.hi - pre_msg_.lo /\ left \in Nat
      /\ left > 0 => pre_msg_.lo = e /\ pre_msg_.hi = data.lo
  BY <1>1, ParsePosition DEF Size
<1>3. CASE left = 0 /\ pc' = "parse" /\ UNCHANGED <<pre_msg_, data, read_queue_, recv>>
  <2>1. TypeOK'
    BY <1>1, <1>3 DEF ReadInv, TypeOK, RunOK
  <2>2. UNCHANGED <<Open, First, ParsedTo>>
    BY <1>1, <1>3 DEF Open, First, ParsedTo, EndOf
  <2>3. StreamConserved'
    BY <1>1, <1>3, <2>2, KeepsStream DEF ReadInv, StreamConserved, Follows, Size
  <2>4. AtPoint'
    BY <1>1, <1>2, <1>3, <2>2 DEF ReadInv, AtPoint, Size
  <2> QED
    BY <2>1, <2>3, <2>4 DEF ReadInv
<1>4. CASE /\ left > 0 /\ left + Size(data) < parse_need_size_
           /\ pre_msg_' = AppendBytes(pre_msg_, data, Size(data)) /\ Return
  <2>1. Size(data) = arrived - data.lo /\ Size(data) \in Nat
    BY <1>2 DEF Size
  <2>2. pre_msg_' = Run(e, arrived)
    BY <1>2, <1>4, <2>1, AppendContinues
  <2>3. Size(pre_msg_)' = arrived - e /\ arrived > e
    BY <1>2, <1>4, <2>1, <2>2 DEF Size, Run
  <2>4. Partial(pre_msg_)'
    BY <1>2, <1>4, <2>1, <2>3 DEF Partial
  <2> QED
    BY <1>1, <1>2, <1>4, <2>2, <2>3, <2>4, ReadKeep DEF Return
<1>5. CASE left > 0 /\ left + Size(data) >= parse_need_size_
  <2>1. /\ Size(data) = arrived - data.lo /\ fill \in Nat /\ fill <= Size(data)
        /\ left + fill >= parse_need_size_ /\ left <= left + fill
    BY <1>0, <1>2, <1>5 DEF Size
  <2>2. headed = Run(e, data.lo + fill) /\ rest = Run(data.lo + fill, arrived)
    BY <1>2, <1>5, <2>1, AppendContinues DEF Skip
  <2>3. /\ headed.lo = e /\ headed.hi = data.lo + fill /\ Size(headed) = left + fill
        /\ rest.lo = headed.hi /\ rest.hi = arrived /\ Size(rest) = arrived - headed.hi
        /\ headed \in [lo : Nat, hi : Nat] /\ rest \in [lo : Nat, hi : Nat]
        /\ headed.hi <= arrived /\ headed.lo < headed.hi
    BY <1>2, <1>5, <2>1, <2>2 DEF Size, Run
  <2>4. need = GetOnePacketSize(e) /\ need \in Int
    BY <1>1, <2>3, ParsePosition
  <2> HIDE DEF headed, rest, fill, need, left, e
  <2>5. CASE pre_msg_' = headed /\ Fail
    <3>1. RunOK(pre_msg_)' /\ pre_msg_'.hi <= arrived
      BY <1>0, <1>2, <2>2, <2>3, <2>5 DEF RunOK, Run
    <3>2. Open' /\ gw_attr' \in [write_ : 0..GW_AUTHORITY_SIZE, is_auth_ : BOOLEAN]
      BY <1>1, <1>2 DEF ReadInv, TypeOK, Open
    <3> QED
      BY <1>1, <2>5, <3>1, <3>2, ReadFail
  <2>6. CASE /\ PacketSizeCheck(need) /\ add > Size(rest)
             /\ pre_msg_' = AppendBytes(headed, rest, Size(rest)) /\ Return
    <3>1. pre_msg_' = Run(e, arrived)
      BY <1>2, <2>3, <2>6, AppendContinues
    <3>2. Size(pre_msg_)' = arrived - e /\ arrived > e /\ pre_msg_'.lo = e
      BY <1>2, <2>3, <3>1 DEF Size, Run
    <3>4. Partial(pre_msg_)'
      <4>1. arrived - e < need
        BY <1>2, <2>1, <2>3, <2>4, <2>6
      <4>2. wire'[pre_msg_'.lo] = wire[e]
        BY <1>1, <3>2
      <4> QED
        BY <1>2, <2>4, <2>6, <3>2, <4>1, <4>2 DEF Partial, GetOnePacketSize
    <3> QED
      BY <1>1, <1>2, <2>6, <3>1, <3>2, <3>4, ReadKeep DEF Return, e
  <2>7. CASE /\ PacketSizeCheck(need) /\ add <= Size(rest)
             /\ read_queue_' = Append(read_queue_, AppendBytes(headed, rest, add))
             /\ pre_msg_' = NoBytes /\ data' = Skip(rest, add) /\ pc' = "parse" /\ UNCHANGED recv
    <3>0. /\ headed.hi = e + Size(headed) /\ headed.hi \in Nat /\ Size(headed) \in Nat
          /\ Size(rest) = arrived - headed.hi /\ arrived \in Nat
      BY <1>0, <1>2, <2>1, <2>3
    <3>1. e + need <= arrived /\ headed.hi + add = e + need
      <4>1. add <= arrived - headed.hi /\ e \in Nat /\ need \in Int
        BY <1>2, <2>4, <2>7, <3>0
      <4> QED
        BY <3>0, <4>1
    <3>2. add \in Nat
      <4>1. Size(headed) <= need
        <5>1. CASE left < parse_need_size_
          <6>1. Size(headed) = parse_need_size_
            BY <1>0, <1>2, <2>3, <5>1 DEF fill
          <6>2. PACKET_MIN_SIZE <= need
            BY <2>7 DEF PacketSizeCheck
          <6> QED
            BY <1>0, <2>4, <6>1, <6>2
        <5>2. CASE left >= parse_need_size_
          BY <1>0, <1>1, <1>2, <1>5, <2>3, <2>4, <5>2 DEF Partial, fill, left
        <5> QED
          BY <1>0, <1>2, <5>1, <5>2
      <4> QED
        BY <2>3, <2>4, <4>1 DEF Size
    <3>3. AppendBytes(headed, rest, add) = Run(e, e + need)
      BY <2>3, <3>1, <3>2, AppendContinues
    <3>4. data' = Run(e + need, arrived)
      BY <2>3, <2>7, <3>1, <3>2 DEF Skip
    <3>5. RunOK(pre_msg_)' /\ pre_msg_'.hi <= arrived /\ Size(pre_msg_)' = 0
      BY <1>2, <2>7, ReadConstants DEF RunOK, NoBytes, Run, Size
    <3> QED
      BY <1>1, <1>2, <2>4, <2>7, <3>1, <3>3, <3>4, <3>5, ReadPacket DEF e
  <2> QED
    BY SMTT(20), <1>0, <1>2, <1>5, <2>1, <2>5, <2>6, <2>7 DEF OnReadLeft, headed, rest, fill, need, left
<1> QED
  BY <1>2, <1>3, <1>4, <1>5 DEF OnReadLeft

\* The completed packets join what was delivered before.
LEMMA ReadDeliver ==
  ASSUME ReadInv, rcv_msg_cb_
  PROVE  ReadInv'
<1> USE ReadConstants DEF ReadInv
<1>1. read_queue_ \in Seq(RunSet) /\ recv \in Seq(RunSet)
  BY ReadFacts
<1>2. /\ recv' \in Seq(RunSet) /\ Framed(wire, recv', First)
      /\ EndOf(recv', First) = ParsedTo
  BY <1>1, FramedConcat DEF rcv_msg_cb_, StreamConserved, ParsedTo
<1>3. /\ UNCHANGED <<First, Open>> /\ read_queue_' = <<>>
      /\ wire' = wire
  BY DEF rcv_msg_cb_, First, Open
<1>4. TypeOK'
  BY <1>2 DEF rcv_msg_cb_, TypeOK, RunSet, RunOK
<1>5. ParsedTo' = ParsedTo
  BY <1>2, <1>3 DEF ParsedTo, EndOf
<1>6. StreamConserved'
  BY <1>2, <1>3, <1>5 DEF rcv_msg_cb_, StreamConserved, Framed, Whole, Follows, Size
<1>7. Partial(pre_msg_)'
  BY DEF rcv_msg_cb_, AtPoint, Partial, Size, GetOnePacketSize
<1>8. AtPoint'
  BY <1>3, <1>7 DEF rcv_msg_cb_, AtPoint, Size
<1> QED
  BY <1>4, <1>6, <1>8

\* Every step of the read side keeps the invariant.
LEMMA ReadStep == ReadInv /\ [Next]_vars => ReadInv'
<1> SUFFICES ASSUME ReadInv, [Next]_vars PROVE ReadInv'
  OBVIOUS
<1>1. ASSUME NEW n \in 0..WireLen, tcp_read_cb(n) PROVE ReadInv'
  BY <1>1, ReadChunk
<1>2. CASE read_error
  <2>1. RunOK(pre_msg_)' /\ pre_msg_'.hi <= arrived
        /\ gw_attr' \in [write_ : 0..GW_AUTHORITY_SIZE, is_auth_ : BOOLEAN]
    BY <1>2 DEF read_error, ReadInv, TypeOK, RunOK
  <2>2. UNCHANGED <<pre_msg_, Open>>
    BY <1>2 DEF read_error, Open
  <2> QED
    BY <1>2, <2>1, <2>2, ReadFail DEF read_error
<1>3. CASE OnRead
  BY <1>3, ReadPreprocess, ReadLeft, ReadLoop, ReadDeliver DEF OnRead
<1>4. CASE UNCHANGED vars
  BY <1>4 DEF vars, ReadInv, TypeOK, RunOK, StreamConserved, Framed, Whole, EndOf, Follows, ParsedTo,
       Open, First, Size, AtPoint, Partial, GetOnePacketSize
<1> QED
  BY <1>1, <1>2, <1>3, <1>4 DEF Next

\* For every stream, link kind and chunking: all of ReadInv holds always.
THEOREM ReadInvariant == Spec => []ReadInv
  BY ReadInit, ReadStep, PTL DEF Spec

\* Buffers of OnRead and Preprocess are always runs of received bytes: no append or
\* memcpy of tcp_link.cpp reaches outside its source.
THEOREM ReadTypeCorrect == Spec => []TypeOK
<1>1. ReadInv => TypeOK
  BY DEF ReadInv
<1> QED
  BY <1>1, ReadInvariant, PTL

\* No byte is lost, repeated or reordered by OnRead, whatever the chunk sizes.
THEOREM ReadConserves == Spec => []StreamConserved
<1>1. ReadInv => StreamConserved
  BY DEF ReadInv
<1> QED
  BY <1>1, ReadInvariant, PTL

\* No complete packet is kept in pre_msg_ between two reads.
THEOREM ReadHoldsNothing == Spec => []NothingHeldBack
<1>1. ReadInv => NothingHeldBack
  BY DEF ReadInv, AtPoint, NothingHeldBack
<1> QED
  BY <1>1, ReadInvariant, PTL

\* A gateway link without the authority string never delivers a message.
THEOREM ReadGatewayGate == Spec => []GatewayGate
<1>1. ReadInv => GatewayGate
  BY DEF ReadInv, AtPoint, GatewayGate
<1> QED
  BY <1>1, ReadInvariant, PTL

\* Both together: what may be handed over is, what may not is not.
THEOREM ReadHandsOverRightly == Spec => []HandsOverRightly
  BY ReadHoldsNothing, ReadGatewayGate, PTL DEF HandsOverRightly

\* The steps left are a number, and as many as the chunk is long, apart from the parts of OnRead.
LEMMA StepsAreNat ==
  ASSUME TypeOK
  PROVE  /\ Size(data) \in Nat /\ StepsLeft \in Nat
         /\ pc = "preprocess" => StepsLeft = Size(data) + 4
         /\ pc = "left" => StepsLeft = Size(data) + 3
         /\ pc = "parse" => StepsLeft = Size(data) + 2
         /\ pc = "deliver" => StepsLeft = Size(data) + 1
         /\ pc \in {"idle", "stopped"} => StepsLeft = Size(data)
<1>1. Size(data) \in Nat
  BY ReadConstants DEF TypeOK, RunOK, Size
<1>2. pc \in {"idle", "preprocess", "left", "parse", "deliver", "stopped"}
  BY DEF TypeOK
<1> QED
  BY <1>1, <1>2 DEF StepsLeft

\* A call that ends has no step left.
LEMMA EndedHasNone ==
  ASSUME Return \/ Fail
  PROVE  StepsLeft' = 0
  BY DEF Return, Fail, StepsLeft, Size, NoBytes, Run

\* Preprocess ends the call, or takes what it needs off the chunk and goes on.
LEMMA PreprocessAdvances ==
  ASSUME ReadInv, Preprocess
  PROVE  StepsLeft' < StepsLeft
<1>1. TypeOK /\ pc = "preprocess"
  BY DEF ReadInv, Preprocess, PreprocessPart, PreprocessAll
<1>2. Size(data) \in Nat /\ StepsLeft = Size(data) + 4
  BY <1>1, StepsAreNat
<1>3. CASE Return \/ Fail
  BY <1>2, <1>3, EndedHasNone
<1>4. CASE data' = Skip(data, GW_AUTHORITY_SIZE - gw_attr.write_) /\ pc' = "left"
  <2>1. GW_AUTHORITY_SIZE - gw_attr.write_ >= 0 /\ GW_AUTHORITY_SIZE - gw_attr.write_ \in Int
    BY <1>1, ReadConstants DEF TypeOK
  <2>2. data.lo \in Int /\ data.hi \in Int
    BY <1>1 DEF TypeOK, RunOK
  <2>3. Size(data)' <= Size(data) /\ Size(data)' \in Int
    BY <1>4, <2>1, <2>2 DEF Skip, Run, Size
  <2>4. StepsLeft' = Size(data)' + 3
    BY <1>4 DEF StepsLeft
  <2> QED
    BY <1>2, <2>3, <2>4
<1> QED
  BY <1>3, <1>4 DEF Preprocess, PreprocessPart, PreprocessAll

\* The loop cuts a packet of at least PACKET_MIN_SIZE bytes off the chunk, or it ends.
LEMMA LoopAdvances ==
  ASSUME ReadInv, OnReadLoop
  PROVE  StepsLeft' < StepsLeft
<1> DEFINE need == GetOnePacketSize(data.lo)
<1>1. TypeOK /\ pc = "parse"
  BY DEF ReadInv, OnReadLoop
<1>2. Size(data) \in Nat /\ StepsLeft = Size(data) + 2
  BY <1>1, StepsAreNat
<1>3. data.lo \in 0..WireLen /\ data.hi \in Int
  BY <1>1, ReadConstants DEF TypeOK, RunOK
<1>4. need \in Int
  BY <1>1, <1>3, ReadFacts
<1> HIDE DEF need
<1>5. CASE KeepRest
  <2>1. StepsLeft' = 1
    BY <1>5 DEF KeepRest, StepsLeft, Size, NoBytes, Run
  <2> QED
    BY <1>2, <2>1
<1>6. CASE Fail
  BY <1>2, <1>6, EndedHasNone
<1>7. CASE PacketSizeCheck(need) /\ data' = Skip(data, need) /\ pc' = pc
  <2>1. need > 0
    BY <1>4, <1>7, ReadConstants DEF PacketSizeCheck
  <2>2. Size(data)' < Size(data) /\ Size(data)' \in Int
    BY <1>3, <1>4, <1>7, <2>1, ReadConstants DEF Skip, Run, Size
  <2>3. StepsLeft' = Size(data)' + 2
    BY <1>1, <1>7 DEF StepsLeft
  <2> QED
    BY <1>2, <2>2, <2>3
<1> QED
  BY <1>5, <1>6, <1>7 DEF OnReadLoop, need

\* The bytes that complete the header and then the packet are never fewer than none.
LEMMA LeftTakes ==
  ASSUME ReadInv, pc = "left", Size(pre_msg_) > 0,
         Size(pre_msg_) + Size(data) >= parse_need_size_,
         NEW fill, fill = IF Size(pre_msg_) < parse_need_size_ THEN parse_need_size_ - Size(pre_msg_)
                          ELSE 0,
         NEW headed, headed = AppendBytes(pre_msg_, data, fill),
         PacketSizeCheck(GetOnePacketSize(headed.lo))
  PROVE  fill \in Nat /\ GetOnePacketSize(headed.lo) - Size(headed) \in Nat
<1> DEFINE e == ParsedTo
           left == Size(pre_msg_)
           need == GetOnePacketSize(headed.lo)
<1>0. /\ parse_need_size_ \in Nat /\ parse_need_size_ > 0 /\ parse_need_size_ <= PACKET_MIN_SIZE
      /\ PACKET_MIN_SIZE \in Nat
  BY ReadConstants
<1>1. Partial(pre_msg_)
  BY DEF ReadInv, AtPoint
<1>2. /\ e \in Nat /\ pre_msg_ \in [lo : Nat, hi : Nat] /\ data \in [lo : Nat, hi : Nat]
      /\ left = pre_msg_.hi - pre_msg_.lo /\ left \in Nat /\ left > 0
      /\ pre_msg_.lo = e /\ pre_msg_.hi = data.lo
  BY ParsePosition DEF Size
<1>3. fill \in Nat
  BY <1>0, <1>2
<1>4. headed = Run(e, data.lo + fill)
  BY <1>2, <1>3, AppendContinues
<1>5. headed.lo = e /\ Size(headed) = left + fill
  BY <1>2, <1>3, <1>4 DEF Size, Run
<1>6. need \in Int /\ PACKET_MIN_SIZE <= need
  BY <1>5, ParsePosition DEF PacketSizeCheck
<1>7. Size(headed) <= need
  <2>1. CASE left < parse_need_size_
    <3>1. Size(headed) = parse_need_size_
      BY <1>0, <1>2, <1>5, <2>1
    <3> QED
      BY <1>0, <1>6, <3>1
  <2>2. CASE left >= parse_need_size_
    <3>1. fill = 0 /\ pre_msg_.lo = headed.lo
      BY <1>0, <1>2, <1>5, <2>2
    <3> QED
      BY <1>0, <1>1, <1>2, <1>5, <1>6, <2>2, <3>1 DEF Partial
  <2> QED
    BY <1>0, <1>2, <2>1, <2>2
<1> QED
  BY <1>2, <1>3, <1>5, <1>6, <1>7

\* What completes the kept packet is taken off the chunk, or the call ends.
LEMMA LeftAdvances ==
  ASSUME ReadInv, ReadInv', OnReadLeft
  PROVE  StepsLeft' < StepsLeft
<1> DEFINE left == Size(pre_msg_)
           fill == IF left < parse_need_size_ THEN parse_need_size_ - left ELSE 0
           headed == AppendBytes(pre_msg_, data, fill)
           rest == Skip(data, fill)
           add == GetOnePacketSize(headed.lo) - Size(headed)
<1>1. TypeOK /\ TypeOK' /\ pc = "left"
  BY DEF ReadInv, OnReadLeft
<1>2. Size(data) \in Nat /\ StepsLeft = Size(data) + 3
  BY <1>1, StepsAreNat
<1>3. CASE Return \/ Fail
  BY <1>2, <1>3, EndedHasNone
<1>4. CASE pc' = "parse" /\ UNCHANGED data
  <2>1. StepsLeft' = Size(data) + 2
    BY <1>4 DEF StepsLeft, Size
  <2> QED
    BY <1>2, <2>1
<1>5. CASE /\ left > 0 /\ left + Size(data) >= parse_need_size_
           /\ PacketSizeCheck(GetOnePacketSize(headed.lo))
           /\ data' = Skip(rest, add) /\ pc' = "parse"
  <2>1. Size(data)' <= Size(data) /\ Size(data)' \in Int
    <3>1. fill \in Nat /\ add \in Nat
      BY <1>1, <1>5, LeftTakes
    <3>2. data.lo \in Int /\ data.hi \in Int
      BY <1>1 DEF TypeOK, RunOK
    <3>3. data' = Run(data.lo + fill + add, data.hi)
      BY <1>5 DEF Skip, Run
    <3> QED
      BY <3>1, <3>2, <3>3 DEF Size, Run
  <2>2. StepsLeft' = Size(data)' + 2
    BY <1>5 DEF StepsLeft
  <2> QED
    BY <1>2, <2>1, <2>2
<1> QED
  BY <1>3, <1>4, <1>5 DEF OnReadLeft

\* OnRead never turns without consuming: whatever the peer writes into its headers, a call makes at
\* most four steps more than the chunk has bytes.
THEOREM ReadAdvances == Spec => OnReadAdvances
<1>1. ReadInv /\ ReadInv' => (OnRead => StepsLeft' < StepsLeft)
  <2> SUFFICES ASSUME ReadInv, ReadInv', OnRead PROVE StepsLeft' < StepsLeft
    OBVIOUS
  <2>1. CASE rcv_msg_cb_
    <3>1. TypeOK /\ pc = "deliver" /\ pc' = "idle" /\ data' = data
      BY <2>1 DEF ReadInv, rcv_msg_cb_
    <3>2. Size(data) \in Nat /\ StepsLeft = Size(data) + 1 /\ StepsLeft' = Size(data)
      BY <3>1, StepsAreNat DEF StepsLeft, Size
    <3> QED
      BY <3>2
  <2> QED
    BY <2>1, PreprocessAdvances, LeftAdvances, LoopAdvances DEF OnRead
<1>2. ReadInv' => StepsLeft' \in Nat
  <2> SUFFICES ASSUME TypeOK' PROVE StepsLeft' \in Nat
    BY DEF ReadInv
  <2>1. Size(data)' \in Nat
    BY ReadConstants DEF TypeOK, RunOK, Size
  <2>2. pc' \in {"idle", "preprocess", "left", "parse", "deliver", "stopped"}
    BY DEF TypeOK
  <2> QED
    BY <2>1, <2>2 DEF StepsLeft
<1>3. ReadInv /\ ReadInv' /\ [Next]_vars
        => [OnRead => StepsLeft' \in Nat /\ StepsLeft' < StepsLeft]_vars
  BY <1>1, <1>2
<1> QED
  BY <1>3, ReadInvariant, PTL DEF Spec, OnReadAdvances

\* The stream as the abstract specification sees it never changes.
LEMMA StreamFixed ==
  ASSUME Next
  PROVE  UNCHANGED <<wire, attr>> /\ UNCHANGED <<SizeAt, First>>
<1>1. UNCHANGED <<wire, attr>>
  BY DEF Next, tcp_read_cb, read_error, OnRead, Preprocess, PreprocessPart, PreprocessAll,
       OnReadLeft, OnReadLoop, KeepRest, rcv_msg_cb_
<1> QED
  BY <1>1 DEF SizeAt, First, GetOnePacketSize

\* A history framed for the link is framed for the abstract stream.
LEMMA FramedForStream ==
  ASSUME TypeOK, Framed(wire, recv, First)
  PROVE  Stream!Framed(recv)
<1> SUFFICES ASSUME NEW i \in 1..Len(recv)
             PROVE  /\ Stream!IsPacket(recv[i])
                    /\ recv[i].lo = IF i = 1 THEN First ELSE recv[i - 1].hi
  BY DEF Stream!Framed
<1>0. recv \in Seq(RunSet)
  BY ReadFacts
<1>1. recv[i] \in RunSet /\ recv[i].lo \in 0..WireLen
  <2>1. recv[i] \in RunSet
    BY <1>0
  <2> QED
    BY <2>1 DEF RunSet
<1>2. /\ PacketSizeCheck(GetOnePacketSize(recv[i].lo))
      /\ recv[i].hi = recv[i].lo + GetOnePacketSize(recv[i].lo)
      /\ recv[i].lo = IF i = 1 THEN First ELSE recv[i - 1].hi
  BY DEF Framed, Whole, GetOnePacketSize
<1>3. SizeAt[recv[i].lo] = GetOnePacketSize(recv[i].lo) /\ recv[i].lo \in DOMAIN SizeAt
  BY <1>1, <1>2 DEF SizeAt
<1>4. GetOnePacketSize(recv[i].lo) > 0
  BY SMTT(20), <1>1, <1>2, ReadFacts, ReadConstants DEF PacketSizeCheck
<1> QED
  BY <1>2, <1>3, <1>4 DEF Stream!IsPacket

\* Each step of the link is a delivery of packets, the stop of the link, or neither.
LEMMA StreamStep == ReadInv /\ ReadInv' /\ [Next]_vars => [Stream!Next]_(Stream!vars)
<1> SUFFICES ASSUME ReadInv, ReadInv', [Next]_vars PROVE [Stream!Next]_(Stream!vars)
  OBVIOUS
<1>1. CASE rcv_msg_cb_
  <2>1. UNCHANGED <<SizeAt, First>>
    BY <1>1, StreamFixed DEF Next, OnRead
  <2>2. recv \in Seq(RunSet) /\ read_queue_ \in Seq(RunSet) /\ recv' = recv \o read_queue_
    BY <1>1, ReadFacts DEF ReadInv, rcv_msg_cb_
  <2>3. Len(recv') >= Len(recv) /\ \A i \in 1..Len(recv) : recv'[i] = recv[i]
    BY <2>2
  <2>4. (Stream!Framed(recv))'
    BY FramedForStream, PTL DEF ReadInv, StreamConserved
  <2>5. pc # "stopped" /\ pc' # "stopped"
    BY <1>1 DEF rcv_msg_cb_
  <2> QED
    BY <2>1, <2>3, <2>4, <2>5 DEF Stream!Next, Stream!Deliver
<1>2. CASE Next /\ recv' = recv /\ pc' = "stopped"
  BY <1>2, StreamFixed DEF Stream!Next, Stream!Stop
<1>3. CASE Next /\ recv' = recv /\ pc # "stopped" /\ pc' # "stopped"
  BY <1>3, StreamFixed DEF Stream!vars
<1>4. CASE UNCHANGED vars
  BY <1>4 DEF vars, Stream!vars, SizeAt, First, GetOnePacketSize
<1>5. Next => rcv_msg_cb_ \/ (recv' = recv /\ pc # "stopped")
  BY DEF Next, tcp_read_cb, read_error, OnRead, Preprocess, PreprocessPart, PreprocessAll,
       OnReadLeft, OnReadLoop, KeepRest, Return, Fail
<1> QED
  BY <1>1, <1>2, <1>3, <1>4, <1>5

\* The read side implements PacketStream: the receiver sees the peer's packets whole and in
\* order for every way the socket may cut the stream.
THEOREM ReadImplementsStream == Spec => ImplementsStream
<1>1. Init => Stream!Init
  BY DEF Init, Stream!Init
<1> QED
  BY <1>1, StreamStep, ReadInvariant, PTL DEF Spec, ImplementsStream, Stream!Spec

=============================================================================
