---------------------------- MODULE PacketStream ----------------------------
(***************************************************************************)
(* What the read side of a TCP link promises its receiver, whatever the    *)
(* sizes of the chunks the socket hands out: the messages passed to        *)
(* rcv_msg_cb_ are the packets of the peer's byte stream, whole, in order, *)
(* with no gap and no repetition, until the link stops; a stopped link     *)
(* passes nothing more.                                                    *)
(*                                                                         *)
(* A message is the run [lo, hi) of stream positions it holds.             *)
(***************************************************************************)
EXTENDS Integers, Sequences

VARIABLES
    size,       \* the peer's stream: position of a header -> packet size, 0 if inadmissible
    first,      \* the stream position of the first packet
    recv,       \* the messages handed to the receiver so far
    stopped     \* the link has been stopped

vars == <<size, first, recv, stopped>>

\* The message m is one whole packet of the stream.
IsPacket(m) ==
    /\ m.lo \in DOMAIN size
    /\ size[m.lo] > 0
    /\ m.hi = m.lo + size[m.lo]

\* The messages of q are consecutive packets, the first one at first.
Framed(q) ==
    \A i \in 1..Len(q) :
        /\ IsPacket(q[i])
        /\ q[i].lo = IF i = 1 THEN first ELSE q[i - 1].hi

Init ==
    /\ recv = <<>>
    /\ stopped = FALSE

\* Some number of further packets reach the receiver at once.
Deliver ==
    /\ ~stopped
    /\ Len(recv') >= Len(recv)
    /\ \A i \in 1..Len(recv) : recv'[i] = recv[i]
    /\ Framed(recv)'
    /\ UNCHANGED <<size, first, stopped>>

Stop ==
    /\ stopped' = TRUE
    /\ UNCHANGED <<size, first, recv>>

Next == Deliver \/ Stop

Spec == Init /\ [][Next]_vars
=============================================================================
