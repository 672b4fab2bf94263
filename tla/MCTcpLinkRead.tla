---------------------------- MODULE MCTcpLinkRead ----------------------------
(* Instance of TcpLinkRead: streams of three 8-byte units, headers that give   *)
(* packets of 8 and 16 bytes (with and without the flag) and sizes that are    *)
(* too small, too large, or wrap around.                                       *)
EXTENDS TcpLinkRead

H(sz, f) == [data_size |-> sz, flag |-> f]

\* Sizes with parse_need_size_ = 6: 8, 16 (flag), 24, 0, 32, and 66 which wraps to -56.
MCHeaders == {H(2, FALSE), H(0, TRUE), H(12, FALSE), H(-6, FALSE), H(20, FALSE), H(60, FALSE)}

\* The last unit begins a packet that fits, one that does not, or a bad one.
MCLast == {H(2, FALSE), H(0, TRUE), H(60, FALSE)}

\* Packets begin at multiples of 8; what the other positions would give as a header.
Noise == H(2, FALSE)

MCWires ==
    {[p \in 0..WireLen |-> CASE p = 0 -> h1 [] p = 8 -> h2 [] p = 16 -> h3 [] OTHER -> Noise] :
        h1 \in MCHeaders, h2 \in MCHeaders, h3 \in MCLast}

\* Plain links, and gateway links with and without the authority string; the gateway prefix
\* takes the first unit.
MCAttrs == {[gateway |-> FALSE, authentic |-> FALSE],
            [gateway |-> TRUE, authentic |-> TRUE], [gateway |-> TRUE, authentic |-> FALSE]}
=============================================================================
