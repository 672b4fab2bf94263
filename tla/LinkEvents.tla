------------------------------ MODULE LinkEvents ------------------------------
(***************************************************************************)
(* What TcpManager promises to whoever reads recv_queue_: per object, in   *)
(* which order messages may be posted.                                     *)
(*                                                                         *)
(* A client reports that it could not start or connect, and then nothing;  *)
(* or that it is connected, then data, then the end of its link, then the  *)
(* end of the client, and nothing more.  A server reports that it could    *)
(* not start, and then nothing; or, per link, that it was accepted, then   *)
(* data, then its end, until the server itself is stopped.                 *)
(***************************************************************************)
EXTENDS Integers, Sequences

CONSTANTS Clients, Servers, MaxLinks

LinkIds == 1..MaxLinks

\* Message types of define/common.h, and the link they name (0: the object itself).
Event(type, k) == [type |-> type, link |-> k]

VARIABLE recv     \* the messages posted so far, per object

Init == recv = [o \in Clients \cup Servers |-> <<>>]

Seen(o, type, k) == \E i \in 1..Len(recv[o]) : recv[o][i] = Event(type, k)

Last(o) == recv[o][Len(recv[o])]

\* What a client may report next: nothing once it reported a failure or its end.
ClientNext(o) ==
    IF recv[o] = <<>>
    THEN {Event("CLI_START_FAILED", 0), Event("CLI_CONNECT_FAILED", 0), Event("CLI_CONNECT_OK", 1)}
    ELSE CASE Last(o) \in {Event("CLI_CONNECT_OK", 1), Event("NET_DATA", 1)} ->
                  {Event("NET_DATA", 1), Event("SYSTEM_STOP", 1)}
           [] Last(o) = Event("SYSTEM_STOP", 1) -> {Event("CLI_ERROR", 0), Event("SYSTEM_STOP", 0)}
           [] OTHER -> {}

\* A link of a server is accepted once, and alive until its end is reported.
Accepted(o, k) == Seen(o, "SVR_ACCEPT_OK", k)
Alive(o, k) == Accepted(o, k) /\ ~Seen(o, "SYSTEM_STOP", k)

Over(o) == Seen(o, "SVR_START_FAILED", 0) \/ Seen(o, "SYSTEM_STOP", 0)

\* What a server may report next.
ServerNext(o) ==
    IF Over(o) THEN {}
    ELSE (IF recv[o] = <<>> THEN {Event("SVR_START_FAILED", 0)} ELSE {})
         \cup {Event("SVR_ACCEPT_OK", k) : k \in {j \in LinkIds : ~Accepted(o, j)}}
         \cup {Event(type, k) : type \in {"NET_DATA", "SYSTEM_STOP"}, k \in {j \in LinkIds : Alive(o, j)}}

Post(o) ==
    \E e \in IF o \in Clients THEN ClientNext(o) ELSE ServerNext(o) :
        recv' = [recv EXCEPT ![o] = Append(@, e)]

\* A stopped server posts one message for itself and one for each link it had.
Stop(o) ==
    /\ o \in Servers
    /\ ~Seen(o, "SVR_START_FAILED", 0)
    /\ \E n \in 1..(MaxLinks + 1) :
         recv' = [recv EXCEPT ![o] = @ \o [i \in 1..n |-> Event("SYSTEM_STOP", 0)]]

Next == \E o \in Clients \cup Servers : Post(o) \/ Stop(o)

Spec == Init /\ [][Next]_recv
=============================================================================
