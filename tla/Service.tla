------------------------------- MODULE Service -------------------------------
(***************************************************************************)
(* Service and Logicbase: the logic thread of a server.  It fetches the    *)
(* messages TcpManager posted, turns each into an event marked with the    *)
(* endpoint it belongs to, handles the events one by one, and connects     *)
(* again the clients that failed.                                          *)
(*                                                                         *)
(* TcpManager is its specification, LinkEvents: posted is what it has      *)
(* posted for each object so far.  Time is the number of seconds until the *)
(* next reconnection may run: next_reconn_time_ is not initialised, so it  *)
(* may lie further ahead than the program lives.                           *)
(***************************************************************************)
EXTENDS Integers, Sequences, FiniteSets, SequencesExt

CONSTANTS
    Connectors, Listeners,  \* marks of the endpoints
    Contents,               \* what a packet may be: "login", "signal", "bad" (its header is refused),
                            \* "garbled" (its command does not come out) or any other command
    MaxClients,             \* bound: client objects, the first and those of reconnections
    MaxLinks,               \* bound: links of a server
    Interval,               \* seconds between reconnections: 3, cur_run_time > now + 2
    MaxPosts                \* bound: messages posted in all

ASSUME ServiceConstants ==
    /\ Connectors \cap Listeners = {}
    /\ Interval \in 1..3 /\ "bad" \in Contents
    /\ MaxClients \in Nat /\ MaxLinks \in Nat \ {0} /\ MaxPosts \in Nat

ClientIds == 1..MaxClients
ServerIds == {-k : k \in 1..1}      \* one server object
NoObj == 0

VARIABLES
    posted,           \* what TcpManager has posted, per object (recv of LinkEvents)
    recv_queue_,      \* posted and not fetched
    pc,               \* the logic thread: outside FetchMsg, in its loop, or handling events
    msg_queue_,       \* fetched and not translated
    eventandmsg,      \* FetchMsg's one stEvent
    crashed,          \* the process has ended: TransMsg logged through a packet it does not have
    clients,          \* number of client objects made so far
    endian_map_,      \* objects in use: their endpoint
    reconnect_map_,   \* failed clients that wait for reconnection
    next_reconn_time_,\* seconds until the next reconnection, or Never
    cmd_queue_,       \* events not handled
    logic_obj_map_,   \* links that have a logic object
    seen              \* the events handled so far, per object, and what became of each

net == <<posted, recv_queue_>>
fetch == <<msg_queue_, eventandmsg, crashed>>
maps == <<clients, endian_map_, reconnect_map_, next_reconn_time_>>
app == <<cmd_queue_, logic_obj_map_, seen>>
vars == <<net, pc, fetch, maps, app>>

Tcp == INSTANCE LinkEvents WITH Clients <- ClientIds, Servers <- ServerIds, recv <- posted

Never == 99
\* What pQueueMsg points to: nothing, or a packet that was given back.
NoMsg == [obj |-> NoObj, n |-> 0, content |-> "none"]
Freed == [obj |-> NoObj, n |-> 0, content |-> "freed"]
NewEvent == [obj |-> NoObj, link |-> 0, mark |-> 0, event |-> "DATA", msg |-> NoMsg]

Init ==
    /\ posted = [o \in ClientIds \cup ServerIds |-> <<>>]
    /\ recv_queue_ = <<>>
    /\ pc = "idle"
    /\ msg_queue_ = <<>>
    /\ eventandmsg = NewEvent
    /\ crashed = FALSE
    /\ clients = 0
    /\ endian_map_ = <<>>
    /\ reconnect_map_ = <<>>
    /\ next_reconn_time_ \in {0, Interval, Never}
    /\ cmd_queue_ = <<>>
    /\ logic_obj_map_ = {}
    /\ seen = [o \in ClientIds \cup ServerIds |-> <<>>]

Put(map, o, v) == [x \in DOMAIN map \cup {o} |-> IF x = o THEN v ELSE map[x]]
Erase(map, o) == [x \in DOMAIN map \ {o} |-> map[x]]
Marks(map) == {map[o].mark : o \in DOMAIN map}

-----------------------------------------------------------------------------
(* TcpManager.                                                              *)

\* The objects TcpManager knows.
Added == 1..clients \cup (ServerIds \cap DOMAIN endian_map_)

\* The messages that one step of LinkEvents adds, in the queue the logic thread fetches.  The logic
\* thread looks at that queue and at the clock once per ProcessMsg, so that what happens while
\* it works may as well happen before or after.
NetPost(o) ==
    /\ pc = "idle"
    /\ o \in Added
    /\ Tcp!Post(o) \/ Tcp!Stop(o)
    /\ SumFunction([p \in ClientIds \cup ServerIds |-> Len(posted'[p])]) <= MaxPosts
    /\ \E c \in Contents :
        /\ Tcp!Last(o)'.type # "NET_DATA" => c = "bad"
        /\ recv_queue_' = recv_queue_ \o
             [i \in 1..(Len(posted'[o]) - Len(posted[o])) |->
                 [obj |-> o, n |-> Len(posted[o]) + i, content |-> c,
                  type |-> posted'[o][Len(posted[o]) + i].type,
                  link |-> posted'[o][Len(posted[o]) + i].link]]
    /\ UNCHANGED <<pc, fetch, maps, app>>

\* A server fails to accept: the message names no object.
AcceptFailed ==
    /\ pc = "idle"
    /\ ServerIds \cap DOMAIN endian_map_ # {}
    /\ \A i \in 1..Len(recv_queue_) : recv_queue_[i].obj # NoObj \* bound
    /\ recv_queue_' = Append(recv_queue_, [obj |-> NoObj, n |-> 0, content |-> "bad",
                                           type |-> "SVR_ACCEPT_FAILED", link |-> 0])
    /\ UNCHANGED <<posted, pc, fetch, maps, app>>

-----------------------------------------------------------------------------
(* The endpoints of the application.                                        *)

\* An endpoint is added once; its object is new.
AddConnector(mark, retry) ==
    /\ pc # "trans"
    /\ mark \notin Marks(endian_map_) \cup Marks(reconnect_map_)
    /\ clients < MaxClients
    /\ clients' = clients + 1
    /\ endian_map_' = Put(endian_map_, clients + 1, [mark |-> mark, retry |-> retry])
    /\ UNCHANGED <<net, pc, fetch, reconnect_map_, next_reconn_time_, app>>

\* retry_ of a listener is not initialised, and not read.
AddListener(mark, o) ==
    /\ pc # "trans"
    /\ o \in ServerIds \ DOMAIN endian_map_
    /\ mark \notin Marks(endian_map_)
    /\ endian_map_' = Put(endian_map_, o, [mark |-> mark, retry |-> FALSE])
    /\ UNCHANGED <<net, pc, fetch, clients, reconnect_map_, next_reconn_time_, app>>

-----------------------------------------------------------------------------
(* FetchMsg.                                                                *)

EventOf(type) ==
    CASE type \in {"CLI_START_FAILED", "CLI_ERROR", "CLI_CONNECT_FAILED"} -> "CONNECT_FAIL"
      [] type = "SVR_START_FAILED" -> "LISTEN_FAIL"
      [] type \in {"CLI_CONNECT_OK", "SVR_ACCEPT_OK"} -> "CONNECT"
      [] type \in {"LINK_ERROR", "SYSTEM_STOP"} -> "DISCONNECT"

\* Types that set the event; SVR_ACCEPT_FAILED, SVR_ERROR and unknown ones leave it alone.
Known(type) == type \notin {"SVR_ACCEPT_FAILED", "SVR_ERROR"}

\* Mutant: a connection that could not be made is not made again.
Fails_forget(type) == type \in {"LINK_ERROR", "SYSTEM_STOP"}

\* The types after which a client is connected again.
Fails(type) ==
    type \in {"CLI_START_FAILED", "CLI_ERROR", "CLI_CONNECT_FAILED", "LINK_ERROR", "SYSTEM_STOP"}

\* Mutant: the failed object stays in endian_map_.
AddReConnect_keep(o) ==
    IF o \in ClientIds /\ endian_map_[o].retry /\ o \notin DOMAIN reconnect_map_
    THEN reconnect_map_' = Put(reconnect_map_, o, endian_map_[o]) /\ UNCHANGED endian_map_
    ELSE UNCHANGED <<endian_map_, reconnect_map_>>

\* A client that is to be connected again moves to reconnect_map_.
AddReConnect(o) ==
    IF o \in ClientIds /\ endian_map_[o].retry /\ o \notin DOMAIN reconnect_map_
    THEN /\ reconnect_map_' = Put(reconnect_map_, o, endian_map_[o])
         /\ endian_map_' = Erase(endian_map_, o)
    ELSE UNCHANGED <<endian_map_, reconnect_map_>>

\* Mutant: the messages fetched come back with the next swap of the queues.
FetchMsg_keep ==
    /\ pc = "idle"
    /\ msg_queue_' = recv_queue_
    /\ UNCHANGED recv_queue_
    /\ eventandmsg' = NewEvent
    /\ pc' = "trans"
    /\ UNCHANGED <<posted, crashed, maps, app>>

\* ProcessMsg calls FetchMsg when it has handled the events of the last call.
FetchMsg ==
    /\ pc = "idle"
    /\ msg_queue_' = recv_queue_
    /\ recv_queue_' = <<>>
    /\ eventandmsg' = NewEvent
    /\ pc' = "trans"
    /\ UNCHANGED <<posted, crashed, maps, app>>

\* The event goes to the application; the stEvent keeps what it holds for the next message.
Push(ev) ==
    /\ eventandmsg' = ev
    /\ cmd_queue_' = Append(cmd_queue_, ev)

\* Mutant: what is not for the application goes to it all the same.
Ignore_push(ev) == Push(ev)

\* TransMsg returns false: no event, but the stEvent keeps what was written to it.
Ignore(ev) == eventandmsg' = ev /\ UNCHANGED cmd_queue_

\* decodeMessage makes a new packet, leaves pQueueMsg as it is when the header is refused, or gives
\* back the packet it had made for a command that does not come out.
Decodes(m) == m.content \notin {"bad", "garbled"}
Undecoded(ev, m) == IF m.content = "garbled" THEN [ev EXCEPT !.msg = Freed] ELSE ev

\* One message to one event, or to none.  After a failed decode the log reads the command of
\* pQueueMsg: the thread goes on if there is a packet, or one given back that can still be read.
TransMsg ==
    /\ pc = "trans" /\ msg_queue_ # <<>> /\ ~crashed
    /\ msg_queue_' = Tail(msg_queue_)
    /\ LET m == Head(msg_queue_)
           ev == [eventandmsg EXCEPT !.obj = m.obj, !.link = m.link]
           marked == [ev EXCEPT !.mark = endian_map_[m.obj].mark]
           data == [marked EXCEPT !.event = "DATA"]
       IN
       IF m.obj \notin DOMAIN endian_map_
       THEN Ignore(ev) /\ UNCHANGED <<endian_map_, reconnect_map_>>
       ELSE IF m.type = "NET_DATA"
       THEN /\ IF Decodes(m)
               THEN Push([data EXCEPT !.msg = [obj |-> m.obj, n |-> m.n, content |-> m.content]])
               ELSE Undecoded(data, m).msg # NoMsg /\ Ignore(Undecoded(data, m))
            /\ UNCHANGED <<endian_map_, reconnect_map_>>
       ELSE /\ Push(IF Known(m.type) THEN [marked EXCEPT !.event = EventOf(m.type)] ELSE marked)
            /\ IF Fails(m.type) THEN AddReConnect(m.obj)
               ELSE UNCHANGED <<endian_map_, reconnect_map_>>
    /\ UNCHANGED <<net, pc, crashed, clients, next_reconn_time_, logic_obj_map_, seen>>

\* TransMsg's other outcome: the log reads through a null pointer, or what it reads of a packet
\* given back is no longer there, and the process ends.
Crash ==
    /\ pc = "trans" /\ msg_queue_ # <<>> /\ ~crashed
    /\ LET m == Head(msg_queue_) IN
       /\ m.obj \in DOMAIN endian_map_ /\ m.type = "NET_DATA" /\ ~Decodes(m)
       /\ Undecoded(eventandmsg, m).msg \in {NoMsg, Freed}
    /\ crashed' = TRUE
    /\ UNCHANGED <<net, pc, msg_queue_, eventandmsg, maps, app>>

\* Mutant: the comparison is the other way round.
Due_reversed == next_reconn_time_ > 0

Due == next_reconn_time_ = 0

\* reconnect_map_ is gone through in the order of the ids: the new object of a failed client.
Again(o) == clients + Cardinality({p \in DOMAIN reconnect_map_ : p <= o})

\* At the end of FetchMsg, when the interval is over: a new client object for each one that
\* failed.
RunReConnect ==
    /\ pc = "trans" /\ msg_queue_ = <<>>
    /\ pc' = "events"
    /\ IF Due
       THEN LET new == {Again(o) : o \in DOMAIN reconnect_map_} IN
            /\ clients' = clients + Cardinality(DOMAIN reconnect_map_)
            /\ clients' <= MaxClients \* bound
            /\ next_reconn_time_' = Interval
            /\ endian_map_' = [x \in DOMAIN endian_map_ \cup new |->
                    IF x \in new
                    THEN reconnect_map_[CHOOSE o \in DOMAIN reconnect_map_ : Again(o) = x]
                    ELSE endian_map_[x]]
            /\ reconnect_map_' = <<>>
       ELSE UNCHANGED maps
    /\ UNCHANGED <<net, fetch, app>>

-----------------------------------------------------------------------------
(* The events.                                                              *)

\* What ParseMsg makes of a packet: the application makes a logic object at login; a heartbeat
\* is answered, and any other command handled, by the link's logic object if there is one.
ParseMsg(key, content) ==
    CASE content = "login" -> "login"
      [] content # "login" /\ key \notin logic_obj_map_ -> "lost"
      [] content = "signal" /\ key \in logic_obj_map_ -> "ack"
      [] OTHER -> "parse"

\* ProcessMsg takes the next event and ParseEvent handles it.
ParseEvent ==
    /\ pc = "events" /\ cmd_queue_ # <<>>
    /\ LET ev == Head(cmd_queue_)
           key == <<ev.obj, ev.link>>
           done == IF ev.event = "DATA" THEN ParseMsg(key, ev.msg.content) ELSE "none"
       IN
       /\ cmd_queue_' = Tail(cmd_queue_)
       /\ logic_obj_map_' = CASE ev.event = "DISCONNECT" -> logic_obj_map_ \ {key}
                              [] done = "login" -> logic_obj_map_ \cup {key}
                              [] OTHER -> logic_obj_map_
       /\ seen' = [seen EXCEPT ![ev.obj] = Append(@,
                          [event |-> ev.event, link |-> ev.link, mark |-> ev.mark,
                           n |-> ev.msg.n, done |-> done])]
    /\ UNCHANGED <<net, pc, fetch, maps>>

\* ProcessMsg returns, and its caller may call it again.
ProcessMsg ==
    /\ pc = "events" /\ cmd_queue_ = <<>>
    /\ pc' = "idle"
    /\ UNCHANGED <<net, fetch, maps, app>>

\* A second passes.
Second ==
    /\ pc = "idle"
    /\ next_reconn_time_ \in 1..Interval
    /\ next_reconn_time_' = next_reconn_time_ - 1
    /\ UNCHANGED <<net, pc, fetch, clients, endian_map_, reconnect_map_, app>>

Logic == FetchMsg \/ TransMsg \/ Crash \/ RunReConnect \/ ParseEvent \/ ProcessMsg

Next ==
    \/ \E o \in ClientIds \cup ServerIds : NetPost(o)
    \/ AcceptFailed
    \/ \E m \in Connectors, retry \in BOOLEAN : AddConnector(m, retry)
    \/ \E m \in Listeners, o \in ServerIds : AddListener(m, o)
    \/ Logic
    \/ Second

Spec == Init /\ [][Next]_vars

\* The logic thread keeps calling ProcessMsg and time passes; peers and applications owe nothing.
Fairness == WF_vars(Logic) /\ SF_vars(Second)
FairSpec == Spec /\ Fairness

-----------------------------------------------------------------------------
(* Properties.                                                              *)

Objs == ClientIds \cup ServerIds
Endpoint == [mark : Connectors \cup Listeners, retry : BOOLEAN]

\* Types: the maps hold endpoints, an object is in one of them at most, and only clients wait
\* for reconnection.
TypeOK ==
    /\ crashed \in BOOLEAN /\ clients \in 0..MaxClients
    /\ DOMAIN endian_map_ \subseteq (1..clients) \cup ServerIds
    /\ DOMAIN reconnect_map_ \subseteq 1..clients
    /\ DOMAIN endian_map_ \cap DOMAIN reconnect_map_ = {}
    /\ \A o \in DOMAIN endian_map_ : endian_map_[o] \in Endpoint
    /\ \A o \in DOMAIN reconnect_map_ : reconnect_map_[o] \in Endpoint /\ reconnect_map_[o].retry
    /\ next_reconn_time_ \in (0..Interval) \cup {Never}
    /\ logic_obj_map_ \subseteq Objs \X (0..MaxLinks)

\* A failing client posts up to three messages that each call AddReConnect (its link's end, its
\* own, a stop): its endpoint still has exactly one object or one place in reconnect_map_, so
\* that it is never connected twice nor forgotten.
MarkOnce ==
    LET holders(m) == {o \in DOMAIN endian_map_ : endian_map_[o].mark = m}
                      \cup {o \in DOMAIN reconnect_map_ : reconnect_map_[o].mark = m}
    IN  \A m \in Connectors : \A o, p \in holders(m) : o = p

\* Once the logic thread has fetched the message of its failure, in whatever state it was posted,
\* a client that is to be connected again is out of endian_map_.
DeadIsMoved ==
    \A o \in DOMAIN endian_map_ \cap ClientIds : endian_map_[o].retry =>
        \A j \in 1..Len(posted[o]) :
            posted[o][j].type \notin {"NET_DATA", "CLI_CONNECT_OK"} =>
            \E m \in ToSet(recv_queue_ \o msg_queue_) : m.obj = o /\ m.n = j

\* FetchMsg uses one stEvent: no event the application gets is a leftover, each one stands for a
\* message posted for that object and link, of that kind, and holds that message's packet.
NoStaleEvent ==
    \A i \in 1..Len(cmd_queue_) :
        LET ev == cmd_queue_[i] IN
        /\ ev.obj \in Objs
        /\ \E j \in 1..Len(posted[ev.obj]) :
             LET e == posted[ev.obj][j] IN
             /\ e.link = ev.link
             /\ IF ev.event = "DATA" THEN e.type = "NET_DATA" /\ ev.msg.obj = ev.obj /\ ev.msg.n = j
                ELSE e.type # "NET_DATA" /\ EventOf(e.type) = ev.event

\* Event e may follow the events X of its object: a packet comes between the connection of its
\* link and the end of it, once and in the order posted; a link is connected once; and all events
\* of an object have the same mark.
InSession(X, e) ==
    /\ e.event = "DATA" =>
          /\ \E x \in X : x.link = e.link /\ x.event = "CONNECT"
          /\ \A x \in X : ~(x.link = e.link /\ x.event = "DISCONNECT")
          /\ \A x \in X : x.event = "DATA" => x.n < e.n
    /\ e.event = "CONNECT" =>
          \A x \in X : ~(x.link = e.link /\ x.event \in {"CONNECT", "DISCONNECT"})
    /\ \A x \in X : x.mark = e.mark

\* The application sees a session per link, and the logic object of a link works only after the
\* login.
SessionOrder ==
    \A o \in Objs : \A i \in 1..Len(seen[o]) :
        LET earlier == {seen[o][j] : j \in 1..(i - 1)} IN
        /\ InSession(earlier, seen[o][i])
        /\ seen[o][i].done \in {"ack", "parse"} =>
              \E x \in earlier : x.link = seen[o][i].link /\ x.done = "login"

\* A failed client gets a new object, however its failure falls against the two-second interval,
\* unless a packet that cannot be decoded ends the process first, and if next_reconn_time_
\* happens to begin in the past or near future (and ids last: the bound).
Reconnected ==
    \A o \in ClientIds :
        (o \in DOMAIN reconnect_map_ /\ next_reconn_time_ # Never)
            ~> (\/ o \notin DOMAIN reconnect_map_
                \/ crashed
                \/ clients + Cardinality(DOMAIN reconnect_map_) > MaxClients)

\* Every endpoint has one object or one place among the reconnects, and one of them as soon as
\* its failure has been fetched, whichever of its messages comes first (AddReConnect).
EndpointsKept == MarkOnce /\ DeadIsMoved

\* The application gets the events of each session, in order, once, and no leftover of another
\* (FetchMsg, TransMsg, ProcessMsg).
SessionKept == NoStaleEvent /\ SessionOrder
=============================================================================
