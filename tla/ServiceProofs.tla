---------------------------- MODULE ServiceProofs ----------------------------
(***************************************************************************)
(* The logic thread keeps its endpoints and shows the application sessions *)
(* in order, for any endpoints, contents, links and reconnections, from    *)
(* LinkEvents alone.                                                       *)
(*                                                                         *)
(* EndpointsInv: an object is new until TcpManager knows it, so nothing    *)
(* was posted for it, and what TcpManager posted for a client since its    *)
(* failure is still pending.                                               *)
(*                                                                         *)
(* SessionInv relates, for each object, three sequences: the messages      *)
(* posted (History says in which order they come), those still pending     *)
(* (PendOK: the last ones, in their order), and the events made of the     *)
(* others (EventsOf: those handled and those queued).  Each event was made *)
(* of a message that is no longer pending (Sound) and each message of a    *)
(* known object that is not a packet and no longer pending was made an     *)
(* event (Complete); so what History says of the next message, InSession   *)
(* says of its event.                                                      *)
(***************************************************************************)
EXTENDS Service, LogicObj, FiniteSetTheorems, SequenceTheorems, TLAPS

-----------------------------------------------------------------------------
(* The invariants.                                                          *)

ClientTypes == {"CLI_START_FAILED", "CLI_CONNECT_FAILED", "CLI_CONNECT_OK", "NET_DATA",
                "SYSTEM_STOP", "CLI_ERROR"}
ServerTypes == {"SVR_START_FAILED", "SVR_ACCEPT_OK", "NET_DATA", "SYSTEM_STOP"}
Types == ClientTypes \cup ServerTypes \cup {"SVR_ACCEPT_FAILED", "none"}

LinkNumbers == 0..MaxLinks
Posting == [type : Types, link : LinkNumbers]
Message == [obj : Objs \cup {NoObj}, n : Nat, content : Contents, type : Types, link : LinkNumbers]
Packet == [obj : Objs \cup {NoObj}, n : Nat, content : Contents \cup {"none", "freed"}]
StEvent == [obj : Objs \cup {NoObj}, link : LinkNumbers, mark : Connectors \cup Listeners \cup {0},
            event : {"CONNECT_FAIL", "LISTEN_FAIL", "CONNECT", "DISCONNECT", "DATA"}, msg : Packet]
Handled == [event : {"CONNECT_FAIL", "LISTEN_FAIL", "CONNECT", "DISCONNECT", "DATA"}, link : LinkNumbers,
            mark : Connectors \cup Listeners \cup {0}, n : Nat,
            done : {"login", "lost", "ack", "parse", "none"}]

\* Types of the logic thread, and which of the two queues of messages is in use.
LogicTypes ==
    /\ posted \in [Objs -> Seq(Posting)]
    /\ recv_queue_ \in Seq(Message) /\ msg_queue_ \in Seq(Message)
    /\ pc \in {"idle", "trans", "events"}
    /\ pc # "trans" => msg_queue_ = <<>>
    /\ pc # "idle" => recv_queue_ = <<>>
    /\ eventandmsg \in StEvent /\ crashed \in BOOLEAN
    /\ cmd_queue_ \in Seq(StEvent)
    /\ seen \in [Objs -> Seq(Handled)]
    /\ logic_obj_map_ \subseteq Objs \X LinkNumbers

\* Types of the endpoints, and what a new object starts with.
MapTypes ==
    /\ clients \in 0..MaxClients /\ next_reconn_time_ \in (0..Interval) \cup {Never}
    /\ DOMAIN endian_map_ \subseteq (1..clients) \cup ServerIds
    /\ DOMAIN reconnect_map_ \subseteq 1..clients
    /\ DOMAIN endian_map_ \cap DOMAIN reconnect_map_ = {}
    /\ endian_map_ \in [DOMAIN endian_map_ -> Endpoint]
    /\ reconnect_map_ \in [DOMAIN reconnect_map_ -> Endpoint]
    /\ \A o \in DOMAIN reconnect_map_ : reconnect_map_[o].retry
    /\ \A o \in ClientIds : o > clients => posted[o] = <<>>
    /\ \A o \in ServerIds : o \notin DOMAIN endian_map_ => posted[o] = <<>>

Opens(type) == type \in {"CLI_CONNECT_OK", "SVR_ACCEPT_OK"}

\* What LinkEvents says of the messages p of an object.
History(o, p) ==
    /\ \A i \in 1..Len(p) : p[i].type \in IF o \in ClientIds THEN ClientTypes ELSE ServerTypes
    /\ \A i \in 1..Len(p) : p[i].type = "NET_DATA" =>
          /\ \E j \in 1..(i - 1) : Opens(p[j].type) /\ p[j].link = p[i].link
          /\ \A j \in 1..(i - 1) : ~(p[j].type = "SYSTEM_STOP" /\ p[j].link = p[i].link)
    /\ \A i \in 1..Len(p) : Opens(p[i].type) =>
          /\ p[i].link # 0
          /\ \A j \in 1..(i - 1) :
                p[j].link = p[i].link => ~Opens(p[j].type) /\ p[j].type # "SYSTEM_STOP"
    /\ \A i \in 1..Len(p) : p[i].type = "SYSTEM_STOP" /\ p[i].link # 0 =>
          \E j \in 1..(i - 1) : Opens(p[j].type) /\ p[j].link = p[i].link

\* The messages the logic thread has yet to translate.
Queue == IF pc = "trans" THEN msg_queue_ ELSE recv_queue_

Pending(q, o, n) == \E i \in 1..Len(q) : q[i].obj = o /\ q[i].n = n

\* They are messages posted, in their order, and all those after the first of an object.
PendOK(q, p) ==
    /\ \A i \in 1..Len(q) : q[i].obj \in Objs =>
          /\ q[i].n \in 1..Len(p[q[i].obj])
          /\ p[q[i].obj][q[i].n].type = q[i].type /\ p[q[i].obj][q[i].n].link = q[i].link
    /\ \A i, j \in 1..Len(q) : i < j /\ q[i].obj = q[j].obj /\ q[i].obj \in Objs => q[i].n < q[j].n
    /\ \A i \in 1..Len(q) : q[i].obj \in Objs =>
          \A n \in q[i].n..Len(p[q[i].obj]) :
             \E j \in i..Len(q) : q[j].obj = q[i].obj /\ q[j].n = n

\* What InSession looks at in an event handled, and in one queued.
Seen(e) == [event |-> e.event, link |-> e.link, mark |-> e.mark, n |-> e.n]
Made(ev) == [event |-> ev.event, link |-> ev.link, mark |-> ev.mark, n |-> ev.msg.n]

\* The first i events handled, and those of o among the first i queued.
SeenTo(s, i) == {Seen(s[j]) : j \in 1..i}
MadeTo(q, o, i) == {Made(q[j]) : j \in {x \in 1..i : q[x].obj = o}}
EventsOf(s, q, o) == SeenTo(s, Len(s)) \cup MadeTo(q, o, Len(q))

\* Every event was made of a message that is no longer pending.
Sound(X, o, p, q) ==
    \A x \in X : \E j \in 1..Len(p) :
        /\ ~Pending(q, o, j)
        /\ p[j].link = x.link
        /\ IF x.event = "DATA" THEN p[j].type = "NET_DATA" /\ x.n = j
           ELSE p[j].type # "NET_DATA" /\ EventOf(p[j].type) = x.event

\* Every message that is not a packet and no longer pending was made an event.
Complete(X, o, p, q) ==
    \A j \in 1..Len(p) : p[j].type # "NET_DATA" /\ ~Pending(q, o, j) =>
        \E x \in X : x.link = p[j].link /\ x.event = EventOf(p[j].type)

\* The events of each object and its messages.
EventsMade ==
    \A o \in Objs :
        LET X == EventsOf(seen[o], cmd_queue_, o) IN
        /\ Sound(X, o, posted[o], Queue)
        /\ o \in DOMAIN endian_map_ =>
              /\ Complete(X, o, posted[o], Queue)
              /\ \A x \in X : x.mark = endian_map_[o].mark

\* The events come in the order of a session, those handled and those queued.
EventsOrdered ==
    /\ \A o \in Objs : \A i \in 1..Len(seen[o]) : InSession(SeenTo(seen[o], i - 1), Seen(seen[o][i]))
    /\ \A i \in 1..Len(cmd_queue_) :
          LET o == cmd_queue_[i].obj IN
          InSession(SeenTo(seen[o], Len(seen[o])) \cup MadeTo(cmd_queue_, o, i - 1),
                    Made(cmd_queue_[i]))

\* A link that has a logic object has seen the login.
LoginSeen ==
    /\ \A key \in logic_obj_map_ : \E j \in 1..Len(seen[key[1]]) :
          seen[key[1]][j].link = key[2] /\ seen[key[1]][j].done = "login"
    /\ \A o \in Objs : \A i \in 1..Len(seen[o]) : seen[o][i].done \in {"ack", "parse"} =>
          \E j \in 1..(i - 1) : seen[o][j].link = seen[o][i].link /\ seen[o][j].done = "login"

\* A queued packet is the one its event was made of.
PacketsMade ==
    \A i \in 1..Len(cmd_queue_) :
        /\ cmd_queue_[i].obj \in Objs
        /\ cmd_queue_[i].event = "DATA" => cmd_queue_[i].msg.obj = cmd_queue_[i].obj

PostedInv == /\ \A o \in Objs : History(o, posted[o])
             /\ PendOK(Queue, posted)

SessionInv == EventsMade /\ EventsOrdered /\ LoginSeen

-----------------------------------------------------------------------------
(* Constants and sequences.                                                 *)

LEMMA ObjIds ==
    /\ MaxClients \in Nat /\ MaxLinks \in Nat /\ MaxLinks > 0 /\ Interval \in 1..3
    /\ ClientIds = 1..MaxClients /\ ServerIds = {-1} /\ Objs = ClientIds \cup ServerIds
    /\ NoObj = 0 /\ NoObj \notin Objs /\ ClientIds \cap ServerIds = {}
    /\ 0 \in LinkNumbers /\ 1 \in LinkNumbers /\ "bad" \in Contents /\ Connectors \cap Listeners = {}
<1>1. MaxClients \in Nat /\ MaxLinks \in Nat \ {0} /\ Interval \in 1..3 /\ "bad" \in Contents
      /\ Connectors \cap Listeners = {}
  BY ServiceConstants
<1>2. ServerIds = {-1}
  BY DEF ServerIds
<1>3. 0 \in LinkNumbers /\ 1 \in LinkNumbers
  BY <1>1 DEF LinkNumbers
<1> QED BY <1>1, <1>2, <1>3 DEF ClientIds, Objs, NoObj

\* One more element at the end.
LEMMA AppendIs ==
    ASSUME NEW S, NEW s \in Seq(S), NEW x \in S
    PROVE  /\ Append(s, x) \in Seq(S) /\ Len(Append(s, x)) = Len(s) + 1 /\ Len(s) \in Nat
           /\ Append(s, x)[Len(s) + 1] = x /\ \A i \in 1..Len(s) : Append(s, x)[i] = s[i]
OBVIOUS

\* One element less at the head.
LEMMA TailIs ==
    ASSUME NEW S, NEW s \in Seq(S), s # <<>>
    PROVE  /\ Head(s) = s[1] /\ Head(s) \in S /\ Len(s) \in Nat /\ Len(s) > 0
           /\ Tail(s) \in Seq(S) /\ Len(Tail(s)) = Len(s) - 1
           /\ \A i \in 1..(Len(s) - 1) : Tail(s)[i] = s[i + 1]
OBVIOUS

\* A sequence after another.
LEMMA ConcatIs ==
    ASSUME NEW S, NEW s \in Seq(S), NEW t \in Seq(S)
    PROVE  /\ s \o t \in Seq(S) /\ Len(s \o t) = Len(s) + Len(t) /\ Len(s) \in Nat /\ Len(t) \in Nat
           /\ \A i \in 1..Len(s) : (s \o t)[i] = s[i]
           /\ \A i \in 1..(Len(s) + Len(t)) : i > Len(s) => (s \o t)[i] = t[i - Len(s)]
           /\ \A i \in 1..Len(t) : (s \o t)[Len(s) + i] = t[i]
OBVIOUS

-----------------------------------------------------------------------------
(* What TcpManager posts.                                                   *)

\* The messages p after one more, e.
PostsOne(o, p, e) ==
    IF o \in ClientIds
    THEN \/ p = <<>> /\ e.type \in {"CLI_START_FAILED", "CLI_CONNECT_FAILED"} /\ e.link = 0
         \/ p = <<>> /\ e.type = "CLI_CONNECT_OK" /\ e.link = 1
         \/ /\ p # <<>> /\ p[Len(p)].type \in {"CLI_CONNECT_OK", "NET_DATA"} /\ p[Len(p)].link = 1
            /\ e.type \in {"NET_DATA", "SYSTEM_STOP"} /\ e.link = 1
         \/ p # <<>> /\ e.type \in {"CLI_ERROR", "SYSTEM_STOP"} /\ e.link = 0
    ELSE \/ e.type \in {"SVR_START_FAILED", "SYSTEM_STOP"} /\ e.link = 0
         \/ /\ e.type = "SVR_ACCEPT_OK" /\ e.link \in 1..MaxLinks
            /\ \A j \in 1..Len(p) : ~(p[j].type = "SVR_ACCEPT_OK" /\ p[j].link = e.link)
         \/ /\ e.type \in {"NET_DATA", "SYSTEM_STOP"} /\ e.link \in 1..MaxLinks
            /\ \E j \in 1..Len(p) : p[j].type = "SVR_ACCEPT_OK" /\ p[j].link = e.link
            /\ \A j \in 1..Len(p) : ~(p[j].type = "SYSTEM_STOP" /\ p[j].link = e.link)

\* What LinkEvents allows TcpManager to post.
LEMMA PostedMore ==
    ASSUME posted \in [Objs -> Seq(Posting)], NEW o \in Objs, Tcp!Post(o) \/ Tcp!Stop(o)
    PROVE  \E a \in Seq(Posting) :
              /\ posted' = [posted EXCEPT ![o] = posted[o] \o a] /\ Len(a) > 0
              /\ \/ \E e \in Posting : a = <<e>> /\ PostsOne(o, posted[o], e)
                 \/ /\ o \notin ClientIds
                    /\ \A i \in 1..Len(a) : a[i].type = "SYSTEM_STOP" /\ a[i].link = 0
<1>0. posted[o] \in Seq(Posting)
  OBVIOUS
<1>e. \A type, k : Tcp!Event(type, k).type = type /\ Tcp!Event(type, k).link = k
  BY DEF Tcp!Event
<1>f. \A type \in Types, k \in LinkNumbers : Tcp!Event(type, k) \in Posting
  BY DEF Tcp!Event, Posting
<1>g. \A e \in Posting : \A type, k : e = Tcp!Event(type, k) <=> e.type = type /\ e.link = k
  BY DEF Tcp!Event, Posting
<1>1. CASE Tcp!Post(o) /\ o \in ClientIds
  <2>1. PICK e \in Tcp!ClientNext(o) : posted' = [posted EXCEPT ![o] = Append(@, e)]
    BY <1>1 DEF Tcp!Post
  <2>2. e \in Posting /\ PostsOne(o, posted[o], e)
    <3>1. 0 \in LinkNumbers /\ 1 \in LinkNumbers
      BY ObjIds
    <3>2. CASE posted[o] = <<>>
      <4>1. e \in {Tcp!Event("CLI_START_FAILED", 0), Tcp!Event("CLI_CONNECT_FAILED", 0),
                   Tcp!Event("CLI_CONNECT_OK", 1)}
        BY <2>1, <3>2 DEF Tcp!ClientNext
      <4>2. e \in Posting
        BY <4>1, <3>1, <1>f DEF Types, ClientTypes
      <4> QED BY <4>1, <4>2, <3>2, <1>e, <1>1 DEF PostsOne
    <3>3. CASE posted[o] # <<>>
      <4> DEFINE last == posted[o][Len(posted[o])]
      <4>1. last \in Posting
        BY <1>0, <3>3
      <4>2. Tcp!Last(o) = last
        BY DEF Tcp!Last
      <4>3. e \in (CASE last \in {Tcp!Event("CLI_CONNECT_OK", 1), Tcp!Event("NET_DATA", 1)} ->
                          {Tcp!Event("NET_DATA", 1), Tcp!Event("SYSTEM_STOP", 1)}
                     [] last = Tcp!Event("SYSTEM_STOP", 1) ->
                          {Tcp!Event("CLI_ERROR", 0), Tcp!Event("SYSTEM_STOP", 0)}
                     [] OTHER -> {})
        BY <2>1, <3>3, <4>2 DEF Tcp!ClientNext
      <4> HIDE DEF last
      <4>4. \/ /\ last \in {Tcp!Event("CLI_CONNECT_OK", 1), Tcp!Event("NET_DATA", 1)}
               /\ e \in {Tcp!Event("NET_DATA", 1), Tcp!Event("SYSTEM_STOP", 1)}
            \/ e \in {Tcp!Event("CLI_ERROR", 0), Tcp!Event("SYSTEM_STOP", 0)}
        BY <4>3
      <4>5. CASE e \in {Tcp!Event("CLI_ERROR", 0), Tcp!Event("SYSTEM_STOP", 0)}
        <5>1. e \in Posting
          BY <4>5, <3>1, <1>f DEF Types, ClientTypes
        <5> QED BY <4>5, <5>1, <3>3, <1>e, <1>1 DEF PostsOne
      <4>6. CASE /\ last \in {Tcp!Event("CLI_CONNECT_OK", 1), Tcp!Event("NET_DATA", 1)}
                 /\ e \in {Tcp!Event("NET_DATA", 1), Tcp!Event("SYSTEM_STOP", 1)}
        <5>1. e \in Posting
          BY <4>6, <3>1, <1>f DEF Types, ClientTypes
        <5>2. /\ last.type \in {"CLI_CONNECT_OK", "NET_DATA"} /\ last.link = 1
              /\ e.type \in {"NET_DATA", "SYSTEM_STOP"} /\ e.link = 1
          BY <4>6, <1>e
        <5> QED BY <5>1, <5>2, <3>3, <1>1 DEF PostsOne, last
      <4> QED BY <4>4, <4>5, <4>6
    <3> QED BY <3>2, <3>3
  <2> DEFINE a == <<e>>
  <2>3. a \in Seq(Posting) /\ Len(a) > 0 /\ Append(posted[o], e) = posted[o] \o a
    BY <1>0, <2>2
  <2>4. \E e1 \in Posting : a = <<e1>> /\ PostsOne(o, posted[o], e1)
    BY <2>2
  <2>5. posted' = [posted EXCEPT ![o] = posted[o] \o a]
    BY <2>1, <2>3
  <2> HIDE DEF a
  <2> QED BY <2>3, <2>4, <2>5
<1>2. CASE Tcp!Post(o) /\ o \notin ClientIds
  <2>1. PICK e \in Tcp!ServerNext(o) : posted' = [posted EXCEPT ![o] = Append(@, e)]
    BY <1>2 DEF Tcp!Post
  <2>s. \A type, k : Tcp!Seen(o, type, k) <=>
           \E j \in 1..Len(posted[o]) : posted[o][j].type = type /\ posted[o][j].link = k
    <3>1. \A j \in 1..Len(posted[o]) : posted[o][j] \in Posting
      BY <1>0
    <3> QED BY <3>1, <1>g DEF Tcp!Seen
  <2>2. \/ e = Tcp!Event("SVR_START_FAILED", 0)
        \/ \E k \in 1..MaxLinks : ~Tcp!Seen(o, "SVR_ACCEPT_OK", k) /\ e = Tcp!Event("SVR_ACCEPT_OK", k)
        \/ \E type \in {"NET_DATA", "SYSTEM_STOP"}, k \in 1..MaxLinks :
              /\ Tcp!Seen(o, "SVR_ACCEPT_OK", k) /\ ~Tcp!Seen(o, "SYSTEM_STOP", k)
              /\ e = Tcp!Event(type, k)
    BY <2>1 DEF Tcp!ServerNext, Tcp!Accepted, Tcp!Alive, Tcp!LinkIds
  <2>3. e \in Posting /\ PostsOne(o, posted[o], e)
    <3>1. 0 \in LinkNumbers /\ \A k \in 1..MaxLinks : k \in LinkNumbers
      BY ObjIds DEF LinkNumbers
    <3>2. CASE e = Tcp!Event("SVR_START_FAILED", 0)
      <4>1. e \in Posting
        BY <3>1, <3>2, <1>f DEF Types, ServerTypes
      <4> QED BY <4>1, <3>2, <1>2, <1>e DEF PostsOne
    <3>3. ASSUME NEW k \in 1..MaxLinks, ~Tcp!Seen(o, "SVR_ACCEPT_OK", k),
                 e = Tcp!Event("SVR_ACCEPT_OK", k)
          PROVE  e \in Posting /\ PostsOne(o, posted[o], e)
      <4>1. e \in Posting
        BY <3>1, <3>3, <1>f DEF Types, ServerTypes
      <4>2. e.type = "SVR_ACCEPT_OK" /\ e.link = k
        BY <3>3, <1>e
      <4>3. \A j \in 1..Len(posted[o]) :
               ~(posted[o][j].type = "SVR_ACCEPT_OK" /\ posted[o][j].link = k)
        BY <3>3, <2>s
      <4> QED BY <4>1, <4>2, <4>3, <1>2 DEF PostsOne
    <3>4. ASSUME NEW type \in {"NET_DATA", "SYSTEM_STOP"}, NEW k \in 1..MaxLinks,
                 Tcp!Seen(o, "SVR_ACCEPT_OK", k), ~Tcp!Seen(o, "SYSTEM_STOP", k),
                 e = Tcp!Event(type, k)
          PROVE  e \in Posting /\ PostsOne(o, posted[o], e)
      <4>1. e \in Posting
        BY <3>1, <3>4, <1>f DEF Types, ServerTypes
      <4>2. e.type \in {"NET_DATA", "SYSTEM_STOP"} /\ e.link = k
        BY <3>4, <1>e
      <4>3. /\ \E j \in 1..Len(posted[o]) :
                  posted[o][j].type = "SVR_ACCEPT_OK" /\ posted[o][j].link = k
            /\ \A j \in 1..Len(posted[o]) :
                  ~(posted[o][j].type = "SYSTEM_STOP" /\ posted[o][j].link = k)
        BY <3>4, <2>s
      <4> QED BY <4>1, <4>2, <4>3, <1>2 DEF PostsOne
    <3> QED BY <2>2, <3>2, <3>3, <3>4
  <2> DEFINE a == <<e>>
  <2>4. a \in Seq(Posting) /\ Len(a) > 0 /\ Append(posted[o], e) = posted[o] \o a
    BY <1>0, <2>3
  <2>5. \E e1 \in Posting : a = <<e1>> /\ PostsOne(o, posted[o], e1)
    BY <2>3
  <2>6. posted' = [posted EXCEPT ![o] = posted[o] \o a]
    BY <2>1, <2>4
  <2> HIDE DEF a
  <2> QED BY <2>4, <2>5, <2>6
<1>3. CASE Tcp!Stop(o)
  <2>1. o \in ServerIds
    BY <1>3 DEF Tcp!Stop
  <2>2. PICK n \in 1..(MaxLinks + 1) :
            posted' = [posted EXCEPT ![o] = @ \o [i \in 1..n |-> Tcp!Event("SYSTEM_STOP", 0)]]
    BY <1>3 DEF Tcp!Stop
  <2> DEFINE e == Tcp!Event("SYSTEM_STOP", 0)
             a == [i \in 1..n |-> e]
  <2>3. e \in Posting /\ e.type = "SYSTEM_STOP" /\ e.link = 0
    BY <1>e, <1>f, ObjIds DEF Types, ServerTypes
  <2>4. posted' = [posted EXCEPT ![o] = posted[o] \o a]
    BY <2>2
  <2> HIDE DEF e
  <2>5. n \in Nat /\ n > 0
    BY ObjIds
  <2>6. a \in Seq(Posting) /\ Len(a) = n /\ \A i \in 1..n : a[i] = e
    BY <2>3, <2>5
  <2> HIDE DEF a
  <2>7. Len(a) > 0 /\ o \notin ClientIds
    BY <2>1, <2>5, <2>6, ObjIds
  <2> QED BY <2>3, <2>4, <2>6, <2>7
<1> QED BY <1>1, <1>2, <1>3

\* One more message keeps the order of the messages of an object.
LEMMA HistoryOne ==
    ASSUME NEW o \in Objs, NEW p \in Seq(Posting), NEW e \in Posting, History(o, p), PostsOne(o, p, e)
    PROVE  History(o, Append(p, e))
<1> DEFINE c == Append(p, e)
           n == Len(p) + 1
<1>1. /\ c \in Seq(Posting) /\ Len(c) = n /\ c[n] = e /\ Len(p) \in Nat
      /\ \A i \in 1..Len(p) : c[i] = p[i]
  BY AppendIs
<1>c. p # <<>> => Len(p) \in 1..Len(p)
  OBVIOUS
<1>d. p = <<>> => Len(p) = 0
  OBVIOUS
<1> HIDE DEF c
<1>2. \A i \in 1..n : (i \in 1..Len(p) /\ c[i] = p[i]) \/ (i = n /\ c[i] = e)
  BY <1>1
<1>3. \A i \in 1..n : \A j \in 1..(i - 1) : j \in 1..Len(p) /\ j \in 1..n /\ c[j] = p[j]
  BY <1>1
<1>4. \A j \in 1..Len(p) : j \in 1..(n - 1)
  BY <1>1
<1>5. \A i \in 1..Len(c) : c[i].type \in IF o \in ClientIds THEN ClientTypes ELSE ServerTypes
  <2>1. e.type \in IF o \in ClientIds THEN ClientTypes ELSE ServerTypes
    BY DEF PostsOne, ClientTypes, ServerTypes
  <2> QED BY <1>1, <1>2, <2>1 DEF History
\* The kinds of the last one.
<1>6. e.type = "NET_DATA" =>
         /\ \E j \in 1..Len(p) : Opens(p[j].type) /\ p[j].link = e.link
         /\ \A j \in 1..Len(p) : ~(p[j].type = "SYSTEM_STOP" /\ p[j].link = e.link)
  <2> SUFFICES ASSUME e.type = "NET_DATA"
               PROVE  /\ \E j \in 1..Len(p) : Opens(p[j].type) /\ p[j].link = e.link
                      /\ \A j \in 1..Len(p) : ~(p[j].type = "SYSTEM_STOP" /\ p[j].link = e.link)
    OBVIOUS
  <2>1. CASE o \in ClientIds
    <3>1. /\ Len(p) \in 1..Len(p) /\ p[Len(p)].type \in {"CLI_CONNECT_OK", "NET_DATA"}
          /\ p[Len(p)].link = 1 /\ e.link = 1
      BY <2>1, <1>c DEF PostsOne
    <3> DEFINE L == Len(p)
    <3>2. /\ \E j \in 1..L : Opens(p[j].type) /\ p[j].link = 1
          /\ \A j \in 1..(L - 1) : ~(p[j].type = "SYSTEM_STOP" /\ p[j].link = 1)
      <4>1. CASE p[L].type = "CLI_CONNECT_OK"
        <5>1. Opens(p[L].type)
          BY <4>1 DEF Opens
        <5> QED BY <3>1, <5>1 DEF History
      <4>2. CASE p[L].type = "NET_DATA"
        <5>1. \A j \in 1..(L - 1) : j \in 1..L
          BY <1>1
        <5> QED BY <3>1, <4>2, <5>1 DEF History
      <4> QED BY <3>1, <4>1, <4>2
    <3>3. \A j \in 1..L : j \in 1..(L - 1) \/ j = L
      BY <1>1
    <3> QED BY <3>1, <3>2, <3>3
  <2>2. CASE o \notin ClientIds
    BY <2>2 DEF PostsOne, Opens
  <2> QED BY <2>1, <2>2
<1>7. Opens(e.type) =>
         /\ e.link # 0
         /\ \A j \in 1..Len(p) : p[j].link = e.link => ~Opens(p[j].type) /\ p[j].type # "SYSTEM_STOP"
  <2> SUFFICES ASSUME Opens(e.type)
               PROVE  /\ e.link # 0
                      /\ \A j \in 1..Len(p) :
                            p[j].link = e.link => ~Opens(p[j].type) /\ p[j].type # "SYSTEM_STOP"
    OBVIOUS
  <2>1. CASE o \in ClientIds
    BY <2>1, <1>d DEF PostsOne, Opens
  <2>2. CASE o \notin ClientIds
    <3>1. /\ e.type = "SVR_ACCEPT_OK" /\ e.link \in 1..MaxLinks
          /\ \A j \in 1..Len(p) : ~(p[j].type = "SVR_ACCEPT_OK" /\ p[j].link = e.link)
      BY <2>2 DEF PostsOne, Opens
    <3>2. \A j \in 1..Len(p) : Opens(p[j].type) => p[j].type = "SVR_ACCEPT_OK"
      BY <2>2 DEF History, Opens, ServerTypes
    <3>3. e.link # 0
      BY <3>1
    <3>4. \A j \in 1..Len(p) : \A k \in 1..(j - 1) : k \in 1..Len(p)
      BY <1>1
    <3>5. \A j \in 1..Len(p) : p[j].link = e.link => p[j].type # "SYSTEM_STOP"
      BY <3>1, <3>2, <3>3, <3>4 DEF History
    <3> QED BY <3>1, <3>2, <3>3, <3>5
  <2> QED BY <2>1, <2>2
<1>8. e.type = "SYSTEM_STOP" /\ e.link # 0 =>
         \E j \in 1..Len(p) : Opens(p[j].type) /\ p[j].link = e.link
  <2> SUFFICES ASSUME e.type = "SYSTEM_STOP", e.link # 0
               PROVE  \E j \in 1..Len(p) : Opens(p[j].type) /\ p[j].link = e.link
    OBVIOUS
  <2>1. CASE o \in ClientIds
    <3>1. /\ Len(p) \in 1..Len(p) /\ p[Len(p)].type \in {"CLI_CONNECT_OK", "NET_DATA"}
          /\ p[Len(p)].link = 1 /\ e.link = 1
      BY <2>1, <1>c DEF PostsOne
    <3>2. CASE p[Len(p)].type = "CLI_CONNECT_OK"
      BY <3>1, <3>2 DEF Opens
    <3>3. CASE p[Len(p)].type = "NET_DATA"
      <4>1. \A j \in 1..(Len(p) - 1) : j \in 1..Len(p)
        BY <1>1
      <4> QED BY <3>1, <3>3, <4>1 DEF History
    <3> QED BY <3>1, <3>2, <3>3
  <2>2. CASE o \notin ClientIds
    BY <2>2 DEF PostsOne, Opens
  <2> QED BY <2>1, <2>2
<1>9. \A i \in 1..Len(c) : c[i].type = "NET_DATA" =>
          /\ \E j \in 1..(i - 1) : Opens(c[j].type) /\ c[j].link = c[i].link
          /\ \A j \in 1..(i - 1) : ~(c[j].type = "SYSTEM_STOP" /\ c[j].link = c[i].link)
  <2> SUFFICES ASSUME NEW i \in 1..n, c[i].type = "NET_DATA"
               PROVE  /\ \E j \in 1..(i - 1) : Opens(c[j].type) /\ c[j].link = c[i].link
                      /\ \A j \in 1..(i - 1) : ~(c[j].type = "SYSTEM_STOP" /\ c[j].link = c[i].link)
    BY <1>1
  <2>1. CASE i \in 1..Len(p) /\ c[i] = p[i]
    BY <2>1, <1>3 DEF History
  <2>2. CASE i = n /\ c[i] = e
    BY <2>2, <1>3, <1>4, <1>6
  <2> QED BY <1>2, <2>1, <2>2
<1>10. \A i \in 1..Len(c) : Opens(c[i].type) =>
          /\ c[i].link # 0
          /\ \A j \in 1..(i - 1) : c[j].link = c[i].link => ~Opens(c[j].type) /\ c[j].type # "SYSTEM_STOP"
  <2> SUFFICES ASSUME NEW i \in 1..n, Opens(c[i].type)
               PROVE  /\ c[i].link # 0
                      /\ \A j \in 1..(i - 1) :
                            c[j].link = c[i].link => ~Opens(c[j].type) /\ c[j].type # "SYSTEM_STOP"
    BY <1>1
  <2>1. CASE i \in 1..Len(p) /\ c[i] = p[i]
    BY <2>1, <1>3, SMTT(30) DEF History
  <2>2. CASE i = n /\ c[i] = e
    BY <2>2, <1>3, <1>7
  <2> QED BY <1>2, <2>1, <2>2
<1>11. \A i \in 1..Len(c) : c[i].type = "SYSTEM_STOP" /\ c[i].link # 0 =>
          \E j \in 1..(i - 1) : Opens(c[j].type) /\ c[j].link = c[i].link
  <2> SUFFICES ASSUME NEW i \in 1..n, c[i].type = "SYSTEM_STOP", c[i].link # 0
               PROVE  \E j \in 1..(i - 1) : Opens(c[j].type) /\ c[j].link = c[i].link
    BY <1>1
  <2>1. CASE i \in 1..Len(p) /\ c[i] = p[i]
    BY <2>1, <1>3 DEF History
  <2>2. CASE i = n /\ c[i] = e
    BY <2>2, <1>3, <1>4, <1>8
  <2> QED BY <1>2, <2>1, <2>2
<1> QED BY <1>5, <1>9, <1>10, <1>11 DEF History, c

\* So do the ends of a server's links, which name no link.
LEMMA HistoryStops ==
    ASSUME NEW o \in Objs, o \notin ClientIds, NEW p \in Seq(Posting), NEW a \in Seq(Posting), History(o, p),
           \A i \in 1..Len(a) : a[i].type = "SYSTEM_STOP" /\ a[i].link = 0
    PROVE  History(o, p \o a)
<1> DEFINE c == p \o a
<1>1. /\ c \in Seq(Posting) /\ Len(c) = Len(p) + Len(a) /\ Len(p) \in Nat /\ Len(a) \in Nat
      /\ \A i \in 1..Len(p) : c[i] = p[i]
      /\ \A i \in 1..(Len(p) + Len(a)) : i > Len(p) => c[i] = a[i - Len(p)]
  BY ConcatIs
<1> HIDE DEF c
<1>2. \A i \in 1..Len(c) : \/ i \in 1..Len(p) /\ c[i] = p[i]
                           \/ c[i].type = "SYSTEM_STOP" /\ c[i].link = 0
  <2>1. \A i \in 1..(Len(p) + Len(a)) : i > Len(p) => i - Len(p) \in 1..Len(a)
    BY <1>1
  <2>2. \A i \in 1..(Len(p) + Len(a)) : i > Len(p) \/ i \in 1..Len(p)
    BY <1>1
  <2> QED BY <1>1, <2>1, <2>2
<1>3. \A i \in 1..Len(p) : \A j \in 1..(i - 1) : j \in 1..Len(p) /\ c[j] = p[j]
  BY <1>1
<1>4. \A i \in 1..Len(c) : c[i].type \in IF o \in ClientIds THEN ClientTypes ELSE ServerTypes
  BY <1>2 DEF History, ServerTypes
<1>5. \A i \in 1..Len(c) : c[i].type = "NET_DATA" =>
          /\ \E j \in 1..(i - 1) : Opens(c[j].type) /\ c[j].link = c[i].link
          /\ \A j \in 1..(i - 1) : ~(c[j].type = "SYSTEM_STOP" /\ c[j].link = c[i].link)
  <2> SUFFICES ASSUME NEW i \in 1..Len(c), c[i].type = "NET_DATA"
               PROVE  /\ \E j \in 1..(i - 1) : Opens(c[j].type) /\ c[j].link = c[i].link
                      /\ \A j \in 1..(i - 1) : ~(c[j].type = "SYSTEM_STOP" /\ c[j].link = c[i].link)
    OBVIOUS
  <2>1. i \in 1..Len(p) /\ c[i] = p[i]
    BY <1>2
  <2>2. /\ \E j \in 1..(i - 1) : Opens(p[j].type) /\ p[j].link = p[i].link
        /\ \A j \in 1..(i - 1) : ~(p[j].type = "SYSTEM_STOP" /\ p[j].link = p[i].link)
    BY <2>1 DEF History
  <2> QED BY <2>1, <2>2, <1>3
<1>6. \A i \in 1..Len(c) : Opens(c[i].type) =>
          /\ c[i].link # 0
          /\ \A j \in 1..(i - 1) : c[j].link = c[i].link => ~Opens(c[j].type) /\ c[j].type # "SYSTEM_STOP"
  <2> SUFFICES ASSUME NEW i \in 1..Len(c), Opens(c[i].type)
               PROVE  /\ c[i].link # 0
                      /\ \A j \in 1..(i - 1) :
                            c[j].link = c[i].link => ~Opens(c[j].type) /\ c[j].type # "SYSTEM_STOP"
    OBVIOUS
  <2>1. i \in 1..Len(p) /\ c[i] = p[i]
    BY <1>2 DEF Opens
  <2> QED BY <2>1, <1>3 DEF History
<1>7. \A i \in 1..Len(c) : c[i].type = "SYSTEM_STOP" /\ c[i].link # 0 =>
          \E j \in 1..(i - 1) : Opens(c[j].type) /\ c[j].link = c[i].link
  <2> SUFFICES ASSUME NEW i \in 1..Len(c), c[i].type = "SYSTEM_STOP", c[i].link # 0
               PROVE  \E j \in 1..(i - 1) : Opens(c[j].type) /\ c[j].link = c[i].link
    OBVIOUS
  <2>1. i \in 1..Len(p) /\ c[i] = p[i]
    BY <1>2
  <2>2. \E j \in 1..(i - 1) : Opens(p[j].type) /\ p[j].link = p[i].link
    BY <2>1 DEF History
  <2> QED BY <2>1, <2>2, <1>3
<1> QED BY <1>4, <1>5, <1>6, <1>7 DEF History, c

-----------------------------------------------------------------------------
(* The queue of messages.                                                   *)

\* The messages r say that a was posted for object o after the messages p.
Tells(r, o, p, a) ==
    /\ Len(r) = Len(a)
    /\ \A i \in 1..Len(r) : /\ r[i].obj = o /\ r[i].n = Len(p) + i
                            /\ r[i].type = a[i].type /\ r[i].link = a[i].link

\* What was posted up to P is pending in q1 if it is in q; what was posted since is pending.
StaysPending(q, q1, P) ==
    \A x \in Objs : \A j \in 1..Len(P[x]) : Pending(q1, x, j) <=> Pending(q, x, j)
NewPending(q1, o, P, P1) == \A j \in 1..Len(P1[o]) : j > Len(P[o]) => Pending(q1, o, j)

\* Messages posted are pending, in order, and change nothing for the ones before.
LEMMA PendMore ==
    ASSUME NEW P \in [Objs -> Seq(Posting)], NEW q \in Seq(Message), PendOK(q, P), NEW o \in Objs,
           NEW a \in Seq(Posting), NEW r \in Seq(Message), Tells(r, o, P[o], a),
           NEW P1, P1 = [P EXCEPT ![o] = P[o] \o a]
    PROVE  /\ PendOK(q \o r, P1)
           /\ StaysPending(q, q \o r, P) /\ NewPending(q \o r, o, P, P1)
<1> DEFINE c == q \o r
           pa == P[o] \o a
<1>1. /\ c \in Seq(Message) /\ Len(c) = Len(q) + Len(r) /\ Len(q) \in Nat /\ Len(r) \in Nat
      /\ \A i \in 1..Len(q) : c[i] = q[i]
      /\ \A i \in 1..(Len(q) + Len(r)) : i > Len(q) => c[i] = r[i - Len(q)]
      /\ \A i \in 1..Len(r) : c[Len(q) + i] = r[i]
  BY ConcatIs
<1>2. /\ pa \in Seq(Posting) /\ Len(pa) = Len(P[o]) + Len(a) /\ Len(P[o]) \in Nat /\ Len(a) \in Nat
      /\ \A i \in 1..Len(P[o]) : pa[i] = P[o][i]
      /\ \A i \in 1..Len(a) : pa[Len(P[o]) + i] = a[i]
  BY ConcatIs
<1>3. P1[o] = pa /\ \A x \in Objs : x # o => P1[x] = P[x]
  OBVIOUS
<1>4. Len(r) = Len(a)
  BY DEF Tells
<1> HIDE DEF c, pa
<1>q. \A i \in 1..Len(q) : q[i].obj \in Objs =>
         /\ q[i].n \in 1..Len(P[q[i].obj])
         /\ P[q[i].obj][q[i].n].type = q[i].type /\ P[q[i].obj][q[i].n].link = q[i].link
  BY DEF PendOK
<1>n. \A x \in Objs : Len(P[x]) \in Nat
  OBVIOUS
\* Where an element comes from.
<1>5. \A i \in 1..Len(c) : \/ i \in 1..Len(q) /\ c[i] = q[i]
                           \/ /\ i > Len(q) /\ i - Len(q) \in 1..Len(r)
                              /\ c[i].obj = o /\ c[i].n = Len(P[o]) + (i - Len(q))
                              /\ c[i].type = a[i - Len(q)].type /\ c[i].link = a[i - Len(q)].link
  <2>1. \A i \in 1..(Len(q) + Len(r)) : i \in 1..Len(q) \/ (i > Len(q) /\ i - Len(q) \in 1..Len(r))
    BY <1>1
  <2>2. \A k \in 1..Len(r) : /\ r[k].obj = o /\ r[k].n = Len(P[o]) + k
                              /\ r[k].type = a[k].type /\ r[k].link = a[k].link
    BY DEF Tells
  <2>3. \A i \in 1..(Len(q) + Len(r)) : i > Len(q) => i - Len(q) \in 1..Len(r) /\ c[i] = r[i - Len(q)]
    BY <1>1
  <2> QED BY <1>1, <2>1, <2>2, <2>3, ZenonT(60)
<1>6. \A j \in 1..Len(r) : Len(q) + j \in 1..Len(c) /\ c[Len(q) + j].obj = o
                           /\ c[Len(q) + j].n = Len(P[o]) + j
  <2>1. \A j \in 1..Len(r) : r[j].obj = o /\ r[j].n = Len(P[o]) + j
    BY DEF Tells
  <2>2. \A j \in 1..Len(r) : c[Len(q) + j] = r[j]
    BY <1>1
  <2>3. \A j \in 1..Len(r) : Len(q) + j \in 1..Len(c)
    BY <1>1
  <2> QED BY <2>1, <2>2, <2>3
<1>7. \A j \in 1..Len(q) : j \in 1..Len(c)
  BY <1>1
<1>8. \A x \in Objs : \A j \in 1..Len(P[x]) : Pending(c, x, j) <=> Pending(q, x, j)
  <2> SUFFICES ASSUME NEW x \in Objs, NEW j \in 1..Len(P[x])
               PROVE  Pending(c, x, j) <=> Pending(q, x, j)
    OBVIOUS
  <2>1. Pending(q, x, j) => Pending(c, x, j)
    BY <1>1, <1>7 DEF Pending
  <2>2. ASSUME NEW i \in 1..Len(c), c[i].obj = x, c[i].n = j
        PROVE  Pending(q, x, j)
    <3>1. i \in 1..Len(q) /\ c[i] = q[i]
      <4>1. CASE i > Len(q) /\ i - Len(q) \in 1..Len(r) /\ c[i].obj = o /\ c[i].n = Len(P[o]) + (i - Len(q))
        <5>1. x = o /\ j = Len(P[o]) + (i - Len(q)) /\ i - Len(q) > 0
          BY <2>2, <4>1, <1>1
        <5>2. j > Len(P[o])
          BY <5>1, <1>2, <4>1, <1>1
        <5> QED BY <5>1, <5>2, <1>2
      <4> QED BY <1>5, <4>1
    <3> QED BY <2>2, <3>1 DEF Pending
  <2> QED BY <2>1, <2>2 DEF Pending
<1>9. \A j \in 1..Len(pa) : j > Len(P[o]) => Pending(c, o, j)
  <2> SUFFICES ASSUME NEW j \in 1..Len(pa), j > Len(P[o]) PROVE Pending(c, o, j)
    OBVIOUS
  <2>1. j - Len(P[o]) \in 1..Len(r) /\ Len(P[o]) + (j - Len(P[o])) = j
    BY <1>2, <1>4
  <2> QED BY <2>1, <1>6 DEF Pending
<1>10. \A i \in 1..Len(c) : c[i].obj \in Objs =>
          /\ c[i].n \in 1..Len(P1[c[i].obj])
          /\ P1[c[i].obj][c[i].n].type = c[i].type /\ P1[c[i].obj][c[i].n].link = c[i].link
  <2> SUFFICES ASSUME NEW i \in 1..Len(c), c[i].obj \in Objs
               PROVE  /\ c[i].n \in 1..Len(P1[c[i].obj])
                      /\ P1[c[i].obj][c[i].n].type = c[i].type
                      /\ P1[c[i].obj][c[i].n].link = c[i].link
    OBVIOUS
  <2>1. CASE i \in 1..Len(q) /\ c[i] = q[i]
    <3>1. CASE q[i].obj = o
      <4>1. q[i].n \in 1..Len(P[o]) /\ q[i].n \in 1..Len(pa)
        BY <3>1, <2>1, <1>q, <1>2
      <4> QED BY <2>1, <3>1, <4>1, <1>q, <1>2, <1>3, SMTT(30)
    <3>2. CASE q[i].obj # o
      BY <2>1, <3>2, <1>q, <1>3
    <3> QED BY <3>1, <3>2
  <2>2. CASE /\ i > Len(q) /\ i - Len(q) \in 1..Len(r)
             /\ c[i].obj = o /\ c[i].n = Len(P[o]) + (i - Len(q))
             /\ c[i].type = a[i - Len(q)].type /\ c[i].link = a[i - Len(q)].link
    <3>1. Len(P[o]) + (i - Len(q)) \in 1..Len(pa) /\ i - Len(q) \in 1..Len(a)
      BY <2>2, <1>2, <1>4
    <3>2. pa[Len(P[o]) + (i - Len(q))] = a[i - Len(q)]
      BY <3>1, <1>2
    <3> QED BY <2>2, <3>1, <3>2, <1>3
  <2> QED BY <1>5, <2>1, <2>2
<1>11. \A i, j \in 1..Len(c) : i < j /\ c[i].obj = c[j].obj /\ c[i].obj \in Objs => c[i].n < c[j].n
  <2> SUFFICES ASSUME NEW i \in 1..Len(c), NEW j \in 1..Len(c), i < j, c[i].obj = c[j].obj,
                      c[i].obj \in Objs
               PROVE  c[i].n < c[j].n
    OBVIOUS
  <2>1. CASE j \in 1..Len(q) /\ c[j] = q[j]
    <3>1. i \in 1..Len(q) /\ c[i] = q[i]
      BY <2>1, <1>1
    <3> QED BY <2>1, <3>1 DEF PendOK
  <2>2. CASE /\ j > Len(q) /\ j - Len(q) \in 1..Len(r)
             /\ c[j].obj = o /\ c[j].n = Len(P[o]) + (j - Len(q))
    <3>1. CASE i \in 1..Len(q) /\ c[i] = q[i]
      <4>1. c[i].n \in 1..Len(P[o])
        BY <2>2, <3>1, <1>q
      <4> QED BY <2>2, <4>1, <1>2, <1>1
    <3>2. CASE i > Len(q) /\ i - Len(q) \in 1..Len(r) /\ c[i].n = Len(P[o]) + (i - Len(q))
      BY <2>2, <3>2, <1>1, <1>2
    <3> QED BY <1>5, <3>1, <3>2
  <2> QED BY <1>5, <2>1, <2>2
<1>12. \A i \in 1..Len(c) : c[i].obj \in Objs =>
          \A n \in c[i].n..Len(P1[c[i].obj]) : \E j \in i..Len(c) : c[j].obj = c[i].obj /\ c[j].n = n
  <2> SUFFICES ASSUME NEW i \in 1..Len(c), c[i].obj \in Objs, NEW n \in c[i].n..Len(P1[c[i].obj])
               PROVE  \E j \in i..Len(c) : c[j].obj = c[i].obj /\ c[j].n = n
    OBVIOUS
  <2>0. c[i].n \in Nat /\ n \in Nat
    BY <1>10
  <2>1. CASE i \in 1..Len(q) /\ c[i] = q[i] /\ n <= Len(P[q[i].obj])
    <3>1. n \in q[i].n..Len(P[q[i].obj])
      BY <2>0, <2>1, <1>n
    <3>2. PICK j \in i..Len(q) : q[j].obj = q[i].obj /\ q[j].n = n
      BY <2>1, <3>1 DEF PendOK
    <3>3. j \in 1..Len(q) /\ j \in i..Len(c)
      BY <2>1, <1>1
    <3> QED BY <2>1, <3>2, <3>3, <1>1
  <2>2. CASE i \in 1..Len(q) /\ c[i] = q[i] /\ ~(n <= Len(P[q[i].obj]))
    <3>1. q[i].obj = o
      BY <2>2, <2>0, <1>3, <1>n
    <3>2. n \in 1..Len(pa) /\ n - Len(P[o]) \in 1..Len(r) /\ Len(P[o]) + (n - Len(P[o])) = n
      BY <2>0, <2>2, <3>1, <1>3, <1>2, <1>4
    <3>3. Len(q) + (n - Len(P[o])) \in i..Len(c)
      BY <2>2, <3>2, <1>1
    <3> QED BY <2>2, <3>1, <3>2, <3>3, <1>6
  <2>3. CASE /\ i > Len(q) /\ i - Len(q) \in 1..Len(r)
             /\ c[i].obj = o /\ c[i].n = Len(P[o]) + (i - Len(q))
    <3>1. n \in c[i].n..Len(pa)
      BY <2>3, <1>3
    <3>2. n - Len(P[o]) \in 1..Len(r) /\ Len(P[o]) + (n - Len(P[o])) = n
      BY <2>0, <2>3, <3>1, <1>1, <1>2, <1>4
    <3>3. Len(q) + (n - Len(P[o])) \in i..Len(c)
      BY <2>3, <3>1, <3>2, <1>1, <1>2
    <3> QED BY <2>3, <3>2, <3>3, <1>6
  <2> QED BY <1>5, <2>1, <2>2, <2>3
<1>13. PendOK(c, P1)
  BY <1>10, <1>11, <1>12 DEF PendOK
<1> QED BY <1>3, <1>8, <1>9, <1>13 DEF c, StaysPending, NewPending

\* The first message of the queue is translated: what was posted before it no longer waits.
LEMMA PendTail ==
    ASSUME NEW P \in [Objs -> Seq(Posting)], NEW q \in Seq(Message), PendOK(q, P), q # <<>>
    PROVE  /\ PendOK(Tail(q), P)
           /\ \A x \in Objs : \A j : Pending(Tail(q), x, j) <=>
                 Pending(q, x, j) /\ ~(x = q[1].obj /\ j = q[1].n)
           /\ q[1].obj \in Objs =>
                 /\ q[1].n \in 1..Len(P[q[1].obj])
                 /\ P[q[1].obj][q[1].n].type = q[1].type /\ P[q[1].obj][q[1].n].link = q[1].link
                 /\ \A j \in 1..Len(P[q[1].obj]) : ~Pending(q, q[1].obj, j) <=> j < q[1].n
<1> DEFINE t == Tail(q)
<1>1. /\ Len(q) \in Nat /\ Len(q) > 0 /\ t \in Seq(Message) /\ Len(t) = Len(q) - 1
      /\ \A i \in 1..(Len(q) - 1) : t[i] = q[i + 1]
  BY TailIs
<1> HIDE DEF t
<1>2. \A i \in 1..Len(t) : i \in Nat /\ i + 1 \in 1..Len(q) /\ i + 1 > 1 /\ t[i] = q[i + 1]
  BY <1>1
<1>3. \A i \in 1..Len(q) : i = 1 \/ (i - 1 \in 1..Len(t) /\ t[i - 1] = q[i])
  <2>1. \A i \in 1..Len(q) : i = 1 \/ (i - 1 \in 1..Len(t) /\ (i - 1) + 1 = i)
    BY <1>1
  <2> QED BY <2>1, <1>2
<1>4. 1 \in 1..Len(q)
  BY <1>1
<1>5. \A x \in Objs : \A j : Pending(t, x, j) <=>
         Pending(q, x, j) /\ ~(x = q[1].obj /\ j = q[1].n)
  <2> SUFFICES ASSUME NEW x \in Objs, NEW j
               PROVE  Pending(t, x, j) <=> Pending(q, x, j) /\ ~(x = q[1].obj /\ j = q[1].n)
    OBVIOUS
  <2>1. ASSUME NEW i \in 1..Len(t), t[i].obj = x, t[i].n = j
        PROVE  Pending(q, x, j) /\ ~(x = q[1].obj /\ j = q[1].n)
    <3>1. i + 1 \in 1..Len(q) /\ q[i + 1].obj = x /\ q[i + 1].n = j /\ 1 < i + 1
      BY <2>1, <1>2
    <3>2. CASE x = q[1].obj
      <4>1. q[1].n < j /\ q[1].n \in 1..Len(P[x])
        BY <3>1, <3>2, <1>4 DEF PendOK
      <4>2. q[1].n # j
        BY <4>1
      <4> QED BY <3>1, <4>2 DEF Pending
    <3> QED BY <3>1, <3>2 DEF Pending
  <2>2. ASSUME NEW i \in 1..Len(q), q[i].obj = x, q[i].n = j, ~(x = q[1].obj /\ j = q[1].n)
        PROVE  Pending(t, x, j)
    <3>1. i # 1
      BY <2>2
    <3> QED BY <2>2, <3>1, <1>3 DEF Pending
  <2> QED BY <2>1, <2>2 DEF Pending
<1>6. PendOK(t, P)
  <2>1. \A i \in 1..Len(t) : t[i].obj \in Objs =>
           /\ t[i].n \in 1..Len(P[t[i].obj])
           /\ P[t[i].obj][t[i].n].type = t[i].type /\ P[t[i].obj][t[i].n].link = t[i].link
    BY <1>2 DEF PendOK
  <2>2. \A i, j \in 1..Len(t) : i < j /\ t[i].obj = t[j].obj /\ t[i].obj \in Objs => t[i].n < t[j].n
    <3>1. \A i, j \in 1..Len(t) : i < j => i + 1 < j + 1
      BY <1>1
    <3> QED BY <3>1, <1>2, SMTT(30) DEF PendOK
  <2>3. \A i \in 1..Len(t) : t[i].obj \in Objs =>
           \A n \in t[i].n..Len(P[t[i].obj]) : \E j \in i..Len(t) : t[j].obj = t[i].obj /\ t[j].n = n
    <3> SUFFICES ASSUME NEW i \in 1..Len(t), t[i].obj \in Objs, NEW n \in t[i].n..Len(P[t[i].obj])
                 PROVE  \E j \in i..Len(t) : t[j].obj = t[i].obj /\ t[j].n = n
      OBVIOUS
    <3>1. i + 1 \in 1..Len(q) /\ t[i] = q[i + 1] /\ i \in Nat
      BY <1>2
    <3>2. q[i + 1].obj \in Objs /\ n \in q[i + 1].n..Len(P[q[i + 1].obj])
      BY <3>1
    <3>3. PICK j \in (i + 1)..Len(q) : q[j].obj = q[i + 1].obj /\ q[j].n = n
      BY <3>1, <3>2 DEF PendOK
    <3>4. j \in 1..Len(q) /\ j # 1 /\ j - 1 \in i..Len(t)
      BY <3>1, <1>1
    <3> QED BY <3>1, <3>3, <3>4, <1>3
  <2> QED BY <2>1, <2>2, <2>3 DEF PendOK
<1>7. ASSUME q[1].obj \in Objs
      PROVE  /\ q[1].n \in 1..Len(P[q[1].obj])
             /\ P[q[1].obj][q[1].n].type = q[1].type /\ P[q[1].obj][q[1].n].link = q[1].link
             /\ \A j \in 1..Len(P[q[1].obj]) : ~Pending(q, q[1].obj, j) <=> j < q[1].n
  <2>1. /\ q[1].n \in 1..Len(P[q[1].obj])
        /\ P[q[1].obj][q[1].n].type = q[1].type /\ P[q[1].obj][q[1].n].link = q[1].link
    BY <1>7, <1>4 DEF PendOK
  <2>2. \A j \in 1..Len(P[q[1].obj]) : j >= q[1].n => Pending(q, q[1].obj, j)
    <3> SUFFICES ASSUME NEW j \in 1..Len(P[q[1].obj]), j >= q[1].n
                 PROVE  Pending(q, q[1].obj, j)
      OBVIOUS
    <3>1. j \in q[1].n..Len(P[q[1].obj])
      BY <1>7, <2>1
    <3> QED BY <1>7, <3>1, <1>4 DEF PendOK, Pending
  <2>3. \A j \in 1..Len(P[q[1].obj]) : Pending(q, q[1].obj, j) => j >= q[1].n
    <3> SUFFICES ASSUME NEW j \in 1..Len(P[q[1].obj]),
                        NEW i \in 1..Len(q), q[i].obj = q[1].obj, q[i].n = j
                 PROVE  j >= q[1].n
      BY DEF Pending
    <3>1. i = 1 \/ 1 < i
      BY <1>1
    <3>2. 1 < i => q[1].n < j
      BY <1>7, <1>4 DEF PendOK
    <3> QED BY <3>1, <3>2, <2>1
  <2>4. \A j \in 1..Len(P[q[1].obj]) : ~(j >= q[1].n) <=> j < q[1].n
    BY <2>1
  <2> QED BY <2>1, <2>2, <2>3, <2>4
<1> QED BY <1>5, <1>6, <1>7 DEF t

-----------------------------------------------------------------------------
(* The events of an object.                                                 *)

\* A queue with one more event.
LEMMA MadeAppend ==
    ASSUME NEW q \in Seq(StEvent), NEW ev \in StEvent, NEW o
    PROVE  /\ \A i \in 0..Len(q) : MadeTo(Append(q, ev), o, i) = MadeTo(q, o, i)
           /\ MadeTo(Append(q, ev), o, Len(q) + 1) =
                 MadeTo(q, o, Len(q)) \cup (IF ev.obj = o THEN {Made(ev)} ELSE {})
<1> DEFINE c == Append(q, ev)
           n == Len(q) + 1
<1>1. /\ c \in Seq(StEvent) /\ Len(c) = n /\ Len(q) \in Nat /\ c[n] = ev
      /\ \A i \in 1..Len(q) : c[i] = q[i]
  BY AppendIs
<1> HIDE DEF c
<1>2. ASSUME NEW i \in 0..Len(q) PROVE MadeTo(c, o, i) = MadeTo(q, o, i)
  <2>1. \A j \in 1..i : c[j] = q[j]
    BY <1>1
  <2>2. {x \in 1..i : c[x].obj = o} = {x \in 1..i : q[x].obj = o}
    BY <2>1
  <2>3. \A j \in {x \in 1..i : q[x].obj = o} : Made(c[j]) = Made(q[j])
    BY <2>1
  <2> QED BY <2>2, <2>3 DEF MadeTo
<1>3. MadeTo(c, o, n) = MadeTo(c, o, Len(q)) \cup (IF ev.obj = o THEN {Made(ev)} ELSE {})
  <2>1. 1..n = (1..Len(q)) \cup {n}
    BY <1>1
  <2>2. CASE ev.obj = o
    <3>1. {x \in 1..n : c[x].obj = o} = {x \in 1..Len(q) : c[x].obj = o} \cup {n}
      BY <2>1, <2>2, <1>1
    <3> QED BY <2>2, <3>1, <1>1 DEF MadeTo
  <2>3. CASE ev.obj # o
    <3>1. {x \in 1..n : c[x].obj = o} = {x \in 1..Len(q) : c[x].obj = o}
      BY <2>1, <2>3, <1>1
    <3> QED BY <2>3, <3>1, <1>1 DEF MadeTo
  <2> QED BY <2>2, <2>3
<1>4. Len(q) \in 0..Len(q)
  BY <1>1
<1> QED BY <1>2, <1>3, <1>4 DEF c

\* A queue whose first event is taken.
LEMMA MadeTail ==
    ASSUME NEW q \in Seq(StEvent), q # <<>>, NEW o
    PROVE  /\ MadeTo(q, o, 0) = {}
           /\ \A i \in 0..(Len(q) - 1) :
                 MadeTo(q, o, i + 1) = MadeTo(Tail(q), o, i) \cup (IF q[1].obj = o THEN {Made(q[1])} ELSE {})
<1> DEFINE t == Tail(q)
<1>1. /\ Len(q) \in Nat /\ Len(q) > 0 /\ t \in Seq(StEvent) /\ Len(t) = Len(q) - 1
      /\ \A i \in 1..(Len(q) - 1) : t[i] = q[i + 1]
  BY TailIs
<1> HIDE DEF t
<1>2. MadeTo(q, o, 0) = {}
  BY DEF MadeTo
<1>3. ASSUME NEW i \in 0..(Len(q) - 1)
      PROVE  MadeTo(q, o, i + 1) = MadeTo(t, o, i) \cup (IF q[1].obj = o THEN {Made(q[1])} ELSE {})
  <2>1. \A j \in 1..i : j + 1 \in 1..(i + 1) /\ t[j] = q[j + 1]
    BY <1>1, SMTT(30)
  <2>2. \A j \in 1..(i + 1) : j = 1 \/ (j - 1 \in 1..i /\ t[j - 1] = q[j])
    <3>1. \A j \in 1..(i + 1) : j = 1 \/ (j - 1 \in 1..i /\ (j - 1) + 1 = j)
      BY <1>1
    <3> QED BY <3>1, <2>1
  <2>3. 1 \in 1..(i + 1)
    BY <1>1
  <2>4. MadeTo(t, o, i) \subseteq MadeTo(q, o, i + 1)
    <3> SUFFICES ASSUME NEW j \in 1..i, t[j].obj = o
                 PROVE  Made(t[j]) \in MadeTo(q, o, i + 1)
      BY DEF MadeTo
    <3> QED BY <2>1 DEF MadeTo
  <2>5. q[1].obj = o => Made(q[1]) \in MadeTo(q, o, i + 1)
    BY <2>3 DEF MadeTo
  <2>6. ASSUME NEW j \in 1..(i + 1), q[j].obj = o
        PROVE  Made(q[j]) \in MadeTo(t, o, i) \/ (q[1].obj = o /\ Made(q[j]) = Made(q[1]))
    <3>1. CASE j = 1
      BY <2>6, <3>1
    <3>2. CASE j - 1 \in 1..i /\ t[j - 1] = q[j]
      BY <2>6, <3>2 DEF MadeTo
    <3> QED BY <2>2, <3>1, <3>2
  <2>7. MadeTo(q, o, i + 1) \subseteq MadeTo(t, o, i) \cup (IF q[1].obj = o THEN {Made(q[1])} ELSE {})
    BY <2>6 DEF MadeTo
  <2> QED BY <2>4, <2>5, <2>7
<1> QED BY <1>2, <1>3 DEF t

\* One more event handled.
LEMMA SeenMore ==
    ASSUME NEW s \in Seq(Handled), NEW h \in Handled
    PROVE  /\ \A i \in 0..Len(s) : SeenTo(Append(s, h), i) = SeenTo(s, i)
           /\ SeenTo(Append(s, h), Len(s) + 1) = SeenTo(s, Len(s)) \cup {Seen(h)}
<1> DEFINE c == Append(s, h)
           n == Len(s) + 1
<1>1. /\ c \in Seq(Handled) /\ Len(c) = n /\ Len(s) \in Nat /\ c[n] = h
      /\ \A i \in 1..Len(s) : c[i] = s[i]
  BY AppendIs
<1> HIDE DEF c
<1>2. ASSUME NEW i \in 0..Len(s) PROVE SeenTo(c, i) = SeenTo(s, i)
  <2>1. \A j \in 1..i : c[j] = s[j]
    BY <1>1
  <2> QED BY <2>1 DEF SeenTo
<1>3. SeenTo(c, n) = SeenTo(c, Len(s)) \cup {Seen(h)}
  <2>1. 1..n = (1..Len(s)) \cup {n}
    BY <1>1
  <2> QED BY <2>1, <1>1 DEF SeenTo
<1>4. Len(s) \in 0..Len(s)
  BY <1>1
<1> QED BY <1>2, <1>3, <1>4 DEF c

\* The event each message becomes.
LEMMA EventOfIs ==
    \A type \in (ClientTypes \cup ServerTypes) \ {"NET_DATA"} :
        /\ Known(type) /\ EventOf(type) \in {"CONNECT_FAIL", "LISTEN_FAIL", "CONNECT", "DISCONNECT"}
        /\ EventOf(type) = "CONNECT" <=> Opens(type)
        /\ EventOf(type) = "DISCONNECT" <=> type = "SYSTEM_STOP"
        /\ type \in ClientTypes /\ type # "CLI_CONNECT_OK" => Fails(type)
<1> SUFFICES ASSUME NEW type \in (ClientTypes \cup ServerTypes) \ {"NET_DATA"}
             PROVE  /\ Known(type) /\ EventOf(type) \in {"CONNECT_FAIL", "LISTEN_FAIL", "CONNECT", "DISCONNECT"}
                    /\ EventOf(type) = "CONNECT" <=> Opens(type)
                    /\ EventOf(type) = "DISCONNECT" <=> type = "SYSTEM_STOP"
                    /\ type \in ClientTypes /\ type # "CLI_CONNECT_OK" => Fails(type)
  OBVIOUS
<1>1. \/ type \in {"CLI_START_FAILED", "CLI_ERROR", "CLI_CONNECT_FAILED"} \/ type = "SVR_START_FAILED"
      \/ type \in {"CLI_CONNECT_OK", "SVR_ACCEPT_OK"} \/ type = "SYSTEM_STOP"
  BY DEF ClientTypes, ServerTypes
<1>2. Known(type)
  BY <1>1 DEF Known
<1>3. CASE type \in {"CLI_START_FAILED", "CLI_ERROR", "CLI_CONNECT_FAILED"}
  <2>1. EventOf(type) = "CONNECT_FAIL"
    BY <1>3 DEF EventOf
  <2> QED BY <1>2, <1>3, <2>1 DEF Opens, Fails
<1>4. CASE type = "SVR_START_FAILED"
  <2>1. EventOf(type) = "LISTEN_FAIL"
    BY <1>4 DEF EventOf
  <2> QED BY <1>2, <1>4, <2>1 DEF Opens, Fails, ClientTypes
<1>5. CASE type \in {"CLI_CONNECT_OK", "SVR_ACCEPT_OK"}
  <2>1. EventOf(type) = "CONNECT"
    BY <1>5 DEF EventOf
  <2> QED BY <1>2, <1>5, <2>1 DEF Opens, Fails, ClientTypes
<1>6. CASE type = "SYSTEM_STOP"
  <2>1. EventOf(type) = "DISCONNECT"
    BY <1>6 DEF EventOf
  <2> QED BY <1>2, <1>6, <2>1 DEF Opens, Fails
<1> QED BY <1>1, <1>3, <1>4, <1>5, <1>6

\* Event e is made of message n, the first pending one of object o, whose events so far are X.
Follows(X, e, o, p, q, n, mark) ==
    /\ o \in Objs /\ p \in Seq(Posting) /\ History(o, p)
    /\ n \in 1..Len(p) /\ \A j \in 1..Len(p) : ~Pending(q, o, j) <=> j < n
    /\ Sound(X, o, p, q) /\ Complete(X, o, p, q) /\ \A x \in X : x.mark = mark
    /\ e.link = p[n].link /\ e.mark = mark
    /\ e.event = IF p[n].type = "NET_DATA" THEN "DATA" ELSE EventOf(p[n].type)
    /\ p[n].type = "NET_DATA" => e.n = n

\* It follows the events made of the messages before it.
LEMMA NextInSession ==
    ASSUME NEW X, NEW e, NEW o, NEW p, NEW q, NEW n, NEW mark, Follows(X, e, o, p, q, n, mark)
    PROVE  InSession(X, e)
<1> USE DEF Follows
<1>0. n \in Nat /\ Len(p) \in Nat
  OBVIOUS
<1>1. \A j \in 1..Len(p) : p[j].type \in ClientTypes \cup ServerTypes
  BY DEF History
<1>2. \A j \in 1..Len(p) : p[j].type # "NET_DATA" =>
         /\ EventOf(p[j].type) # "DATA"
         /\ EventOf(p[j].type) = "CONNECT" <=> Opens(p[j].type)
         /\ EventOf(p[j].type) = "DISCONNECT" <=> p[j].type = "SYSTEM_STOP"
  BY <1>1, EventOfIs
\* An event stands for a message before this one.
<1>3. \A x \in X : \E j \in 1..(n - 1) :
         /\ j \in 1..Len(p) /\ p[j].link = x.link
         /\ IF x.event = "DATA" THEN p[j].type = "NET_DATA" /\ x.n = j
            ELSE p[j].type # "NET_DATA" /\ EventOf(p[j].type) = x.event
  <2>1. \A j \in 1..Len(p) : j < n => j \in 1..(n - 1)
    BY <1>0
  <2> QED BY <2>1 DEF Sound
\* A message before this one that is not a packet was made an event.
<1>4. \A j \in 1..(n - 1) : p[j].type # "NET_DATA" =>
         \E x \in X : x.link = p[j].link /\ x.event = EventOf(p[j].type)
  <2>1. \A j \in 1..(n - 1) : j \in 1..Len(p) /\ j < n
    BY <1>0
  <2> QED BY <2>1 DEF Complete
<1>5. ASSUME e.event = "DATA"
      PROVE  /\ \E x \in X : x.link = e.link /\ x.event = "CONNECT"
             /\ \A x \in X : ~(x.link = e.link /\ x.event = "DISCONNECT")
             /\ \A x \in X : x.event = "DATA" => x.n < e.n
  <2>1. p[n].type = "NET_DATA" /\ e.n = n
    BY <1>2, <1>5
  <2>2. /\ \E j \in 1..(n - 1) : Opens(p[j].type) /\ p[j].link = e.link
        /\ \A j \in 1..(n - 1) : ~(p[j].type = "SYSTEM_STOP" /\ p[j].link = e.link)
    BY <2>1 DEF History
  <2>3. \A j \in 1..(n - 1) : j \in 1..Len(p) /\ j < n
    BY <1>0
  <2>4. \E x \in X : x.link = e.link /\ x.event = "CONNECT"
    <3>1. PICK j \in 1..(n - 1) : Opens(p[j].type) /\ p[j].link = e.link
      BY <2>2
    <3>2. p[j].type # "NET_DATA"
      BY <3>1 DEF Opens
    <3> QED BY <3>1, <3>2, <2>3, <1>2, <1>4
  <2>5. \A x \in X : ~(x.link = e.link /\ x.event = "DISCONNECT")
    BY <2>2, <1>2, <1>3
  <2>6. \A x \in X : x.event = "DATA" => x.n < e.n
    BY <2>1, <2>3, <1>3
  <2> QED BY <2>4, <2>5, <2>6
<1>6. ASSUME e.event = "CONNECT"
      PROVE  \A x \in X : ~(x.link = e.link /\ x.event \in {"CONNECT", "DISCONNECT"})
  <2>1. p[n].type # "NET_DATA" /\ Opens(p[n].type)
    BY <1>2, <1>6
  <2>2. \A j \in 1..(n - 1) : p[j].link = e.link => ~Opens(p[j].type) /\ p[j].type # "SYSTEM_STOP"
    BY <2>1 DEF History
  <2> QED BY <2>2, <1>2, <1>3
<1> QED BY <1>5, <1>6 DEF InSession

-----------------------------------------------------------------------------
(* The steps.                                                               *)

\* The new object of each failed client: above the ones made so far, and another for each.
LEMMA AgainIs ==
    ASSUME MapTypes
    PROVE  /\ Cardinality(DOMAIN reconnect_map_) \in Nat
           /\ \A o \in DOMAIN reconnect_map_ :
                 Again(o) \in (clients + 1)..(clients + Cardinality(DOMAIN reconnect_map_))
           /\ \A o, p \in DOMAIN reconnect_map_ : Again(o) = Again(p) => o = p
<1> DEFINE D == DOMAIN reconnect_map_
           upto(o) == {p \in D : p <= o}
<1>1. clients \in Nat /\ D \subseteq 1..clients /\ IsFiniteSet(D) /\ \A o \in D : o \in Nat
  <2>1. clients \in Nat /\ D \subseteq 1..clients
    BY ObjIds DEF MapTypes
  <2>2. IsFiniteSet(1..clients)
    BY <2>1, FS_Interval
  <2> QED BY <2>1, <2>2, FS_Subset
<1>2. Cardinality(D) \in Nat
  BY <1>1, FS_CardinalityType
<1>3. \A o \in D : IsFiniteSet(upto(o)) /\ Cardinality(upto(o)) <= Cardinality(D)
  BY <1>1, FS_Subset
<1>4. \A o \in D : Cardinality(upto(o)) \in Nat
  BY <1>3, FS_CardinalityType
<1>5. \A o \in D : Cardinality(upto(o)) > 0
  <2> SUFFICES ASSUME NEW o \in D PROVE Cardinality(upto(o)) > 0
    OBVIOUS
  <2>1. o \in upto(o)
    BY <1>1
  <2>2. Cardinality(upto(o)) # 0
    BY <1>3, <2>1, FS_EmptySet
  <2> QED BY <1>4, <2>2
<1>6. \A o \in D : Again(o) = clients + Cardinality(upto(o))
  BY DEF Again
<1>7. ASSUME NEW o \in D, NEW p \in D, o < p PROVE Cardinality(upto(o)) # Cardinality(upto(p))
  <2>1. upto(o) \subseteq upto(p) /\ p \in upto(p) /\ p \notin upto(o)
    BY <1>1, <1>7
  <2> QED BY <1>3, <2>1, FS_Subset
<1> HIDE DEF D, upto
<1>8. \A o \in D : Again(o) \in (clients + 1)..(clients + Cardinality(D))
  BY <1>1, <1>2, <1>3, <1>4, <1>5, <1>6
<1>9. \A o, p \in D : Again(o) = Again(p) => o = p
  <2> SUFFICES ASSUME NEW o \in D, NEW p \in D, Again(o) = Again(p) PROVE o = p
    OBVIOUS
  <2>1. Cardinality(upto(o)) = Cardinality(upto(p))
    BY <1>1, <1>4, <1>6
  <2>2. o < p \/ p < o \/ o = p
    BY <1>1
  <2> QED BY <1>7, <2>1, <2>2
<1> QED BY <1>2, <1>8, <1>9 DEF D

\* TcpManager posts messages for an object it knows.
LEMMA PostGives ==
    ASSUME LogicTypes, NEW o \in Objs, NetPost(o)
    PROVE  \E a \in Seq(Posting), r \in Seq(Message) :
              /\ posted' = [posted EXCEPT ![o] = posted[o] \o a]
              /\ recv_queue_' = recv_queue_ \o r /\ Tells(r, o, posted[o], a)
              /\ \/ \E e \in Posting : a = <<e>> /\ PostsOne(o, posted[o], e)
                 \/ /\ o \notin ClientIds
                    /\ \A i \in 1..Len(a) : a[i].type = "SYSTEM_STOP" /\ a[i].link = 0
<1>0. posted \in [Objs -> Seq(Posting)] /\ posted[o] \in Seq(Posting)
  BY DEF LogicTypes
<1>1. PICK a \in Seq(Posting) :
              /\ posted' = [posted EXCEPT ![o] = posted[o] \o a] /\ Len(a) > 0
              /\ \/ \E e \in Posting : a = <<e>> /\ PostsOne(o, posted[o], e)
                 \/ /\ o \notin ClientIds
                    /\ \A i \in 1..Len(a) : a[i].type = "SYSTEM_STOP" /\ a[i].link = 0
  BY <1>0, PostedMore DEF NetPost
<1>2. posted'[o] = posted[o] \o a
  BY <1>0, <1>1
<1>3. PICK c \in Contents : recv_queue_' = recv_queue_ \o
             [i \in 1..(Len(posted'[o]) - Len(posted[o])) |->
                 [obj |-> o, n |-> Len(posted[o]) + i, content |-> c,
                  type |-> posted'[o][Len(posted[o]) + i].type,
                  link |-> posted'[o][Len(posted[o]) + i].link]]
  BY DEF NetPost
<1> DEFINE p == posted[o]
           pa == posted'[o]
           r == [i \in 1..(Len(pa) - Len(p)) |->
                   [obj |-> o, n |-> Len(p) + i, content |-> c,
                    type |-> pa[Len(p) + i].type, link |-> pa[Len(p) + i].link]]
<1>4. /\ Len(pa) = Len(p) + Len(a) /\ Len(p) \in Nat /\ Len(a) \in Nat
      /\ \A i \in 1..Len(a) : pa[Len(p) + i] = a[i]
  BY <1>0, <1>2, ConcatIs
<1>5. recv_queue_' = recv_queue_ \o r
  BY <1>3
<1> HIDE DEF p, pa
<1>6. Len(pa) - Len(p) = Len(a)
  BY <1>4
<1>7. ASSUME NEW i \in 1..Len(a)
      PROVE  r[i] \in Message /\ r[i].obj = o /\ r[i].n = Len(p) + i
             /\ r[i].type = a[i].type /\ r[i].link = a[i].link
  <2>1. a[i] \in Posting /\ Len(p) + i \in Nat /\ i \in 1..(Len(pa) - Len(p))
    BY <1>4, <1>6
  <2>2. r[i] = [obj |-> o, n |-> Len(p) + i, content |-> c,
                type |-> pa[Len(p) + i].type, link |-> pa[Len(p) + i].link]
    BY <2>1
  <2>3. pa[Len(p) + i] = a[i]
    BY <1>4
  <2> HIDE DEF r
  <2>4. r[i] = [obj |-> o, n |-> Len(p) + i, content |-> c, type |-> a[i].type, link |-> a[i].link]
    BY <2>2, <2>3
  <2>5. a[i].type \in Types /\ a[i].link \in LinkNumbers
    BY <2>1 DEF Posting
  <2> QED BY <2>1, <2>4, <2>5 DEF Message
<1>8. DOMAIN r = 1..Len(a) /\ r = [i \in 1..Len(a) |-> r[i]]
  BY <1>6
<1> HIDE DEF r
<1>9. r \in Seq(Message) /\ Len(r) = Len(a)
  <2>1. r \in [1..Len(a) -> Message]
    BY <1>7, <1>8
  <2>2. ASSUME NEW n \in Nat, NEW f \in [1..n -> Message] PROVE f \in Seq(Message) /\ Len(f) = n
    OBVIOUS
  <2> QED BY <1>4, <2>1, <2>2
<1>10. Tells(r, o, p, a)
  BY <1>7, <1>9 DEF Tells
<1> QED BY <1>1, <1>5, <1>9, <1>10 DEF p

\* A translated message is dropped, or makes an event of its kind and moves a failed client.
LEMMA TransGives ==
    ASSUME LogicTypes, MapTypes, PostedInv, TransMsg
    PROVE  /\ msg_queue_[1] \in Message /\ eventandmsg' \in StEvent
           /\ \/ /\ msg_queue_[1].obj \in DOMAIN endian_map_ => msg_queue_[1].type = "NET_DATA"
                 /\ UNCHANGED <<cmd_queue_, endian_map_, reconnect_map_>>
              \/ /\ msg_queue_[1].obj \in DOMAIN endian_map_
                 /\ \E ev \in StEvent :
                       /\ cmd_queue_' = Append(cmd_queue_, ev)
                       /\ ev.obj = msg_queue_[1].obj /\ ev.link = msg_queue_[1].link
                       /\ ev.mark = endian_map_[msg_queue_[1].obj].mark
                       /\ ev.event = IF msg_queue_[1].type = "NET_DATA" THEN "DATA"
                                     ELSE EventOf(msg_queue_[1].type)
                       /\ msg_queue_[1].type = "NET_DATA" =>
                             ev.msg.obj = msg_queue_[1].obj /\ ev.msg.n = msg_queue_[1].n
                 /\ IF msg_queue_[1].type # "NET_DATA" /\ Fails(msg_queue_[1].type)
                    THEN AddReConnect(msg_queue_[1].obj)
                    ELSE UNCHANGED <<endian_map_, reconnect_map_>>
<1> DEFINE m == msg_queue_[1]
<1>1. Head(msg_queue_) = m /\ m \in Message /\ pc = "trans" /\ msg_queue_ # <<>>
  <2>1. pc = "trans" /\ msg_queue_ # <<>> /\ msg_queue_ \in Seq(Message)
    BY DEF TransMsg, LogicTypes
  <2> QED BY <2>1, TailIs
<1>2. m.obj \in Objs => m.type \in ClientTypes \cup ServerTypes
  <2>1. PendOK(msg_queue_, posted) /\ posted \in [Objs -> Seq(Posting)]
    BY <1>1 DEF PostedInv, Queue, LogicTypes
  <2>2. m.obj \in Objs => m.n \in 1..Len(posted[m.obj]) /\ posted[m.obj][m.n].type = m.type
    <3>1. 1 \in 1..Len(msg_queue_)
      <4>1. msg_queue_ \in Seq(Message)
        BY DEF LogicTypes
      <4> QED BY <1>1, <4>1, TailIs
    <3> QED BY <2>1, <3>1 DEF PendOK
  <2> QED BY <2>2 DEF PostedInv, History
<1>3. DOMAIN endian_map_ \subseteq Objs /\ \A o \in DOMAIN endian_map_ : endian_map_[o] \in Endpoint
  BY ObjIds DEF MapTypes
<1> DEFINE ev == [eventandmsg EXCEPT !.obj = m.obj, !.link = m.link]
           marked == [ev EXCEPT !.mark = endian_map_[m.obj].mark]
           data == [marked EXCEPT !.event = "DATA"]
           freed == [data EXCEPT !.msg = Freed]
           packet == [data EXCEPT !.msg = [obj |-> m.obj, n |-> m.n, content |-> m.content]]
           link == [marked EXCEPT !.event = EventOf(m.type)]
<1>4. \/ m.obj \notin DOMAIN endian_map_ /\ Ignore(ev) /\ UNCHANGED <<endian_map_, reconnect_map_>>
      \/ /\ m.obj \in DOMAIN endian_map_ /\ m.type = "NET_DATA"
         /\ Ignore(data) \/ Ignore(freed) \/ Push(packet)
         /\ UNCHANGED <<endian_map_, reconnect_map_>>
      \/ /\ m.obj \in DOMAIN endian_map_ /\ m.type # "NET_DATA"
         /\ Push(IF Known(m.type) THEN link ELSE marked)
         /\ IF Fails(m.type) THEN AddReConnect(m.obj) ELSE UNCHANGED <<endian_map_, reconnect_map_>>
  BY <1>1 DEF TransMsg, Undecoded
<1> HIDE DEF m
<1>5. ev \in StEvent /\ ev.obj = m.obj /\ ev.link = m.link
  <2>1. eventandmsg \in StEvent
    BY DEF LogicTypes
  <2> QED BY <1>1, <2>1 DEF StEvent, Message
<1> HIDE DEF ev
<1>6. CASE m.obj \notin DOMAIN endian_map_ /\ Ignore(ev) /\ UNCHANGED <<endian_map_, reconnect_map_>>
  BY <1>1, <1>5, <1>6 DEF Ignore, m
<1>7. ASSUME m.obj \in DOMAIN endian_map_
      PROVE  /\ marked \in StEvent /\ marked.obj = m.obj /\ marked.link = m.link
             /\ marked.mark = endian_map_[m.obj].mark
  <2>1. endian_map_[m.obj].mark \in Connectors \cup Listeners
    BY <1>3, <1>7 DEF Endpoint
  <2> QED BY <1>5, <2>1 DEF StEvent
<1> HIDE DEF marked
<1>8. CASE /\ m.obj \in DOMAIN endian_map_ /\ m.type = "NET_DATA"
           /\ Ignore(data) \/ Ignore(freed) \/ Push(packet)
           /\ UNCHANGED <<endian_map_, reconnect_map_>>
  <2>1. data \in StEvent /\ data.obj = m.obj /\ data.link = m.link
        /\ data.mark = endian_map_[m.obj].mark /\ data.event = "DATA"
    BY <1>7, <1>8 DEF StEvent
  <2> HIDE DEF data
  <2>2. CASE Ignore(data)
    BY <1>1, <1>8, <2>1, <2>2 DEF Ignore, m
  <2>3. CASE Ignore(freed)
    <3>1. Freed \in Packet
      BY DEF Freed, Packet
    <3>2. freed \in StEvent
      BY <2>1, <3>1 DEF StEvent
    <3> HIDE DEF freed
    <3> QED BY <1>1, <1>8, <2>3, <3>2 DEF Ignore, m
  <2>4. CASE Push(packet)
    <3>1. [obj |-> m.obj, n |-> m.n, content |-> m.content] \in Packet
      BY <1>1 DEF Message, Packet
    <3> DEFINE pk == [obj |-> m.obj, n |-> m.n, content |-> m.content]
    <3>2. pk.obj = m.obj /\ pk.n = m.n /\ pk \in Packet
      BY <3>1
    <3> HIDE DEF pk
    <3>3. packet = [data EXCEPT !.msg = pk]
      BY DEF pk
    <3>4. /\ packet \in StEvent /\ packet.obj = m.obj /\ packet.link = m.link
          /\ packet.mark = endian_map_[m.obj].mark /\ packet.event = "DATA" /\ packet.msg = pk
      BY <2>1, <3>2, <3>3 DEF StEvent
    <3> HIDE DEF packet
    <3>5. cmd_queue_' = Append(cmd_queue_, packet) /\ eventandmsg' = packet
      BY <2>4 DEF Push
    <3>6. packet.msg.obj = m.obj /\ packet.msg.n = m.n
      BY <3>2, <3>4
    <3> QED BY <1>1, <1>8, <3>4, <3>5, <3>6 DEF m
  <2> QED BY <1>8, <2>2, <2>3, <2>4
<1>9. CASE /\ m.obj \in DOMAIN endian_map_ /\ m.type # "NET_DATA"
           /\ Push(IF Known(m.type) THEN link ELSE marked)
           /\ IF Fails(m.type) THEN AddReConnect(m.obj) ELSE UNCHANGED <<endian_map_, reconnect_map_>>
  <2>1. /\ Known(m.type)
        /\ EventOf(m.type) \in {"CONNECT_FAIL", "LISTEN_FAIL", "CONNECT", "DISCONNECT"}
    BY <1>2, <1>3, <1>9, EventOfIs
  <2>2. /\ link \in StEvent /\ link.obj = m.obj /\ link.link = m.link
        /\ link.mark = endian_map_[m.obj].mark /\ link.event = EventOf(m.type)
    BY <1>7, <1>9, <2>1 DEF StEvent
  <2> HIDE DEF link
  <2>3. cmd_queue_' = Append(cmd_queue_, link) /\ eventandmsg' = link
    BY <1>9, <2>1 DEF Push
  <2> QED BY <1>1, <1>9, <2>2, <2>3 DEF m
<1> QED BY <1>4, <1>6, <1>8, <1>9

\* An event handled: the next of its object, with what ParseMsg made of its packet.
LEMMA ParseGives ==
    ASSUME LogicTypes, PacketsMade, ParseEvent
    PROVE  \E ev \in StEvent, h \in Handled :
              /\ cmd_queue_ # <<>> /\ ev = cmd_queue_[1] /\ ev.obj \in Objs
              /\ h.event = ev.event /\ h.link = ev.link /\ h.mark = ev.mark /\ h.n = ev.msg.n
              /\ cmd_queue_' = Tail(cmd_queue_)
              /\ seen' = [seen EXCEPT ![ev.obj] = Append(seen[ev.obj], h)]
              /\ h.done \in {"ack", "parse"} => <<ev.obj, ev.link>> \in logic_obj_map_
              /\ \/ logic_obj_map_' \subseteq logic_obj_map_
                 \/ h.done = "login" /\ logic_obj_map_' = logic_obj_map_ \cup {<<ev.obj, ev.link>>}
<1> DEFINE ev == cmd_queue_[1]
           key == <<ev.obj, ev.link>>
           done == IF ev.event = "DATA" THEN ParseMsg(key, ev.msg.content) ELSE "none"
           h == [event |-> ev.event, link |-> ev.link, mark |-> ev.mark, n |-> ev.msg.n, done |-> done]
<1>1. cmd_queue_ # <<>> /\ Head(cmd_queue_) = ev /\ ev \in StEvent /\ ev.obj \in Objs
  <2>1. cmd_queue_ # <<>> /\ cmd_queue_ \in Seq(StEvent)
    BY DEF ParseEvent, LogicTypes
  <2>2. Head(cmd_queue_) = ev /\ ev \in StEvent /\ 1 \in 1..Len(cmd_queue_)
    BY <2>1, TailIs
  <2> QED BY <2>1, <2>2 DEF PacketsMade
<1>2. /\ cmd_queue_' = Tail(cmd_queue_)
      /\ logic_obj_map_' = CASE ev.event = "DISCONNECT" -> logic_obj_map_ \ {key}
                              [] done = "login" -> logic_obj_map_ \cup {key}
                              [] OTHER -> logic_obj_map_
      /\ seen' = [seen EXCEPT ![ev.obj] = Append(@, h)]
  BY <1>1 DEF ParseEvent
<1> HIDE DEF ev
<1>3. /\ done \in {"login", "lost", "ack", "parse", "none"}
      /\ done \in {"ack", "parse"} => key \in logic_obj_map_
      /\ done = "login" => ev.event = "DATA"
  <2>1. /\ ParseMsg(key, ev.msg.content) \in {"login", "lost", "ack", "parse"}
        /\ ParseMsg(key, ev.msg.content) \in {"ack", "parse"} => key \in logic_obj_map_
    <3> DEFINE c == ev.msg.content
    <3> HIDE DEF c
    <3>1. CASE c = "login"
      <4>1. ParseMsg(key, c) = "login"
        BY <3>1 DEF ParseMsg
      <4> QED BY <4>1 DEF c
    <3>2. CASE c # "login" /\ key \notin logic_obj_map_
      <4>1. ParseMsg(key, c) = "lost"
        BY <3>2 DEF ParseMsg
      <4> QED BY <4>1 DEF c
    <3>3. CASE c # "login" /\ key \in logic_obj_map_
      <4>1. ParseMsg(key, c) \in {"ack", "parse"}
        BY <3>3 DEF ParseMsg
      <4> QED BY <3>3, <4>1 DEF c
    <3> QED BY <3>1, <3>2, <3>3
  <2> QED BY <2>1
<1> HIDE DEF done
<1>4. \/ logic_obj_map_' \subseteq logic_obj_map_
      \/ done = "login" /\ logic_obj_map_' = logic_obj_map_ \cup {key}
  BY <1>2, <1>3
<1>5. /\ h \in Handled /\ h.event = ev.event /\ h.link = ev.link /\ h.mark = ev.mark
      /\ h.n = ev.msg.n /\ h.done = done
  BY <1>1, <1>3 DEF StEvent, Packet, Handled
<1>6. seen' = [seen EXCEPT ![ev.obj] = Append(seen[ev.obj], h)]
  BY <1>2
<1> HIDE DEF h
<1> QED BY <1>1, <1>2, <1>3, <1>4, <1>5, <1>6 DEF ev

-----------------------------------------------------------------------------
(* Types.                                                                   *)

LEMMA TypesInit == Init => LogicTypes /\ MapTypes /\ PostedInv
<1> SUFFICES ASSUME Init PROVE LogicTypes /\ MapTypes /\ PostedInv
  OBVIOUS
<1>1. NewEvent \in StEvent
  BY ObjIds DEF NewEvent, NoMsg, StEvent, Packet
<1>2. <<>> \in Seq(Posting) /\ <<>> \in Seq(Message) /\ <<>> \in Seq(StEvent) /\ <<>> \in Seq(Handled)
  OBVIOUS
<1>3. posted \in [Objs -> Seq(Posting)] /\ seen \in [Objs -> Seq(Handled)]
      /\ \A o \in Objs : posted[o] = <<>>
  BY <1>2 DEF Init, Objs
<1>4. LogicTypes
  BY <1>1, <1>2, <1>3 DEF Init, LogicTypes
<1>5. MapTypes
  <2>1. DOMAIN endian_map_ = {} /\ DOMAIN reconnect_map_ = {}
    BY DEF Init
  <2>2. endian_map_ \in [{} -> Endpoint] /\ reconnect_map_ \in [{} -> Endpoint]
    BY DEF Init
  <2>3. clients \in 0..MaxClients /\ next_reconn_time_ \in (0..Interval) \cup {Never}
    BY ObjIds DEF Init
  <2> QED BY <1>3, <2>1, <2>2, <2>3 DEF MapTypes, Objs
<1>6. \A o \in Objs : History(o, posted[o])
  <2>1. \A o \in Objs : Len(posted[o]) = 0
    BY <1>3
  <2> QED BY <2>1 DEF History
<1>7. Len(Queue) = 0
  BY DEF Init, Queue
<1> QED BY <1>4, <1>5, <1>6, <1>7 DEF PostedInv, PendOK

\* What a step leaves alone keeps its type.
LEMMA ServiceFrame ==
    /\ LogicTypes /\ UNCHANGED <<net, pc, fetch, app>> => LogicTypes'
    /\ MapTypes /\ UNCHANGED <<maps, posted>> => MapTypes'
    /\ PostedInv /\ UNCHANGED <<net, pc, fetch>> => PostedInv'
<1>1. LogicTypes /\ UNCHANGED <<net, pc, fetch, app>> => LogicTypes'
  BY DEF LogicTypes, net, fetch, app
<1>2. MapTypes /\ UNCHANGED <<maps, posted>> => MapTypes'
  BY DEF MapTypes, maps
<1>3. PostedInv /\ UNCHANGED <<net, pc, fetch>> => PostedInv'
  <2> SUFFICES ASSUME PostedInv, UNCHANGED <<net, pc, fetch>> PROVE PostedInv'
    OBVIOUS
  <2>1. Queue' = Queue /\ posted' = posted
    BY DEF Queue, net, fetch
  <2> QED BY <2>1 DEF PostedInv
<1> QED BY <1>1, <1>2, <1>3

\* Messages are posted.
LEMMA PostTypes ==
    ASSUME LogicTypes, MapTypes, PostedInv, NEW o \in Objs, NetPost(o)
    PROVE  LogicTypes' /\ MapTypes' /\ PostedInv'
<1>0. /\ posted \in [Objs -> Seq(Posting)] /\ posted[o] \in Seq(Posting) /\ recv_queue_ \in Seq(Message)
      /\ pc = "idle" /\ pc' = "idle"
  BY DEF LogicTypes, NetPost
<1>1. PICK a \in Seq(Posting), r \in Seq(Message) :
              /\ posted' = [posted EXCEPT ![o] = posted[o] \o a]
              /\ recv_queue_' = recv_queue_ \o r /\ Tells(r, o, posted[o], a)
              /\ \/ \E e \in Posting : a = <<e>> /\ PostsOne(o, posted[o], e)
                 \/ /\ o \notin ClientIds
                    /\ \A i \in 1..Len(a) : a[i].type = "SYSTEM_STOP" /\ a[i].link = 0
  BY PostGives
<1>2. posted[o] \o a \in Seq(Posting) /\ recv_queue_ \o r \in Seq(Message)
  BY <1>0, ConcatIs
<1>3. posted' \in [Objs -> Seq(Posting)] /\ posted'[o] = posted[o] \o a
      /\ \A x \in Objs : x # o => posted'[x] = posted[x]
  BY <1>0, <1>1, <1>2
<1>4. LogicTypes'
  BY <1>0, <1>1, <1>2, <1>3 DEF NetPost, LogicTypes, fetch, app
<1>5. MapTypes'
  <2>1. o \in Added
    BY DEF NetPost
  <2>2. \A x \in ClientIds : x > clients => x # o
    BY <2>1, ObjIds DEF Added, MapTypes
  <2>3. \A x \in ServerIds : x \notin DOMAIN endian_map_ => x # o
    BY <2>1, ObjIds DEF Added, MapTypes
  <2>4. ClientIds \subseteq Objs /\ ServerIds \subseteq Objs
    BY DEF Objs
  <2>5. UNCHANGED maps
    BY DEF NetPost
  <2> QED BY <1>3, <2>2, <2>3, <2>4, <2>5 DEF maps, MapTypes
<1>6. \A x \in Objs : History(x, posted'[x])
  <2>1. History(o, posted[o] \o a)
    <3>1. History(o, posted[o])
      BY DEF PostedInv
    <3>2. ASSUME NEW e \in Posting, a = <<e>>, PostsOne(o, posted[o], e)
          PROVE  History(o, posted[o] \o a)
      <4>1. posted[o] \o a = Append(posted[o], e)
        BY <1>0, <3>2
      <4>2. History(o, Append(posted[o], e))
        BY <1>0, <3>1, <3>2, HistoryOne
      <4> QED BY <4>1, <4>2
    <3>3. ASSUME o \notin ClientIds, \A i \in 1..Len(a) : a[i].type = "SYSTEM_STOP" /\ a[i].link = 0
          PROVE  History(o, posted[o] \o a)
      BY <1>0, <3>1, <3>3, HistoryStops
    <3> QED BY <1>1, <3>2, <3>3
  <2> QED BY <1>3, <2>1 DEF PostedInv
<1>7. PendOK(Queue', posted')
  <2>1. PendOK(recv_queue_, posted)
    BY <1>0 DEF PostedInv, Queue
  <2>2. PendOK(recv_queue_ \o r, posted')
    BY <1>0, <1>1, <2>1, PendMore
  <2>3. Queue' = recv_queue_ \o r
    BY <1>0, <1>1 DEF Queue
  <2> QED BY <2>2, <2>3
<1> QED BY <1>4, <1>5, <1>6, <1>7 DEF PostedInv

\* A server fails to accept.
LEMMA AcceptFailedTypes ==
    ASSUME LogicTypes, MapTypes, PostedInv, AcceptFailed
    PROVE  /\ LogicTypes' /\ MapTypes' /\ PostedInv'
           /\ \A o \in Objs : \A j : Pending(Queue', o, j) <=> Pending(Queue, o, j)
<1> DEFINE m == [obj |-> NoObj, n |-> 0, content |-> "bad", type |-> "SVR_ACCEPT_FAILED", link |-> 0]
           q == recv_queue_
<1>1. m \in Message /\ m.obj = NoObj
  BY ObjIds DEF Message, Types
<1>2. /\ q \in Seq(Message) /\ recv_queue_' = Append(q, m) /\ pc = "idle" /\ pc' = "idle"
      /\ UNCHANGED <<posted, pc, fetch, maps, app>>
  BY DEF AcceptFailed, LogicTypes
<1> HIDE DEF m
<1> DEFINE c == Append(q, m)
<1>3. /\ c \in Seq(Message) /\ Len(c) = Len(q) + 1 /\ Len(q) \in Nat /\ c[Len(q) + 1] = m
      /\ \A i \in 1..Len(q) : c[i] = q[i]
  BY <1>1, <1>2, AppendIs
<1>4. recv_queue_' = c /\ Queue' = c /\ Queue = q
  BY <1>2 DEF Queue
<1> HIDE DEF c, q
<1>5. \A i \in 1..Len(c) : c[i].obj \in Objs => i \in 1..Len(q) /\ c[i] = q[i]
  <2>1. \A i \in 1..Len(c) : i \in 1..Len(q) \/ i = Len(q) + 1
    BY <1>3
  <2> QED BY <1>1, <1>3, <2>1, ObjIds
<1>6. \A i \in 1..Len(q) : i \in 1..Len(c) /\ \A j \in i..Len(q) : j \in 1..Len(q) /\ j \in i..Len(c)
  BY <1>3
<1>7. LogicTypes'
  BY <1>2, <1>3, <1>4 DEF LogicTypes, fetch, app
<1>8. MapTypes'
  BY <1>2, ServiceFrame
<1>9. PendOK(c, posted)
  <2>1. PendOK(q, posted)
    BY <1>4 DEF PostedInv
  <2>2. \A i \in 1..Len(c) : c[i].obj \in Objs =>
           /\ c[i].n \in 1..Len(posted[c[i].obj])
           /\ posted[c[i].obj][c[i].n].type = c[i].type /\ posted[c[i].obj][c[i].n].link = c[i].link
    BY <1>5, <2>1 DEF PendOK
  <2>3. \A i, j \in 1..Len(c) : i < j /\ c[i].obj = c[j].obj /\ c[i].obj \in Objs => c[i].n < c[j].n
    BY <1>5, <2>1 DEF PendOK
  <2>4. \A i \in 1..Len(c) : c[i].obj \in Objs =>
           \A n \in c[i].n..Len(posted[c[i].obj]) :
              \E j \in i..Len(c) : c[j].obj = c[i].obj /\ c[j].n = n
    <3> SUFFICES ASSUME NEW i \in 1..Len(c), c[i].obj \in Objs, NEW n \in c[i].n..Len(posted[c[i].obj])
                 PROVE  \E j \in i..Len(c) : c[j].obj = c[i].obj /\ c[j].n = n
      OBVIOUS
    <3>1. i \in 1..Len(q) /\ c[i] = q[i]
      BY <1>5
    <3>2. PICK j \in i..Len(q) : q[j].obj = q[i].obj /\ q[j].n = n
      BY <2>1, <3>1 DEF PendOK
    <3> QED BY <1>3, <1>6, <3>1, <3>2
  <2> QED BY <2>2, <2>3, <2>4 DEF PendOK
<1>10. PostedInv'
  BY <1>2, <1>4, <1>9 DEF PostedInv
<1>11. \A o \in Objs : \A j : Pending(c, o, j) <=> Pending(q, o, j)
  BY <1>3, <1>5, <1>6 DEF Pending
<1> QED BY <1>4, <1>7, <1>8, <1>10, <1>11

\* A map with one endpoint more, and with one less.
LEMMA PutIs ==
    ASSUME NEW f, f \in [DOMAIN f -> Endpoint], NEW o, NEW v \in Endpoint
    PROVE  /\ DOMAIN Put(f, o, v) = DOMAIN f \cup {o} /\ Put(f, o, v) \in [DOMAIN f \cup {o} -> Endpoint]
           /\ Put(f, o, v)[o] = v /\ \A x \in DOMAIN f : x # o => Put(f, o, v)[x] = f[x]
BY DEF Put

LEMMA EraseIs ==
    ASSUME NEW f, f \in [DOMAIN f -> Endpoint], NEW o
    PROVE  /\ DOMAIN Erase(f, o) = DOMAIN f \ {o} /\ Erase(f, o) \in [DOMAIN f \ {o} -> Endpoint]
           /\ \A x \in DOMAIN f \ {o} : Erase(f, o)[x] = f[x]
BY DEF Erase

\* A failed client moves, if it is to be connected again.
LEMMA MoveGives ==
    ASSUME MapTypes, NEW o \in DOMAIN endian_map_, AddReConnect(o)
    PROVE  \/ /\ ~(o \in ClientIds /\ endian_map_[o].retry)
              /\ UNCHANGED <<endian_map_, reconnect_map_>>
           \/ /\ o \in ClientIds /\ endian_map_[o].retry
              /\ reconnect_map_' = Put(reconnect_map_, o, endian_map_[o])
              /\ endian_map_' = Erase(endian_map_, o)
<1>1. o \notin DOMAIN reconnect_map_
  BY DEF MapTypes
<1> QED BY <1>1 DEF AddReConnect

LEMMA MoveTypes ==
    ASSUME MapTypes, NEW o \in DOMAIN endian_map_, AddReConnect(o),
           UNCHANGED <<clients, next_reconn_time_, posted>>
    PROVE  MapTypes'
<1>1. CASE UNCHANGED <<endian_map_, reconnect_map_>>
  BY <1>1 DEF MapTypes
<1>2. CASE /\ o \in ClientIds /\ endian_map_[o].retry
           /\ reconnect_map_' = Put(reconnect_map_, o, endian_map_[o])
           /\ endian_map_' = Erase(endian_map_, o)
  <2>1. /\ endian_map_ \in [DOMAIN endian_map_ -> Endpoint] /\ endian_map_[o] \in Endpoint
        /\ reconnect_map_ \in [DOMAIN reconnect_map_ -> Endpoint]
        /\ DOMAIN endian_map_ \cap DOMAIN reconnect_map_ = {}
    BY DEF MapTypes
  <2>2. /\ DOMAIN reconnect_map_' = DOMAIN reconnect_map_ \cup {o}
        /\ reconnect_map_' \in [DOMAIN reconnect_map_ \cup {o} -> Endpoint]
        /\ reconnect_map_'[o] = endian_map_[o]
        /\ \A x \in DOMAIN reconnect_map_ : x # o => reconnect_map_'[x] = reconnect_map_[x]
    <3> DEFINE v == endian_map_[o]
               g == Put(reconnect_map_, o, v)
    <3>1. v \in Endpoint /\ reconnect_map_ \in [DOMAIN reconnect_map_ -> Endpoint]
      BY <2>1
    <3>2. reconnect_map_' = g
      BY <1>2
    <3> HIDE DEF v
    <3>3. /\ DOMAIN g = DOMAIN reconnect_map_ \cup {o} /\ g \in [DOMAIN reconnect_map_ \cup {o} -> Endpoint]
          /\ g[o] = v /\ \A x \in DOMAIN reconnect_map_ : x # o => g[x] = reconnect_map_[x]
      BY <3>1 DEF Put
    <3> HIDE DEF g
    <3> QED BY <3>2, <3>3 DEF v
  <2>3. /\ DOMAIN endian_map_' = DOMAIN endian_map_ \ {o}
        /\ endian_map_' \in [DOMAIN endian_map_ \ {o} -> Endpoint]
    BY <1>2, <2>1, EraseIs
  <2>4. \A x \in DOMAIN reconnect_map_' : reconnect_map_'[x].retry
    BY <1>2, <2>2 DEF MapTypes
  <2>5. DOMAIN reconnect_map_' \subseteq 1..clients /\ o \notin ServerIds
    BY <1>2, <2>2, ObjIds DEF MapTypes
  <2>6. DOMAIN endian_map_' \subseteq (1..clients) \cup ServerIds
        /\ DOMAIN endian_map_' \cap DOMAIN reconnect_map_' = {}
    BY <2>1, <2>2, <2>3 DEF MapTypes
  <2>7. \A x \in ServerIds : x \notin DOMAIN endian_map_' => posted'[x] = <<>>
    BY <2>3, <2>5 DEF MapTypes
  <2> QED BY <2>2, <2>3, <2>4, <2>5, <2>6, <2>7 DEF MapTypes
<1> QED BY <1>1, <1>2, MoveGives

\* The clients that failed get new objects.
LEMMA AgainGives ==
    ASSUME MapTypes, RunReConnect, ~UNCHANGED maps
    PROVE  \E new :
              /\ DOMAIN endian_map_' = DOMAIN endian_map_ \cup new
              /\ new \subseteq (clients + 1)..clients' /\ clients' \in clients..MaxClients
              /\ \A x \in DOMAIN endian_map_ : x \notin new /\ endian_map_'[x] = endian_map_[x]
              /\ \A x \in new : \E o \in DOMAIN reconnect_map_ :
                    x = Again(o) /\ endian_map_'[x] = reconnect_map_[o]
              /\ endian_map_' = [x \in DOMAIN endian_map_ \cup new |-> endian_map_'[x]]
              /\ reconnect_map_' = <<>> /\ next_reconn_time_' = Interval
<1> DEFINE D == DOMAIN reconnect_map_
           new == {Again(o) : o \in D}
<1>1. /\ clients' = clients + Cardinality(D) /\ clients' <= MaxClients
      /\ next_reconn_time_' = Interval
      /\ endian_map_' = [x \in DOMAIN endian_map_ \cup new |->
              IF x \in new
              THEN reconnect_map_[CHOOSE o \in D : Again(o) = x]
              ELSE endian_map_[x]]
      /\ reconnect_map_' = <<>>
  BY DEF RunReConnect
<1>2. /\ Cardinality(D) \in Nat
      /\ \A o \in D : Again(o) \in (clients + 1)..(clients + Cardinality(D))
      /\ \A o, p \in D : Again(o) = Again(p) => o = p
  BY AgainIs
<1>3. new \subseteq (clients + 1)..clients'
  BY <1>1, <1>2
<1>4. clients \in Nat /\ MaxClients \in Nat
  BY ObjIds DEF MapTypes
<1>5. clients' \in clients..MaxClients
  BY <1>1, <1>2, <1>4
<1>6. \A x \in DOMAIN endian_map_ : x \notin new
  <2>1. \A x \in DOMAIN endian_map_ : x \in 1..clients \/ x = -1
    BY ObjIds DEF MapTypes
  <2>2. \A x \in (clients + 1)..clients' : x \notin 1..clients /\ x # -1
    BY <1>4
  <2> QED BY <1>3, <2>1, <2>2
<1>7. ASSUME NEW x \in new
      PROVE  \E o \in D : x = Again(o) /\ endian_map_'[x] = reconnect_map_[o]
  <2> DEFINE it == CHOOSE o \in D : Again(o) = x
  <2>1. it \in D /\ Again(it) = x
    BY <1>7
  <2>2. endian_map_'[x] = reconnect_map_[it]
    BY <1>1, <1>7
  <2> HIDE DEF it
  <2> QED BY <2>1, <2>2
<1>8. /\ DOMAIN endian_map_' = DOMAIN endian_map_ \cup new
      /\ \A x \in DOMAIN endian_map_ : endian_map_'[x] = endian_map_[x]
      /\ endian_map_' = [x \in DOMAIN endian_map_ \cup new |-> endian_map_'[x]]
  BY <1>1, <1>6
<1> HIDE DEF new
<1> QED BY <1>1, <1>3, <1>5, <1>6, <1>7, <1>8

LEMMA RunReConnectTypes ==
    ASSUME MapTypes, RunReConnect
    PROVE  MapTypes'
<1>0. posted' = posted
  BY DEF RunReConnect, net
<1>1. CASE UNCHANGED maps
  BY <1>0, <1>1, ServiceFrame
<1>2. CASE ~UNCHANGED maps
  <2>1. PICK new :
              /\ DOMAIN endian_map_' = DOMAIN endian_map_ \cup new
              /\ new \subseteq (clients + 1)..clients' /\ clients' \in clients..MaxClients
              /\ \A x \in DOMAIN endian_map_ : x \notin new /\ endian_map_'[x] = endian_map_[x]
              /\ \A x \in new : \E o \in DOMAIN reconnect_map_ :
                    x = Again(o) /\ endian_map_'[x] = reconnect_map_[o]
              /\ endian_map_' = [x \in DOMAIN endian_map_ \cup new |-> endian_map_'[x]]
              /\ reconnect_map_' = <<>> /\ next_reconn_time_' = Interval
    BY <1>2, AgainGives
  <2>2. clients \in Nat /\ MaxClients \in Nat
    BY ObjIds DEF MapTypes
  <2>3. clients' \in 0..MaxClients /\ 1..clients \subseteq 1..clients' /\ new \subseteq 1..clients'
        /\ \A x \in ClientIds : x > clients' => x > clients
    BY <2>1, <2>2, ObjIds
  <2>4. DOMAIN endian_map_' \subseteq (1..clients') \cup ServerIds
    BY <2>1, <2>3 DEF MapTypes
  <2>5. \A x \in DOMAIN endian_map_' : endian_map_'[x] \in Endpoint
    BY <2>1 DEF MapTypes
  <2>6. endian_map_' \in [DOMAIN endian_map_' -> Endpoint]
    BY <2>1, <2>5
  <2>7. DOMAIN reconnect_map_' = {} /\ reconnect_map_' \in [{} -> Endpoint]
    BY <2>1
  <2>8. \A x \in ClientIds : x > clients' => posted'[x] = <<>>
    BY <1>0, <2>3 DEF MapTypes
  <2>9. \A x \in ServerIds : x \notin DOMAIN endian_map_' => posted'[x] = <<>>
    BY <1>0, <2>1 DEF MapTypes
  <2>10. next_reconn_time_' \in (0..Interval) \cup {Never}
    BY <2>1, ObjIds
  <2> QED BY <2>3, <2>4, <2>6, <2>7, <2>8, <2>9, <2>10 DEF MapTypes
<1> QED BY <1>1, <1>2

\* An endpoint is added.
LEMMA AddTypes ==
    ASSUME MapTypes
    PROVE  /\ \A m \in Connectors, retry \in BOOLEAN : AddConnector(m, retry) =>
                 /\ MapTypes' /\ clients + 1 \in ClientIds /\ clients + 1 \notin DOMAIN endian_map_
                 /\ posted[clients + 1] = <<>>
           /\ \A m \in Listeners, o \in ServerIds : AddListener(m, o) => MapTypes'
<1>1. ASSUME NEW m \in Connectors, NEW retry \in BOOLEAN, AddConnector(m, retry)
      PROVE  /\ MapTypes' /\ clients + 1 \in ClientIds /\ clients + 1 \notin DOMAIN endian_map_
             /\ posted[clients + 1] = <<>>
  <2> DEFINE e == [mark |-> m, retry |-> retry]
             x == clients + 1
  <2>1. e \in Endpoint
    BY DEF Endpoint
  <2>2. /\ clients' = x /\ clients < MaxClients /\ endian_map_' = Put(endian_map_, x, e)
        /\ UNCHANGED <<posted, reconnect_map_, next_reconn_time_>>
    BY <1>1 DEF AddConnector, net
  <2> HIDE DEF e
  <2>3. endian_map_ \in [DOMAIN endian_map_ -> Endpoint]
    BY DEF MapTypes
  <2>4. /\ DOMAIN endian_map_' = DOMAIN endian_map_ \cup {x}
        /\ endian_map_' \in [DOMAIN endian_map_ \cup {x} -> Endpoint]
    <3> DEFINE g == Put(endian_map_, x, e)
    <3>1. DOMAIN g = DOMAIN endian_map_ \cup {x} /\ g \in [DOMAIN endian_map_ \cup {x} -> Endpoint]
      BY <2>1, <2>3, PutIs
    <3>2. endian_map_' = g
      BY <2>2
    <3> HIDE DEF g
    <3> QED BY <3>1, <3>2
  <2>5. clients \in Nat /\ MaxClients \in Nat
    BY ObjIds DEF MapTypes
  <2>6. /\ x \in 1..MaxClients /\ x \in 1..x /\ 1..clients \subseteq 1..x /\ x \notin 1..clients
        /\ x # -1 /\ x > clients /\ \A y \in ClientIds : y > x => y > clients
    BY <2>2, <2>5, ObjIds
  <2>7. x \in ClientIds /\ x \notin DOMAIN endian_map_ /\ x \notin DOMAIN reconnect_map_
        /\ posted[x] = <<>>
    BY <2>6, ObjIds DEF MapTypes
  <2>8. clients' \in 0..MaxClients
    BY <2>2, <2>6
  <2> HIDE DEF x
  <2>9. DOMAIN endian_map_' \subseteq (1..clients') \cup ServerIds /\ DOMAIN reconnect_map_' \subseteq 1..clients'
        /\ DOMAIN endian_map_' \cap DOMAIN reconnect_map_' = {}
    BY <2>2, <2>4, <2>6, <2>7 DEF MapTypes
  <2>10. MapTypes'
    BY <2>2, <2>4, <2>6, <2>8, <2>9 DEF MapTypes
  <2> QED BY <2>7, <2>10 DEF x
<1>2. ASSUME NEW m \in Listeners, NEW o \in ServerIds, AddListener(m, o)
      PROVE  MapTypes'
  <2> DEFINE e == [mark |-> m, retry |-> FALSE]
  <2>1. e \in Endpoint
    BY DEF Endpoint
  <2>2. /\ endian_map_' = Put(endian_map_, o, e)
        /\ UNCHANGED <<posted, clients, reconnect_map_, next_reconn_time_>>
    BY <1>2 DEF AddListener, net
  <2> HIDE DEF e
  <2>3. endian_map_ \in [DOMAIN endian_map_ -> Endpoint]
    BY DEF MapTypes
  <2>4. /\ DOMAIN endian_map_' = DOMAIN endian_map_ \cup {o}
        /\ endian_map_' \in [DOMAIN endian_map_ \cup {o} -> Endpoint]
    <3> DEFINE g == Put(endian_map_, o, e)
    <3>1. DOMAIN g = DOMAIN endian_map_ \cup {o} /\ g \in [DOMAIN endian_map_ \cup {o} -> Endpoint]
      BY <2>1, <2>3, PutIs
    <3>2. endian_map_' = g
      BY <2>2
    <3> HIDE DEF g
    <3> QED BY <3>1, <3>2
  <2>5. o \notin DOMAIN reconnect_map_
    BY ObjIds DEF MapTypes
  <2> QED BY <2>2, <2>4, <2>5 DEF MapTypes
<1> QED BY <1>1, <1>2

\* A message is translated.
LEMMA TransTypes ==
    ASSUME LogicTypes, MapTypes, PostedInv, PacketsMade, TransMsg
    PROVE  /\ LogicTypes' /\ MapTypes' /\ PostedInv' /\ PacketsMade'
           /\ Queue = msg_queue_ /\ Queue' = Tail(msg_queue_) /\ msg_queue_ # <<>>
<1>1. /\ pc = "trans" /\ pc' = "trans" /\ msg_queue_ # <<>> /\ msg_queue_' = Tail(msg_queue_)
      /\ msg_queue_ \in Seq(Message) /\ posted \in [Objs -> Seq(Posting)] /\ cmd_queue_ \in Seq(StEvent)
      /\ UNCHANGED <<net, crashed, clients, next_reconn_time_, logic_obj_map_, seen>>
  BY DEF TransMsg, LogicTypes
<1>2. Queue = msg_queue_ /\ Queue' = Tail(msg_queue_)
  BY <1>1 DEF Queue
<1>3. Tail(msg_queue_) \in Seq(Message)
  BY <1>1
<1>4. PostedInv'
  <2>1. PendOK(Tail(msg_queue_), posted)
    BY <1>1, <1>2, PendTail DEF PostedInv
  <2> QED BY <1>1, <1>2, <2>1 DEF PostedInv, net
<1> DEFINE m == msg_queue_[1]
<1>5. DOMAIN endian_map_ \subseteq Objs
  BY ObjIds DEF MapTypes
<1>6. /\ eventandmsg' \in StEvent
      /\ \/ UNCHANGED <<cmd_queue_, endian_map_, reconnect_map_>>
         \/ /\ m.obj \in DOMAIN endian_map_
            /\ \E ev \in StEvent : /\ cmd_queue_' = Append(cmd_queue_, ev) /\ ev.obj = m.obj
                                   /\ ev.event = "DATA" => ev.msg.obj = ev.obj
            /\ AddReConnect(m.obj) \/ UNCHANGED <<endian_map_, reconnect_map_>>
  <2>1. DOMAIN endian_map_ \subseteq Objs
    BY <1>5
  <2>2. m.obj \in Objs => m.type \in ClientTypes \cup ServerTypes
    <3>1. /\ PendOK(msg_queue_, posted) /\ 1 \in 1..Len(msg_queue_)
      BY <1>1, <1>2, TailIs DEF PostedInv
    <3>2. m.obj \in Objs => m.n \in 1..Len(posted[m.obj]) /\ posted[m.obj][m.n].type = m.type
      BY <3>1 DEF PendOK
    <3> QED BY <3>2 DEF PostedInv, History
  <2>3. m.obj \in DOMAIN endian_map_ /\ m.type # "NET_DATA" => EventOf(m.type) # "DATA"
    BY <2>1, <2>2, EventOfIs
  <2> HIDE DEF m
  <2> QED BY <2>3, TransGives DEF m
<1> HIDE DEF m
<1>7. MapTypes'
  <2>1. UNCHANGED <<clients, next_reconn_time_, posted>>
    BY <1>1 DEF net
  <2>2. CASE UNCHANGED <<endian_map_, reconnect_map_>>
    BY <2>1, <2>2 DEF MapTypes
  <2>3. CASE m.obj \in DOMAIN endian_map_ /\ AddReConnect(m.obj)
    BY <2>1, <2>3, MoveTypes
  <2> QED BY <1>6, <2>2, <2>3
<1>8. cmd_queue_' \in Seq(StEvent) /\ PacketsMade'
  <2>1. CASE UNCHANGED cmd_queue_
    BY <1>1, <2>1 DEF PacketsMade
  <2>2. ASSUME NEW ev \in StEvent, cmd_queue_' = Append(cmd_queue_, ev), ev.obj \in Objs,
               ev.event = "DATA" => ev.msg.obj = ev.obj
        PROVE  cmd_queue_' \in Seq(StEvent) /\ PacketsMade'
    <3>1. /\ cmd_queue_' \in Seq(StEvent) /\ Len(cmd_queue_') = Len(cmd_queue_) + 1
          /\ Len(cmd_queue_) \in Nat /\ cmd_queue_'[Len(cmd_queue_) + 1] = ev
          /\ \A i \in 1..Len(cmd_queue_) : cmd_queue_'[i] = cmd_queue_[i]
      BY <1>1, <2>2, AppendIs
    <3>2. \A i \in 1..Len(cmd_queue_') : i \in 1..Len(cmd_queue_) \/ i = Len(cmd_queue_) + 1
      BY <3>1
    <3> QED BY <2>2, <3>1, <3>2 DEF PacketsMade
  <2> QED BY <1>5, <1>6, <2>1, <2>2
<1>9. LogicTypes'
  BY <1>1, <1>3, <1>6, <1>8 DEF LogicTypes, net
<1> QED BY <1>1, <1>2, <1>4, <1>7, <1>8, <1>9

\* An event is handled.
LEMMA ParseTypes ==
    ASSUME LogicTypes, MapTypes, PostedInv, PacketsMade, ParseEvent
    PROVE  LogicTypes' /\ MapTypes' /\ PostedInv' /\ PacketsMade'
<1>0. UNCHANGED <<net, pc, fetch, maps>> /\ cmd_queue_ \in Seq(StEvent) /\ seen \in [Objs -> Seq(Handled)]
      /\ logic_obj_map_ \subseteq Objs \X LinkNumbers
  BY DEF ParseEvent, LogicTypes
<1>1. PICK ev \in StEvent, h \in Handled :
              /\ cmd_queue_ # <<>> /\ ev = cmd_queue_[1] /\ ev.obj \in Objs
              /\ h.event = ev.event /\ h.link = ev.link /\ h.mark = ev.mark /\ h.n = ev.msg.n
              /\ cmd_queue_' = Tail(cmd_queue_)
              /\ seen' = [seen EXCEPT ![ev.obj] = Append(seen[ev.obj], h)]
              /\ h.done \in {"ack", "parse"} => <<ev.obj, ev.link>> \in logic_obj_map_
              /\ \/ logic_obj_map_' \subseteq logic_obj_map_
                 \/ h.done = "login" /\ logic_obj_map_' = logic_obj_map_ \cup {<<ev.obj, ev.link>>}
  BY ParseGives
<1>2. /\ Len(cmd_queue_) \in Nat /\ cmd_queue_' \in Seq(StEvent)
      /\ Len(cmd_queue_') = Len(cmd_queue_) - 1
      /\ \A i \in 1..(Len(cmd_queue_) - 1) : cmd_queue_'[i] = cmd_queue_[i + 1]
  BY <1>0, <1>1, TailIs
<1>3. Append(seen[ev.obj], h) \in Seq(Handled)
  BY <1>0, <1>1
<1>4. seen' \in [Objs -> Seq(Handled)]
  BY <1>0, <1>1, <1>3
<1>5. <<ev.obj, ev.link>> \in Objs \X LinkNumbers
  BY <1>1 DEF StEvent
<1>6. logic_obj_map_' \subseteq Objs \X LinkNumbers
  BY <1>0, <1>1, <1>5
<1>7. LogicTypes'
  BY <1>0, <1>2, <1>4, <1>6 DEF LogicTypes, net, fetch
<1>8. PacketsMade'
  <2>1. \A i \in 1..Len(cmd_queue_') : i + 1 \in 1..Len(cmd_queue_) /\ cmd_queue_'[i] = cmd_queue_[i + 1]
    BY <1>2
  <2> QED BY <2>1 DEF PacketsMade
<1>9. MapTypes' /\ PostedInv'
  BY <1>0, ServiceFrame DEF net
<1> QED BY <1>7, <1>8, <1>9

\* The steps that move the logic thread on, or the time.
LEMMA MovesOn ==
    ASSUME LogicTypes, FetchMsg \/ RunReConnect \/ ProcessMsg \/ Second
    PROVE  /\ LogicTypes' /\ Queue' = Queue /\ UNCHANGED <<posted, app>>
           /\ ~RunReConnect => UNCHANGED <<clients, endian_map_, reconnect_map_>>
<1>0. recv_queue_ \in Seq(Message) /\ msg_queue_ \in Seq(Message) /\ <<>> \in Seq(Message)
      /\ (pc # "trans" => msg_queue_ = <<>>) /\ (pc # "idle" => recv_queue_ = <<>>)
  BY DEF LogicTypes
<1>1. CASE FetchMsg
  <2>1. NewEvent \in StEvent
    BY ObjIds DEF NewEvent, NoMsg, StEvent, Packet
  <2>2. /\ pc = "idle" /\ pc' = "trans" /\ msg_queue_' = recv_queue_ /\ recv_queue_' = <<>>
        /\ eventandmsg' = NewEvent /\ UNCHANGED <<posted, crashed, maps, app>>
    BY <1>1 DEF FetchMsg
  <2>3. LogicTypes'
    BY <1>0, <2>1, <2>2 DEF LogicTypes, app
  <2> QED BY <2>2, <2>3 DEF Queue, maps
<1>2. CASE RunReConnect
  <2>1. pc = "trans" /\ msg_queue_ = <<>> /\ pc' = "events" /\ UNCHANGED <<net, fetch, app>>
    BY <1>2 DEF RunReConnect
  <2>2. LogicTypes' /\ Queue' = Queue
    BY <1>0, <2>1 DEF LogicTypes, Queue, net, fetch, app
  <2> QED BY <1>2, <2>1, <2>2 DEF net
<1>3. CASE ProcessMsg
  <2>1. pc = "events" /\ pc' = "idle" /\ UNCHANGED <<net, fetch, maps, app>>
    BY <1>3 DEF ProcessMsg
  <2>2. LogicTypes' /\ Queue' = Queue
    BY <1>0, <2>1 DEF LogicTypes, Queue, net, fetch, app
  <2> QED BY <2>1, <2>2 DEF net, maps
<1>4. CASE Second
  <2>1. UNCHANGED <<net, pc, fetch, clients, endian_map_, reconnect_map_, app>>
    BY <1>4 DEF Second
  <2>2. LogicTypes' /\ Queue' = Queue
    BY <1>0, <2>1 DEF LogicTypes, Queue, net, fetch, app
  <2> QED BY <2>1, <2>2 DEF net
<1> QED BY <1>1, <1>2, <1>3, <1>4

\* What the logic thread knows: types, the order of the messages, and whose events are queued.
LogicInv == LogicTypes /\ MapTypes /\ PostedInv /\ PacketsMade

\* The end of the process changes nothing that is left to look at.
CrashedOnly ==
    /\ crashed' = TRUE /\ Queue' = Queue
    /\ UNCHANGED <<net, pc, msg_queue_, eventandmsg, maps, app>>

LEMMA CrashIs == Crash => CrashedOnly
BY DEF Crash, CrashedOnly, Queue, net

LEMMA LogicInit == Init => LogicInv
<1>1. Init => PacketsMade
  BY DEF Init, PacketsMade
<1> QED BY <1>1, TypesInit DEF LogicInv

LEMMA LogicStep == LogicInv /\ [Next]_vars => LogicInv'
<1> SUFFICES ASSUME LogicInv, [Next]_vars PROVE LogicInv'
  OBVIOUS
<1>0. LogicTypes /\ MapTypes /\ PostedInv /\ PacketsMade
  BY DEF LogicInv
<1>a. UNCHANGED app => PacketsMade'
  BY <1>0 DEF app, PacketsMade
<1>1. CASE UNCHANGED vars
  BY <1>0, <1>1, <1>a, ServiceFrame DEF vars, LogicInv, net
<1>2. ASSUME NEW o \in ClientIds \cup ServerIds, NetPost(o)
      PROVE  LogicInv'
  <2>1. o \in Objs /\ UNCHANGED app
    BY <1>2 DEF Objs, NetPost
  <2> QED BY <1>0, <1>2, <1>a, <2>1, PostTypes DEF LogicInv
<1>3. CASE AcceptFailed
  BY <1>0, <1>3, <1>a, AcceptFailedTypes DEF LogicInv, AcceptFailed
<1>4. ASSUME NEW m \in Connectors, NEW retry \in BOOLEAN, AddConnector(m, retry)
      PROVE  LogicInv'
  <2>1. UNCHANGED <<net, pc, fetch, app>>
    BY <1>4 DEF AddConnector
  <2> QED BY <1>0, <1>4, <1>a, <2>1, AddTypes, ServiceFrame DEF LogicInv
<1>5. ASSUME NEW m \in Listeners, NEW o \in ServerIds, AddListener(m, o)
      PROVE  LogicInv'
  <2>1. UNCHANGED <<net, pc, fetch, app>>
    BY <1>5 DEF AddListener
  <2> QED BY <1>0, <1>5, <1>a, <2>1, AddTypes, ServiceFrame DEF LogicInv
<1>6. CASE FetchMsg \/ RunReConnect \/ ProcessMsg \/ Second
  <2>1. LogicTypes' /\ PacketsMade' /\ Queue' = Queue /\ posted' = posted
    BY <1>0, <1>6, <1>a, MovesOn
  <2>2. PostedInv'
    BY <1>0, <2>1 DEF PostedInv
  <2>3. MapTypes'
    <3>1. CASE RunReConnect
      BY <1>0, <3>1, RunReConnectTypes
    <3>2. CASE FetchMsg \/ ProcessMsg
      <4>1. UNCHANGED maps
        BY <3>2 DEF FetchMsg, ProcessMsg
      <4> QED BY <1>0, <2>1, <4>1, ServiceFrame
    <3>3. CASE Second
      <4>1. /\ next_reconn_time_ \in 1..Interval /\ next_reconn_time_' = next_reconn_time_ - 1
            /\ UNCHANGED <<clients, endian_map_, reconnect_map_>>
        BY <3>3 DEF Second
      <4>2. next_reconn_time_' \in 0..Interval
        BY <4>1, ObjIds
      <4> QED BY <1>0, <2>1, <4>1, <4>2 DEF MapTypes
    <3> QED BY <1>6, <3>1, <3>2, <3>3
  <2> QED BY <2>1, <2>2, <2>3 DEF LogicInv
<1>7. CASE TransMsg
  BY <1>0, <1>7, TransTypes DEF LogicInv
<1>8. CASE ParseEvent
  BY <1>0, <1>8, ParseTypes DEF LogicInv
<1>9. CASE Crash
  <2>1. CrashedOnly
    BY <1>9, CrashIs
  <2>2. LogicTypes'
    BY <1>0, <2>1 DEF LogicTypes, CrashedOnly, net, app
  <2>3. UNCHANGED <<maps, posted, app>>
    BY <2>1 DEF CrashedOnly, net
  <2>4. PostedInv'
    BY <1>0, <2>1, <2>3 DEF PostedInv, CrashedOnly
  <2> QED BY <1>0, <1>a, <2>2, <2>3, <2>4, ServiceFrame DEF LogicInv
<1> QED BY <1>1, <1>2, <1>3, <1>4, <1>5, <1>6, <1>7, <1>8, <1>9 DEF Next, Logic

\* The maps hold endpoints, an object is in one of them at most, only clients wait for
\* reconnection, and only links of the objects have logic objects (Service, Logicbase).
THEOREM ServiceTypeCorrect == Spec => []TypeOK
<1>1. Init => LogicInv
  BY LogicInit
<1>2. LogicInv /\ [Next]_vars => LogicInv'
  BY LogicStep
<1>3. LogicInv => TypeOK
  BY DEF LogicInv, LogicTypes, MapTypes, TypeOK, LinkNumbers
<1> QED BY <1>1, <1>2, <1>3, PTL DEF Spec

-----------------------------------------------------------------------------
(* The endpoints.                                                           *)

\* Object o has endpoint m, in the map E of objects in use or the map R of failed clients.
Holder(E, R, m, o) == \/ o \in DOMAIN E /\ E[o].mark = m
                      \/ o \in DOMAIN R /\ R[o].mark = m

OneHolder(E, R) == \A m \in Connectors : \A o, p : Holder(E, R, m, o) /\ Holder(E, R, m, p) => o = p

\* The failure of a client in use is still pending.
DeadPending ==
    \A o \in DOMAIN endian_map_ \cap ClientIds : endian_map_[o].retry =>
        \A j \in 1..Len(posted[o]) :
            posted[o][j].type \notin {"NET_DATA", "CLI_CONNECT_OK"} => Pending(Queue, o, j)

EndpointsInv == OneHolder(endian_map_, reconnect_map_) /\ DeadPending

LEMMA MarkOnceIs == MarkOnce <=> OneHolder(endian_map_, reconnect_map_)
BY DEF MarkOnce, OneHolder, Holder

LEMMA DeadIsMovedIs == LogicTypes /\ DeadPending => DeadIsMoved
<1> SUFFICES ASSUME LogicTypes, DeadPending PROVE DeadIsMoved
  OBVIOUS
<1>1. /\ recv_queue_ \in Seq(Message) /\ msg_queue_ \in Seq(Message)
      /\ pc # "trans" => msg_queue_ = <<>>
      /\ pc # "idle" => recv_queue_ = <<>>
  BY DEF LogicTypes
<1>2. recv_queue_ \o msg_queue_ = Queue /\ Queue \in Seq(Message)
  BY <1>1 DEF Queue
<1>3. \A o, j : Pending(Queue, o, j) => \E m \in ToSet(Queue) : m.obj = o /\ m.n = j
  <2>1. DOMAIN Queue = 1..Len(Queue) /\ ToSet(Queue) = {Queue[i] : i \in DOMAIN Queue}
    BY <1>2 DEF ToSet
  <2> QED BY <2>1 DEF Pending
<1> QED BY <1>2, <1>3 DEF DeadPending, DeadIsMoved

LEMMA EndpointsInit == Init => EndpointsInv
<1> SUFFICES ASSUME Init PROVE EndpointsInv
  OBVIOUS
<1>1. DOMAIN endian_map_ = {} /\ DOMAIN reconnect_map_ = {}
  BY DEF Init
<1> QED BY <1>1 DEF EndpointsInv, OneHolder, Holder, DeadPending

\* Nothing happens to the endpoints, and what was posted stays pending.
LEMMA EndpointsStay ==
    ASSUME EndpointsInv, UNCHANGED <<endian_map_, reconnect_map_, posted>>,
           \A o \in ClientIds : \A j \in 1..Len(posted[o]) : Pending(Queue, o, j) => Pending(Queue', o, j)
    PROVE  EndpointsInv'
<1>1. DeadPending'
  BY DEF EndpointsInv, DeadPending
<1> QED BY <1>1 DEF EndpointsInv

\* Messages are posted: they are pending.
LEMMA PostEndpoints ==
    ASSUME LogicInv, EndpointsInv, NEW o \in Objs, NetPost(o)
    PROVE  EndpointsInv'
<1>0. LogicTypes /\ PendOK(Queue, posted) /\ pc = "idle" /\ pc' = "idle" /\ UNCHANGED maps
      /\ posted \in [Objs -> Seq(Posting)] /\ recv_queue_ \in Seq(Message)
  BY DEF LogicInv, PostedInv, NetPost, LogicTypes
<1>1. PICK a \in Seq(Posting), r \in Seq(Message) :
              /\ posted' = [posted EXCEPT ![o] = posted[o] \o a]
              /\ recv_queue_' = recv_queue_ \o r /\ Tells(r, o, posted[o], a)
  BY <1>0, PostGives
<1>2. Queue = recv_queue_ /\ Queue' = recv_queue_ \o r
  BY <1>0, <1>1 DEF Queue
<1>3. /\ \A x \in Objs : \A j \in 1..Len(posted[x]) : Pending(Queue', x, j) <=> Pending(Queue, x, j)
      /\ \A j \in 1..Len(posted'[o]) : j > Len(posted[o]) => Pending(Queue', o, j)
  <2> DEFINE P1 == posted'
             q == recv_queue_
  <2>1. /\ P1 = [posted EXCEPT ![o] = posted[o] \o a] /\ Tells(r, o, posted[o], a)
        /\ q \in Seq(Message) /\ PendOK(q, posted) /\ posted \in [Objs -> Seq(Posting)]
    BY <1>0, <1>1, <1>2
  <2> HIDE DEF P1, q
  <2>2. StaysPending(q, q \o r, posted) /\ NewPending(q \o r, o, posted, P1)
    BY <2>1, PendMore
  <2> QED BY <1>2, <2>2 DEF P1, q, StaysPending, NewPending
<1>4. /\ \A i \in 1..Len(posted[o]) : posted'[o][i] = posted[o][i] /\ Len(posted[o]) \in Nat
      /\ \A x \in Objs : x # o => posted'[x] = posted[x]
  <2>1. posted[o] \in Seq(Posting)
    BY <1>0
  <2>2. \A i \in 1..Len(posted[o]) : (posted[o] \o a)[i] = posted[o][i] /\ Len(posted[o]) \in Nat
    BY <2>1, ConcatIs
  <2> QED BY <1>0, <1>1, <2>2
<1>5. DeadPending'
  <2> SUFFICES ASSUME NEW x \in DOMAIN endian_map_ \cap ClientIds, endian_map_[x].retry,
                      NEW j \in 1..Len(posted'[x]),
                      posted'[x][j].type \notin {"NET_DATA", "CLI_CONNECT_OK"}
               PROVE  Pending(Queue', x, j)
    BY <1>0 DEF DeadPending, maps
  <2>1. x \in Objs
    BY DEF Objs
  <2>2. CASE x = o
    <3>1. CASE j \in 1..Len(posted[o])
      <4>1. posted[x][j].type \notin {"NET_DATA", "CLI_CONNECT_OK"}
        BY <1>4, <2>2, <3>1
      <4>2. Pending(Queue, x, j)
        BY <2>2, <3>1, <4>1 DEF EndpointsInv, DeadPending
      <4> QED BY <1>3, <2>1, <2>2, <3>1, <4>2
    <3>2. CASE j \notin 1..Len(posted[o])
      <4>1. j > Len(posted[o])
        <5>1. posted[o] \in Seq(Posting) /\ j \in Nat /\ j > 0
          BY <1>0
        <5> QED BY <3>2, <5>1
      <4> QED BY <1>3, <2>2, <4>1
    <3> QED BY <3>1, <3>2
  <2>3. CASE x # o
    <3>1. posted'[x] = posted[x]
      BY <1>4, <2>1, <2>3
    <3>2. Pending(Queue, x, j)
      BY <3>1 DEF EndpointsInv, DeadPending
    <3> QED BY <1>3, <2>1, <3>1, <3>2
  <2> QED BY <2>2, <2>3
<1> QED BY <1>0, <1>5 DEF EndpointsInv, maps

\* A new object for an endpoint that has none.
LEMMA AddEndpoints ==
    ASSUME LogicInv, EndpointsInv
    PROVE  /\ \A m \in Connectors, retry \in BOOLEAN : AddConnector(m, retry) => EndpointsInv'
           /\ \A m \in Listeners, o \in ServerIds : AddListener(m, o) => EndpointsInv'
<1>a. ASSUME NEW o \in Objs, NEW e \in Endpoint, endian_map_' = Put(endian_map_, o, e),
             o \notin DOMAIN endian_map_, o \in ClientIds => posted[o] = <<>>,
             UNCHANGED <<posted, reconnect_map_>>, Queue' = Queue,
             e.mark \in Connectors =>
                \A x : ~Holder(endian_map_, reconnect_map_, e.mark, x)
      PROVE  EndpointsInv'
  <2>0. endian_map_ \in [DOMAIN endian_map_ -> Endpoint]
    BY DEF LogicInv, MapTypes
  <2>1. /\ DOMAIN endian_map_' = DOMAIN endian_map_ \cup {o} /\ endian_map_'[o] = e
        /\ \A x \in DOMAIN endian_map_ : x # o => endian_map_'[x] = endian_map_[x]
    <3> DEFINE g == Put(endian_map_, o, e)
    <3>1. /\ DOMAIN g = DOMAIN endian_map_ \cup {o} /\ g[o] = e
          /\ \A x \in DOMAIN endian_map_ : x # o => g[x] = endian_map_[x]
      BY DEF Put
    <3>2. endian_map_' = g
      BY <1>a
    <3> HIDE DEF g
    <3> QED BY <3>1, <3>2
  <2>2. \A m, x : Holder(endian_map_', reconnect_map_', m, x) =>
           Holder(endian_map_, reconnect_map_, m, x) \/ (x = o /\ m = e.mark)
    BY <1>a, <2>1 DEF Holder
  <2>3. OneHolder(endian_map_', reconnect_map_')
    BY <1>a, <2>2 DEF EndpointsInv, OneHolder
  <2>4. DeadPending'
    <3> SUFFICES ASSUME NEW x \in DOMAIN endian_map_' \cap ClientIds, endian_map_'[x].retry,
                        NEW j \in 1..Len(posted[x]),
                        posted[x][j].type \notin {"NET_DATA", "CLI_CONNECT_OK"}
                 PROVE  Pending(Queue, x, j)
      BY <1>a DEF DeadPending
    <3>1. CASE x = o
      <4>1. Len(posted[x]) = 0
        BY <1>a, <3>1
      <4> QED BY <4>1
    <3>2. CASE x # o
      BY <2>1, <3>2 DEF EndpointsInv, DeadPending
    <3> QED BY <3>1, <3>2
  <2> QED BY <2>3, <2>4 DEF EndpointsInv
<1>1. ASSUME NEW m \in Connectors, NEW retry \in BOOLEAN, AddConnector(m, retry)
      PROVE  EndpointsInv'
  <2> DEFINE e == [mark |-> m, retry |-> retry]
  <2>1. e \in Endpoint /\ e.mark = m
    BY DEF Endpoint
  <2>2. /\ endian_map_' = Put(endian_map_, clients + 1, e)
        /\ UNCHANGED <<net, pc, fetch, reconnect_map_>>
        /\ m \notin Marks(endian_map_) \cup Marks(reconnect_map_)
    BY <1>1 DEF AddConnector
  <2> HIDE DEF e
  <2>3. \A x : ~Holder(endian_map_, reconnect_map_, m, x)
    BY <2>2 DEF Holder, Marks
  <2>4. clients + 1 \in Objs /\ clients + 1 \notin DOMAIN endian_map_ /\ posted[clients + 1] = <<>>
    BY <1>1, AddTypes DEF LogicInv, Objs
  <2>5. Queue' = Queue /\ UNCHANGED posted
    BY <2>2 DEF Queue, net, fetch
  <2> QED BY <1>a, <2>1, <2>2, <2>3, <2>4, <2>5
<1>2. ASSUME NEW m \in Listeners, NEW o \in ServerIds, AddListener(m, o)
      PROVE  EndpointsInv'
  <2> DEFINE e == [mark |-> m, retry |-> FALSE]
  <2>1. e \in Endpoint /\ e.mark = m
    BY DEF Endpoint
  <2>2. /\ endian_map_' = Put(endian_map_, o, e) /\ o \notin DOMAIN endian_map_
        /\ UNCHANGED <<net, pc, fetch, reconnect_map_>>
    BY <1>2 DEF AddListener
  <2> HIDE DEF e
  <2>3. m \notin Connectors /\ o \notin ClientIds /\ o \in Objs
    BY ObjIds
  <2>4. Queue' = Queue /\ UNCHANGED posted
    BY <2>2 DEF Queue, net, fetch
  <2> QED BY <1>a, <2>1, <2>2, <2>3, <2>4
<1> QED BY <1>1, <1>2

\* A failed client moves when the message of its failure is translated.
LEMMA TransEndpoints ==
    ASSUME LogicInv, EndpointsInv, TransMsg
    PROVE  EndpointsInv'
<1> DEFINE m == msg_queue_[1]
<1>0. LogicTypes /\ MapTypes /\ PostedInv /\ PacketsMade
  BY DEF LogicInv
<1>1. /\ Queue = msg_queue_ /\ Queue' = Tail(msg_queue_) /\ msg_queue_ # <<>>
      /\ msg_queue_ \in Seq(Message) /\ posted \in [Objs -> Seq(Posting)] /\ UNCHANGED posted
  BY <1>0, TransTypes DEF LogicTypes, TransMsg, net
<1>2. /\ \A x \in Objs : \A j : Pending(Queue', x, j) <=>
            Pending(Queue, x, j) /\ ~(x = m.obj /\ j = m.n)
      /\ m.obj \in Objs => m.n \in 1..Len(posted[m.obj]) /\ posted[m.obj][m.n].type = m.type
  BY <1>0, <1>1, PendTail DEF PostedInv
<1>3. \/ /\ m.obj \in DOMAIN endian_map_ => m.type = "NET_DATA"
         /\ UNCHANGED <<endian_map_, reconnect_map_>>
      \/ /\ m.obj \in DOMAIN endian_map_
         /\ IF m.type # "NET_DATA" /\ Fails(m.type) THEN AddReConnect(m.obj)
            ELSE UNCHANGED <<endian_map_, reconnect_map_>>
  <2> HIDE DEF m
  <2> QED BY <1>0, TransGives DEF m
<1> HIDE DEF m
<1>4. m.obj \in ClientIds => m.type \in ClientTypes
  <2>1. m.obj \in ClientIds => History(m.obj, posted[m.obj]) /\ m.obj \in Objs
    BY <1>0 DEF PostedInv, Objs
  <2> QED BY <1>2, <2>1 DEF History
\* The message is not the failure of a client that stays in use.
<1>5. \/ /\ UNCHANGED <<endian_map_, reconnect_map_>>
         /\ m.obj \in DOMAIN endian_map_ \cap ClientIds /\ endian_map_[m.obj].retry =>
               m.type \in {"NET_DATA", "CLI_CONNECT_OK"}
      \/ /\ m.obj \in DOMAIN endian_map_
         /\ reconnect_map_' = Put(reconnect_map_, m.obj, endian_map_[m.obj])
         /\ endian_map_' = Erase(endian_map_, m.obj)
  <2>1. m.type \in ClientTypes /\ m.type \notin {"NET_DATA", "CLI_CONNECT_OK"} => Fails(m.type)
    BY EventOfIs
  <2>2. CASE /\ m.obj \in DOMAIN endian_map_ => m.type = "NET_DATA"
             /\ UNCHANGED <<endian_map_, reconnect_map_>>
    BY <2>2
  <2>3. CASE /\ m.obj \in DOMAIN endian_map_ /\ m.type # "NET_DATA" /\ Fails(m.type)
             /\ AddReConnect(m.obj)
    BY <1>0, <2>3, MoveGives
  <2>4. CASE /\ m.obj \in DOMAIN endian_map_ /\ ~(m.type # "NET_DATA" /\ Fails(m.type))
             /\ UNCHANGED <<endian_map_, reconnect_map_>>
    BY <1>4, <2>1, <2>4
  <2> QED BY <1>3, <2>2, <2>3, <2>4
<1>6. CASE /\ UNCHANGED <<endian_map_, reconnect_map_>>
           /\ m.obj \in DOMAIN endian_map_ \cap ClientIds /\ endian_map_[m.obj].retry =>
                 m.type \in {"NET_DATA", "CLI_CONNECT_OK"}
  <2>1. DeadPending'
    <3> SUFFICES ASSUME NEW x \in DOMAIN endian_map_ \cap ClientIds, endian_map_[x].retry,
                        NEW j \in 1..Len(posted[x]),
                        posted[x][j].type \notin {"NET_DATA", "CLI_CONNECT_OK"}
                 PROVE  Pending(Queue', x, j)
      BY <1>1, <1>6 DEF DeadPending
    <3>1. Pending(Queue, x, j) /\ x \in Objs
      BY DEF EndpointsInv, DeadPending, Objs
    <3>2. ~(x = m.obj /\ j = m.n)
      BY <1>2, <1>6, <3>1
    <3> QED BY <1>2, <3>1, <3>2
  <2> QED BY <1>6, <2>1 DEF EndpointsInv
<1>7. CASE /\ m.obj \in DOMAIN endian_map_
           /\ reconnect_map_' = Put(reconnect_map_, m.obj, endian_map_[m.obj])
           /\ endian_map_' = Erase(endian_map_, m.obj)
  <2> DEFINE o == m.obj
  <2>1. /\ DOMAIN endian_map_' = DOMAIN endian_map_ \ {o}
        /\ \A x \in DOMAIN endian_map_ \ {o} : endian_map_'[x] = endian_map_[x]
    BY <1>7 DEF Erase
  <2>2. /\ DOMAIN reconnect_map_' = DOMAIN reconnect_map_ \cup {o}
        /\ reconnect_map_'[o] = endian_map_[o]
        /\ \A x \in DOMAIN reconnect_map_ : x # o => reconnect_map_'[x] = reconnect_map_[x]
    BY <1>7 DEF Put
  <2>3. \A k, x : Holder(endian_map_', reconnect_map_', k, x) => Holder(endian_map_, reconnect_map_, k, x)
    BY <1>7, <2>1, <2>2 DEF Holder
  <2>4. DeadPending'
    <3> SUFFICES ASSUME NEW x \in DOMAIN endian_map_' \cap ClientIds, endian_map_'[x].retry,
                        NEW j \in 1..Len(posted[x]),
                        posted[x][j].type \notin {"NET_DATA", "CLI_CONNECT_OK"}
                 PROVE  Pending(Queue', x, j)
      BY <1>1 DEF DeadPending
    <3>1. x \in DOMAIN endian_map_ \cap ClientIds /\ x # o /\ endian_map_[x].retry /\ x \in Objs
      BY <2>1 DEF Objs
    <3>2. Pending(Queue, x, j)
      BY <3>1 DEF EndpointsInv, DeadPending
    <3> QED BY <1>2, <3>1, <3>2
  <2>5. OneHolder(endian_map_', reconnect_map_')
    BY <2>3 DEF EndpointsInv, OneHolder
  <2> QED BY <2>4, <2>5 DEF EndpointsInv
<1> QED BY <1>5, <1>6, <1>7

\* Every client that failed gets one new object.
LEMMA AgainEndpoints ==
    ASSUME LogicInv, EndpointsInv, RunReConnect
    PROVE  EndpointsInv'
<1>0. /\ MapTypes /\ LogicTypes /\ Queue' = Queue /\ UNCHANGED posted
  BY MovesOn DEF LogicInv
<1>1. CASE UNCHANGED maps
  BY <1>0, <1>1, EndpointsStay DEF maps
<1>2. CASE ~UNCHANGED maps
  <2>1. PICK new :
              /\ DOMAIN endian_map_' = DOMAIN endian_map_ \cup new
              /\ new \subseteq (clients + 1)..clients' /\ clients' \in clients..MaxClients
              /\ \A x \in DOMAIN endian_map_ : x \notin new /\ endian_map_'[x] = endian_map_[x]
              /\ \A x \in new : \E o \in DOMAIN reconnect_map_ :
                    x = Again(o) /\ endian_map_'[x] = reconnect_map_[o]
              /\ reconnect_map_' = <<>>
    BY <1>0, <1>2, AgainGives
  <2>2. DOMAIN reconnect_map_' = {}
    BY <2>1
  <2>3. DOMAIN endian_map_ \cap DOMAIN reconnect_map_ = {}
    BY <1>0 DEF MapTypes
\* The object that held the endpoint of x before.
  <2> DEFINE Was(x, y) == IF x \in new THEN y \in DOMAIN reconnect_map_ /\ x = Again(y) ELSE y = x
  <2>4. \A k, x : Holder(endian_map_', reconnect_map_', k, x) =>
           x \in DOMAIN endian_map_' /\ \E y : Was(x, y) /\ Holder(endian_map_, reconnect_map_, k, y)
    <3> SUFFICES ASSUME NEW k, NEW x, Holder(endian_map_', reconnect_map_', k, x)
                 PROVE  x \in DOMAIN endian_map_'
                        /\ \E y : Was(x, y) /\ Holder(endian_map_, reconnect_map_, k, y)
      OBVIOUS
    <3>1. x \in DOMAIN endian_map_' /\ endian_map_'[x].mark = k
      BY <2>2 DEF Holder
    <3>2. CASE x \in new
      BY <2>1, <3>1, <3>2 DEF Holder
    <3>3. CASE x \notin new
      BY <2>1, <3>1, <3>3 DEF Holder
    <3> QED BY <3>1, <3>2, <3>3
  <2>5. OneHolder(endian_map_', reconnect_map_')
    <3> SUFFICES ASSUME NEW k \in Connectors, NEW x, NEW z,
                        Holder(endian_map_', reconnect_map_', k, x),
                        Holder(endian_map_', reconnect_map_', k, z)
                 PROVE  x = z
      BY DEF OneHolder
    <3>1. PICK y : Was(x, y) /\ Holder(endian_map_, reconnect_map_, k, y)
      BY <2>4
    <3>2. Was(z, y)
      <4>1. PICK y2 : Was(z, y2) /\ Holder(endian_map_, reconnect_map_, k, y2)
        BY <2>4
      <4>2. y2 = y
        BY <3>1, <4>1 DEF EndpointsInv, OneHolder
      <4> QED BY <4>1, <4>2
    <3>3. x \in DOMAIN endian_map_' /\ z \in DOMAIN endian_map_'
      BY <2>4
    <3>4. x \notin new => x \in DOMAIN endian_map_
      BY <2>1, <3>3
    <3>5. z \notin new => z \in DOMAIN endian_map_
      BY <2>1, <3>3
    <3> QED BY <2>3, <3>1, <3>2, <3>4, <3>5
  <2>6. DeadPending'
    <3> SUFFICES ASSUME NEW x \in DOMAIN endian_map_' \cap ClientIds, endian_map_'[x].retry,
                        NEW j \in 1..Len(posted[x]),
                        posted[x][j].type \notin {"NET_DATA", "CLI_CONNECT_OK"}
                 PROVE  Pending(Queue, x, j)
      BY <1>0 DEF DeadPending
    <3>1. CASE x \in new
      <4>1. x > clients
        <5>1. clients \in Nat
          BY <1>0, ObjIds DEF MapTypes
        <5> QED BY <2>1, <3>1, <5>1
      <4>2. posted[x] = <<>>
        BY <1>0, <4>1 DEF MapTypes
      <4>3. Len(posted[x]) = 0
        BY <4>2
      <4> QED BY <4>3
    <3>2. CASE x \notin new
      <4>1. x \in DOMAIN endian_map_ /\ endian_map_'[x] = endian_map_[x]
        BY <2>1, <3>2
      <4> QED BY <4>1 DEF EndpointsInv, DeadPending
    <3> QED BY <3>1, <3>2
  <2> QED BY <2>5, <2>6 DEF EndpointsInv
<1> QED BY <1>1, <1>2

LEMMA EndpointsStep == LogicInv /\ EndpointsInv /\ [Next]_vars => EndpointsInv'
<1> SUFFICES ASSUME LogicInv, EndpointsInv, [Next]_vars PROVE EndpointsInv'
  OBVIOUS
<1>1. CASE UNCHANGED vars
  <2>1. Queue' = Queue /\ UNCHANGED <<endian_map_, reconnect_map_, posted>>
    BY <1>1 DEF vars, net, fetch, maps, Queue
  <2> QED BY <2>1, EndpointsStay
<1>2. ASSUME NEW o \in ClientIds \cup ServerIds, NetPost(o)
      PROVE  EndpointsInv'
  BY <1>2, PostEndpoints DEF Objs
<1>3. CASE AcceptFailed
  <2>1. \A o \in Objs : \A j : Pending(Queue', o, j) <=> Pending(Queue, o, j)
    BY <1>3, AcceptFailedTypes DEF LogicInv
  <2>2. UNCHANGED <<endian_map_, reconnect_map_, posted>>
    BY <1>3 DEF AcceptFailed, maps
  <2> QED BY <2>1, <2>2, EndpointsStay DEF Objs
<1>4. CASE \E m \in Connectors, retry \in BOOLEAN : AddConnector(m, retry)
  BY <1>4, AddEndpoints
<1>5. CASE \E m \in Listeners, o \in ServerIds : AddListener(m, o)
  BY <1>5, AddEndpoints
<1>6. CASE FetchMsg \/ ProcessMsg \/ Second
  <2>1. ~RunReConnect
    BY <1>6 DEF FetchMsg, ProcessMsg, Second, RunReConnect
  <2>2. Queue' = Queue /\ UNCHANGED <<endian_map_, reconnect_map_, posted>>
    BY <1>6, <2>1, MovesOn DEF LogicInv
  <2> QED BY <2>2, EndpointsStay
<1>7. CASE RunReConnect
  BY <1>7, AgainEndpoints
<1>8. CASE TransMsg
  BY <1>8, TransEndpoints
<1>9. CASE ParseEvent
  <2>1. Queue' = Queue /\ UNCHANGED <<endian_map_, reconnect_map_, posted>>
    BY <1>9 DEF ParseEvent, net, fetch, maps, Queue
  <2> QED BY <2>1, EndpointsStay
<1>10. CASE Crash
  <2>1. Queue' = Queue /\ UNCHANGED <<endian_map_, reconnect_map_, posted>>
    BY <1>10, CrashIs DEF CrashedOnly, net, maps
  <2> QED BY <2>1, EndpointsStay
<1> QED BY <1>1, <1>2, <1>3, <1>4, <1>5, <1>6, <1>7, <1>8, <1>9, <1>10 DEF Next, Logic

\* Every endpoint has one object or one place among the reconnects, and one of them as soon as
\* the message of its failure has been fetched (AddReConnect, RunReConnect).
THEOREM ServiceKeepsEndpoints == Spec => []EndpointsKept
<1>1. Init => LogicInv /\ EndpointsInv
  BY LogicInit, EndpointsInit
<1>2. LogicInv /\ EndpointsInv /\ [Next]_vars => LogicInv' /\ EndpointsInv'
  BY LogicStep, EndpointsStep
<1>3. LogicInv /\ EndpointsInv => EndpointsKept
  BY MarkOnceIs, DeadIsMovedIs DEF LogicInv, EndpointsInv, EndpointsKept
<1> QED BY <1>1, <1>2, <1>3, PTL DEF Spec

-----------------------------------------------------------------------------
(* The sessions.                                                            *)

\* The events X of object o, its messages p, those pending in q, and its endpoint in E.
MadeOf(X, o, p, q, E) ==
    /\ Sound(X, o, p, q)
    /\ o \in DOMAIN E => Complete(X, o, p, q) /\ \A x \in X : x.mark = E[o].mark

LEMMA EventsMadeIs ==
    EventsMade <=>
        \A o \in Objs : MadeOf(EventsOf(seen[o], cmd_queue_, o), o, posted[o], Queue, endian_map_)
BY DEF EventsMade, MadeOf

LEMMA SessionInit == Init => SessionInv
<1> SUFFICES ASSUME Init PROVE SessionInv
  OBVIOUS
<1>1. /\ \A o \in Objs : Len(seen[o]) = 0 /\ Len(posted[o]) = 0
      /\ Len(cmd_queue_) = 0 /\ DOMAIN endian_map_ = {} /\ logic_obj_map_ = {}
  BY DEF Init, Objs
<1>2. \A o \in Objs : EventsOf(seen[o], cmd_queue_, o) = {}
  BY <1>1 DEF EventsOf, SeenTo, MadeTo
<1>3. EventsMade
  BY <1>1, <1>2 DEF EventsMade, Sound
<1>4. EventsOrdered /\ LoginSeen
  BY <1>1 DEF EventsOrdered, LoginSeen
<1> QED BY <1>3, <1>4 DEF SessionInv

\* The events stay, and so does what was posted; an endpoint may get a new object.
LEMMA SessionStays ==
    ASSUME SessionInv, UNCHANGED <<app, posted>>,
           \A o \in Objs : \A j : Pending(Queue', o, j) <=> Pending(Queue, o, j),
           \A o \in DOMAIN endian_map_' \cap Objs :
              \/ o \in DOMAIN endian_map_ /\ endian_map_'[o].mark = endian_map_[o].mark
              \/ posted[o] = <<>>
    PROVE  SessionInv'
<1>0. EventsMade /\ EventsOrdered /\ LoginSeen /\ UNCHANGED <<cmd_queue_, logic_obj_map_, seen, posted>>
  BY DEF SessionInv, app
<1>1. EventsOrdered' /\ LoginSeen'
  BY <1>0, ZenonT(60) DEF EventsOrdered, LoginSeen
<1>2. ASSUME NEW o \in Objs
      PROVE  MadeOf(EventsOf(seen[o], cmd_queue_, o), o, posted[o], Queue', endian_map_')
  <2> DEFINE X == EventsOf(seen[o], cmd_queue_, o)
             p == posted[o]
  <2> HIDE DEF X
  <2>1. MadeOf(X, o, p, Queue, endian_map_)
    BY <1>0 DEF X, EventsMade, MadeOf
  <2>2. Sound(X, o, p, Queue')
    BY <2>1 DEF MadeOf, Sound
  <2>3. CASE o \in DOMAIN endian_map_ /\ endian_map_'[o].mark = endian_map_[o].mark
    <3>1. Complete(X, o, p, Queue')
      BY <2>1, <2>3 DEF MadeOf, Complete
    <3> QED BY <2>1, <2>2, <2>3, <3>1 DEF MadeOf, X
  <2>4. CASE posted[o] = <<>>
    <3>1. Len(p) = 0
      BY <2>4
    <3>2. X = {}
      BY <2>1, <3>1 DEF MadeOf, Sound
    <3>3. Complete(X, o, p, Queue')
      BY <3>1 DEF Complete
    <3> QED BY <2>2, <3>2, <3>3 DEF MadeOf, X
  <2>5. CASE o \notin DOMAIN endian_map_'
    BY <2>2, <2>5 DEF MadeOf, X
  <2> QED BY <2>3, <2>4, <2>5
<1>3. EventsMade'
  BY <1>0, <1>2 DEF EventsMade, MadeOf
<1> QED BY <1>1, <1>3 DEF SessionInv

\* Messages are posted: they are pending, so no event has to stand for them yet.
LEMMA PostSession ==
    ASSUME LogicInv, SessionInv, NEW o \in Objs, NetPost(o)
    PROVE  SessionInv'
<1>0. /\ LogicTypes /\ PendOK(Queue, posted) /\ pc = "idle" /\ pc' = "idle"
      /\ UNCHANGED <<cmd_queue_, logic_obj_map_, seen, endian_map_>>
      /\ posted \in [Objs -> Seq(Posting)] /\ recv_queue_ \in Seq(Message)
      /\ EventsMade /\ EventsOrdered /\ LoginSeen
  BY DEF LogicInv, PostedInv, NetPost, LogicTypes, SessionInv, app, maps
<1>1. PICK a \in Seq(Posting), r \in Seq(Message) :
              /\ posted' = [posted EXCEPT ![o] = posted[o] \o a]
              /\ recv_queue_' = recv_queue_ \o r /\ Tells(r, o, posted[o], a)
  BY <1>0, PostGives
<1>2. Queue = recv_queue_ /\ Queue' = recv_queue_ \o r
  BY <1>0, <1>1 DEF Queue
<1>3. /\ \A x \in Objs : \A j \in 1..Len(posted[x]) : Pending(Queue', x, j) <=> Pending(Queue, x, j)
      /\ \A j \in 1..Len(posted'[o]) : j > Len(posted[o]) => Pending(Queue', o, j)
  <2> DEFINE P1 == posted'
             q == recv_queue_
  <2>1. /\ P1 = [posted EXCEPT ![o] = posted[o] \o a] /\ Tells(r, o, posted[o], a)
        /\ q \in Seq(Message) /\ PendOK(q, posted) /\ posted \in [Objs -> Seq(Posting)]
    BY <1>0, <1>1, <1>2
  <2> HIDE DEF P1, q
  <2>2. StaysPending(q, q \o r, posted) /\ NewPending(q \o r, o, posted, P1)
    BY <2>1, PendMore
  <2> QED BY <1>2, <2>2 DEF P1, q, StaysPending, NewPending
<1>4. EventsOrdered' /\ LoginSeen'
  BY <1>0, ZenonT(60) DEF EventsOrdered, LoginSeen
<1>5. ASSUME NEW x \in Objs
      PROVE  MadeOf(EventsOf(seen[x], cmd_queue_, x), x, posted'[x], Queue', endian_map_)
  <2> DEFINE X == EventsOf(seen[x], cmd_queue_, x)
             p == posted[x]
             p1 == posted'[x]
  <2>1. /\ p1 \in Seq(Posting) /\ Len(p) \in Nat /\ Len(p1) \in Nat /\ Len(p) <= Len(p1)
        /\ \A j \in 1..Len(p) : p1[j] = p[j]
        /\ \A j \in 1..Len(p1) : j > Len(p) => Pending(Queue', x, j)
    <3>0. p \in Seq(Posting)
      BY <1>0
    <3>1. CASE x = o
      <4>1. p1 = p \o a
        BY <1>0, <1>1, <3>1
      <4>2. /\ p \o a \in Seq(Posting) /\ Len(p \o a) = Len(p) + Len(a) /\ Len(p) \in Nat
            /\ Len(a) \in Nat /\ \A j \in 1..Len(p) : (p \o a)[j] = p[j]
        BY <3>0, ConcatIs
      <4> QED BY <1>3, <3>1, <4>1, <4>2
    <3>2. CASE x # o
      <4>1. p1 = p
        BY <1>0, <1>1, <3>2
      <4>2. Len(p) \in Nat /\ \A j \in 1..Len(p) : ~(j > Len(p))
        BY <3>0
      <4> QED BY <3>0, <4>1, <4>2
    <3> QED BY <3>1, <3>2
  <2>2. \A j \in 1..Len(p) : Pending(Queue', x, j) <=> Pending(Queue, x, j)
    BY <1>3
  <2>3. MadeOf(X, x, p, Queue, endian_map_)
    BY <1>0 DEF EventsMade, MadeOf
  <2> HIDE DEF X, p, p1
  <2>4. \A j \in 1..Len(p) : j \in 1..Len(p1)
    BY <2>1
  <2>5. Sound(X, x, p1, Queue')
    <3>1. Sound(X, x, p, Queue)
      BY <2>3 DEF MadeOf
    <3> SUFFICES ASSUME NEW y \in X
                 PROVE  \E j \in 1..Len(p1) :
                          /\ ~Pending(Queue', x, j) /\ p1[j].link = y.link
                          /\ IF y.event = "DATA" THEN p1[j].type = "NET_DATA" /\ y.n = j
                             ELSE p1[j].type # "NET_DATA" /\ EventOf(p1[j].type) = y.event
      BY DEF Sound
    <3>2. PICK j \in 1..Len(p) :
             /\ ~Pending(Queue, x, j) /\ p[j].link = y.link
             /\ IF y.event = "DATA" THEN p[j].type = "NET_DATA" /\ y.n = j
                ELSE p[j].type # "NET_DATA" /\ EventOf(p[j].type) = y.event
      BY <3>1 DEF Sound
    <3>3. j \in 1..Len(p1) /\ p1[j] = p[j] /\ ~Pending(Queue', x, j)
      BY <2>1, <2>2, <2>4, <3>2
    <3> QED BY <3>2, <3>3
  <2>6. ASSUME Complete(X, x, p, Queue) PROVE Complete(X, x, p1, Queue')
    <3>1. \A j \in 1..Len(p1) : ~Pending(Queue', x, j) =>
             j \in 1..Len(p) /\ p1[j] = p[j] /\ ~Pending(Queue, x, j)
      <4>1. \A j \in 1..Len(p1) : j > Len(p) \/ j \in 1..Len(p)
        BY <2>1
      <4> QED BY <2>1, <2>2, <4>1
    <3> QED BY <2>6, <3>1 DEF Complete
  <2> QED BY <2>3, <2>5, <2>6 DEF MadeOf, X, p1
<1>6. EventsMade'
  BY <1>0, <1>5 DEF EventsMade, MadeOf
<1> QED BY <1>4, <1>6 DEF SessionInv

\* Fewer messages pending leave the events sound.
LEMMA SoundFewer ==
    ASSUME NEW X, NEW o, NEW p, NEW q, NEW q1, Sound(X, o, p, q),
           \A j \in 1..Len(p) : Pending(q1, o, j) => Pending(q, o, j)
    PROVE  Sound(X, o, p, q1)
BY DEF Sound

\* A message makes an event, or none: the event follows those of its object.
LEMMA TransSession ==
    ASSUME LogicInv, SessionInv, TransMsg
    PROVE  SessionInv'
<1> DEFINE m == msg_queue_[1]
<1>0. LogicTypes /\ MapTypes /\ PostedInv /\ PacketsMade
  BY DEF LogicInv
<1>1. /\ Queue = msg_queue_ /\ Queue' = Tail(msg_queue_) /\ msg_queue_ # <<>>
      /\ msg_queue_ \in Seq(Message) /\ posted \in [Objs -> Seq(Posting)] /\ cmd_queue_ \in Seq(StEvent)
      /\ UNCHANGED <<posted, seen, logic_obj_map_>>
  BY <1>0, TransTypes DEF LogicTypes, TransMsg, net
<1>2. /\ \A x \in Objs : \A j : Pending(Queue', x, j) <=>
            Pending(Queue, x, j) /\ ~(x = m.obj /\ j = m.n)
      /\ m.obj \in Objs =>
            /\ m.n \in 1..Len(posted[m.obj])
            /\ posted[m.obj][m.n].type = m.type /\ posted[m.obj][m.n].link = m.link
            /\ \A j \in 1..Len(posted[m.obj]) : ~Pending(Queue, m.obj, j) <=> j < m.n
  BY <1>0, <1>1, PendTail DEF PostedInv
<1>3. \/ /\ m.obj \in DOMAIN endian_map_ => m.type = "NET_DATA"
         /\ UNCHANGED <<cmd_queue_, endian_map_, reconnect_map_>>
      \/ /\ m.obj \in DOMAIN endian_map_
         /\ \E ev \in StEvent :
               /\ cmd_queue_' = Append(cmd_queue_, ev)
               /\ ev.obj = m.obj /\ ev.link = m.link /\ ev.mark = endian_map_[m.obj].mark
               /\ ev.event = IF m.type = "NET_DATA" THEN "DATA" ELSE EventOf(m.type)
               /\ m.type = "NET_DATA" => ev.msg.obj = m.obj /\ ev.msg.n = m.n
         /\ AddReConnect(m.obj) \/ UNCHANGED <<endian_map_, reconnect_map_>>
  <2> HIDE DEF m
  <2> QED BY <1>0, TransGives DEF m
<1> HIDE DEF m
<1>4. DOMAIN endian_map_ \subseteq Objs
  BY <1>0, ObjIds DEF MapTypes
<1>5. EventsMade /\ EventsOrdered /\ LoginSeen
  BY DEF SessionInv
<1>6. LoginSeen'
  <2>1. seen' = seen /\ logic_obj_map_' = logic_obj_map_
    BY <1>1
  <2> QED BY <2>1, <1>5, SMTT(30) DEF LoginSeen
\* The objects that stay in use keep their endpoints.
<1>7. \A x \in DOMAIN endian_map_' : x \in DOMAIN endian_map_ /\ endian_map_'[x] = endian_map_[x]
  <2>1. CASE UNCHANGED <<endian_map_, reconnect_map_>>
    BY <2>1
  <2>2. CASE m.obj \in DOMAIN endian_map_ /\ AddReConnect(m.obj)
    <3>1. UNCHANGED endian_map_ \/ endian_map_' = Erase(endian_map_, m.obj)
      BY <1>0, <2>2, MoveGives
    <3> QED BY <3>1 DEF Erase
  <2> QED BY <1>3, <2>1, <2>2
<1>8. \A x \in Objs : \A j : Pending(Queue', x, j) => Pending(Queue, x, j)
  BY <1>2
\* The message is dropped.
<1>9. CASE /\ m.obj \in DOMAIN endian_map_ => m.type = "NET_DATA"
           /\ UNCHANGED <<cmd_queue_, endian_map_, reconnect_map_>>
  <2>1. EventsOrdered'
    BY <1>1, <1>5, <1>9 DEF EventsOrdered
  <2>2. ASSUME NEW x \in Objs
        PROVE  MadeOf(EventsOf(seen[x], cmd_queue_, x), x, posted[x], Queue', endian_map_)
    <3> DEFINE X == EventsOf(seen[x], cmd_queue_, x)
               p == posted[x]
    <3>1. MadeOf(X, x, p, Queue, endian_map_)
      BY <1>5 DEF EventsMade, MadeOf
    <3> HIDE DEF X
    <3>2. Sound(X, x, p, Queue')
      BY <1>8, <3>1, SoundFewer DEF MadeOf
    <3>3. ASSUME x \in DOMAIN endian_map_ PROVE Complete(X, x, p, Queue')
      <4>1. \A j \in 1..Len(p) : p[j].type # "NET_DATA" /\ ~Pending(Queue', x, j) => ~Pending(Queue, x, j)
        BY <1>2, <1>9, <3>3
      <4> QED BY <3>1, <3>3, <4>1 DEF MadeOf, Complete
    <3> QED BY <3>1, <3>2, <3>3 DEF MadeOf, X
  <2>3. EventsMade'
    BY <1>1, <1>9, <2>2 DEF EventsMade, MadeOf
  <2> QED BY <1>6, <2>1, <2>3 DEF SessionInv
\* The message makes an event.
<1>10. ASSUME m.obj \in DOMAIN endian_map_,
              NEW ev \in StEvent, cmd_queue_' = Append(cmd_queue_, ev),
              ev.obj = m.obj, ev.link = m.link, ev.mark = endian_map_[m.obj].mark,
              ev.event = IF m.type = "NET_DATA" THEN "DATA" ELSE EventOf(m.type),
              m.type = "NET_DATA" => ev.msg.obj = m.obj /\ ev.msg.n = m.n
       PROVE  SessionInv'
  <2> DEFINE o == m.obj
             n == Len(cmd_queue_)
             Xo == EventsOf(seen[o], cmd_queue_, o)
             e == Made(ev)
  <2>0. o \in Objs /\ m.n \in 1..Len(posted[o]) /\ posted[o] \in Seq(Posting) /\ n \in Nat
    BY <1>1, <1>2, <1>4, <1>10
  <2>t. m.type # "NET_DATA" => EventOf(m.type) # "DATA"
    <3>1. m.type \in ClientTypes \cup ServerTypes
      BY <1>0, <1>2, <2>0 DEF PostedInv, History
    <3> QED BY <3>1, EventOfIs
  <2>e. /\ e.link = m.link /\ e.mark = endian_map_[o].mark
        /\ e.event = IF m.type = "NET_DATA" THEN "DATA" ELSE EventOf(m.type)
        /\ m.type = "NET_DATA" => e.n = m.n
    BY <1>10 DEF Made
  <2>1. /\ \A x : \A i \in 0..n : MadeTo(cmd_queue_', x, i) = MadeTo(cmd_queue_, x, i)
        /\ \A x : MadeTo(cmd_queue_', x, n + 1) =
              MadeTo(cmd_queue_, x, n) \cup (IF ev.obj = x THEN {e} ELSE {})
        /\ Len(cmd_queue_') = n + 1 /\ cmd_queue_'[n + 1] = ev
        /\ \A i \in 1..n : cmd_queue_'[i] = cmd_queue_[i]
    <3> DEFINE q == cmd_queue_
               c == Append(q, ev)
    <3>1. q \in Seq(StEvent) /\ cmd_queue_' = c
      BY <1>1, <1>10
    <3> HIDE DEF q
    <3>2. ASSUME NEW x
          PROVE  /\ \A i \in 0..Len(q) : MadeTo(c, x, i) = MadeTo(q, x, i)
                 /\ MadeTo(c, x, Len(q) + 1) = MadeTo(q, x, Len(q)) \cup (IF ev.obj = x THEN {Made(ev)} ELSE {})
      BY <3>1, MadeAppend
    <3>3. /\ Len(c) = Len(q) + 1 /\ c[Len(q) + 1] = ev
          /\ \A i \in 1..Len(q) : c[i] = q[i]
      BY <3>1, AppendIs
    <3> HIDE DEF c
    <3> QED BY <3>1, <3>2, <3>3 DEF q
  <2> HIDE DEF e
  <2>2. \A x : EventsOf(seen[x], cmd_queue_', x) =
           EventsOf(seen[x], cmd_queue_, x) \cup (IF x = o THEN {e} ELSE {})
    BY <1>10, <2>1 DEF EventsOf
  <2>3. MadeOf(Xo, o, posted[o], Queue, endian_map_)
    BY <1>5, <2>0 DEF EventsMade, MadeOf
  <2>4. InSession(Xo, e)
    <3> DEFINE p == posted[o]
    <3>1. History(o, p)
      BY <1>0, <2>0 DEF PostedInv
    <3>2. Sound(Xo, o, p, Queue) /\ Complete(Xo, o, p, Queue) /\ \A x \in Xo : x.mark = endian_map_[o].mark
      BY <1>10, <2>3 DEF MadeOf
    <3>3. p[m.n].type = m.type /\ p[m.n].link = m.link /\ m.n \in 1..Len(p) /\ p \in Seq(Posting)
          /\ \A j \in 1..Len(p) : ~Pending(Queue, o, j) <=> j < m.n
      BY <1>2, <2>0
    <3>4. /\ e.link = p[m.n].link /\ e.mark = endian_map_[o].mark
          /\ e.event = (IF p[m.n].type = "NET_DATA" THEN "DATA" ELSE EventOf(p[m.n].type))
          /\ p[m.n].type = "NET_DATA" => e.n = m.n
      BY <2>e, <3>3
    <3>5. o \in Objs
      BY <2>0
    <3> HIDE DEF p, Xo, o
    <3>6. Follows(Xo, e, o, p, Queue, m.n, endian_map_[o].mark)
      BY <3>1, <3>2, <3>3, <3>4, <3>5 DEF Follows
    <3> QED BY <3>6, NextInSession
  <2>5. EventsOrdered'
    <3>1. \A x \in Objs : \A i \in 1..Len(seen[x]) : InSession(SeenTo(seen[x], i - 1), Seen(seen[x][i]))
      BY <1>5 DEF EventsOrdered
    <3>2. ASSUME NEW i \in 1..(n + 1)
          PROVE  InSession(SeenTo(seen[cmd_queue_'[i].obj], Len(seen[cmd_queue_'[i].obj]))
                              \cup MadeTo(cmd_queue_', cmd_queue_'[i].obj, i - 1),
                           Made(cmd_queue_'[i]))
      <4>1. CASE i \in 1..n
        <5>1. cmd_queue_'[i] = cmd_queue_[i] /\ i - 1 \in 0..n
          BY <2>0, <2>1, <4>1
        <5>2. MadeTo(cmd_queue_', cmd_queue_[i].obj, i - 1) = MadeTo(cmd_queue_, cmd_queue_[i].obj, i - 1)
          BY <2>1, <5>1
        <5> QED BY <1>5, <4>1, <5>1, <5>2 DEF EventsOrdered
      <4>2. CASE i = n + 1
        <5>1. cmd_queue_'[i] = ev /\ i - 1 = n /\ n \in 0..n
          BY <2>0, <2>1, <4>2
        <5>2. MadeTo(cmd_queue_', o, i - 1) = MadeTo(cmd_queue_, o, n)
          BY <2>1, <5>1
        <5> QED BY <1>10, <2>4, <5>1, <5>2 DEF EventsOf, e
      <4> QED BY <2>0, <4>1, <4>2
    <3> QED BY <1>1, <2>1, <3>1, <3>2 DEF EventsOrdered
  <2>6. ASSUME NEW x \in Objs
        PROVE  MadeOf(EventsOf(seen[x], cmd_queue_', x), x, posted[x], Queue', endian_map_')
    <3> DEFINE X == EventsOf(seen[x], cmd_queue_, x)
               p == posted[x]
    <3>1. MadeOf(X, x, p, Queue, endian_map_)
      BY <1>5 DEF EventsMade, MadeOf
    <3>2. Sound(X, x, p, Queue')
      <4> HIDE DEF X
      <4> QED BY <1>8, <3>1, SoundFewer DEF MadeOf
    <3>3. CASE x # o
      <4>1. EventsOf(seen[x], cmd_queue_', x) = X
        BY <2>2, <3>3
      <4>2. x \in DOMAIN endian_map_' => Complete(X, x, p, Queue') /\ \A y \in X : y.mark = endian_map_'[x].mark
        <5> HIDE DEF X
        <5> QED BY <1>2, <1>7, <3>1, <3>3 DEF MadeOf, Complete
      <4> QED BY <3>2, <4>1, <4>2 DEF MadeOf
    <3>4. CASE x = o
      <4> DEFINE Y == X \cup {e}
      <4>1. EventsOf(seen[x], cmd_queue_', x) = Y
        BY <2>2, <3>4
      <4>2. ~Pending(Queue', x, m.n) /\ p[m.n].link = m.link /\ p[m.n].type = m.type /\ m.n \in 1..Len(p)
        BY <1>2, <2>0, <3>4
      <4> HIDE DEF X, p
      <4>3. Sound(Y, x, p, Queue')
        <5>1. \E j \in 1..Len(p) :
                /\ ~Pending(Queue', x, j)
                /\ p[j].link = e.link
                /\ IF e.event = "DATA" THEN p[j].type = "NET_DATA" /\ e.n = j
                   ELSE p[j].type # "NET_DATA" /\ EventOf(p[j].type) = e.event
          BY <2>e, <2>t, <4>2
        <5> QED BY <3>2, <5>1 DEF Sound
      <4>4. ASSUME x \in DOMAIN endian_map_'
            PROVE  Complete(Y, x, p, Queue') /\ \A y \in Y : y.mark = endian_map_'[x].mark
        <5>1. Complete(X, x, p, Queue) /\ \A y \in X : y.mark = endian_map_[x].mark
          BY <1>7, <3>1, <4>4 DEF MadeOf
        <5>2. \A j \in 1..Len(p) : ~Pending(Queue', x, j) => ~Pending(Queue, x, j) \/ j = m.n
          BY <1>2, <3>4
        <5>3. m.type # "NET_DATA" => e.link = p[m.n].link /\ e.event = EventOf(p[m.n].type)
          BY <2>e, <4>2
        <5>4. ASSUME NEW j \in 1..Len(p), p[j].type # "NET_DATA", ~Pending(Queue', x, j)
              PROVE  \E y \in Y : y.link = p[j].link /\ y.event = EventOf(p[j].type)
          <6>1. CASE ~Pending(Queue, x, j)
            BY <5>1, <5>4, <6>1 DEF Complete
          <6>2. CASE j = m.n
            BY <4>2, <5>3, <5>4, <6>2
          <6> QED BY <5>2, <5>4, <6>1, <6>2
        <5>5. \A y \in Y : y.mark = endian_map_'[x].mark
          BY <1>7, <2>e, <3>4, <4>4, <5>1
        <5>6. Complete(Y, x, p, Queue')
          BY <5>4 DEF Complete
        <5> QED BY <5>5, <5>6
      <4> HIDE DEF Y
      <4> QED BY <4>1, <4>3, <4>4 DEF MadeOf, p
    <3> QED BY <3>3, <3>4
  <2>7. EventsMade'
    BY <1>1, <2>6 DEF EventsMade, MadeOf
  <2> QED BY <1>6, <2>5, <2>7 DEF SessionInv
<1> QED BY <1>3, <1>9, <1>10

\* An event is handled: it goes from the end of what is queued to what was seen.
LEMMA ParseSession ==
    ASSUME LogicInv, SessionInv, ParseEvent
    PROVE  SessionInv'
<1>0. /\ LogicTypes /\ PacketsMade /\ EventsMade /\ EventsOrdered /\ LoginSeen
      /\ UNCHANGED <<net, pc, fetch, maps>>
      /\ cmd_queue_ \in Seq(StEvent) /\ seen \in [Objs -> Seq(Handled)]
      /\ logic_obj_map_ \subseteq Objs \X LinkNumbers
  BY DEF LogicInv, LogicTypes, SessionInv, ParseEvent
<1>1. PICK ev \in StEvent, h \in Handled :
              /\ cmd_queue_ # <<>> /\ ev = cmd_queue_[1] /\ ev.obj \in Objs
              /\ h.event = ev.event /\ h.link = ev.link /\ h.mark = ev.mark /\ h.n = ev.msg.n
              /\ cmd_queue_' = Tail(cmd_queue_)
              /\ seen' = [seen EXCEPT ![ev.obj] = Append(seen[ev.obj], h)]
              /\ h.done \in {"ack", "parse"} => <<ev.obj, ev.link>> \in logic_obj_map_
              /\ \/ logic_obj_map_' \subseteq logic_obj_map_
                 \/ h.done = "login" /\ logic_obj_map_' = logic_obj_map_ \cup {<<ev.obj, ev.link>>}
  BY <1>0, ParseGives
<1> DEFINE o == ev.obj
           s == seen[o]
           s1 == seen'[o]
           q == cmd_queue_
           c == Tail(q)
           e == Made(ev)
<1>2. Seen(h) = e
  BY <1>1 DEF Seen, Made
<1>3. o \in Objs /\ s \in Seq(Handled) /\ s1 = Append(s, h) /\ \A x \in Objs : x # o => seen'[x] = seen[x]
  BY <1>0, <1>1
<1>4. q \in Seq(StEvent) /\ q # <<>> /\ q[1] = ev /\ cmd_queue_' = c
  BY <1>0, <1>1
<1> HIDE DEF e, o, s, s1
<1>5. /\ Len(s1) = Len(s) + 1 /\ Len(s) \in Nat /\ s1[Len(s) + 1] = h
      /\ \A i \in 1..Len(s) : s1[i] = s[i]
  <2>1. /\ Len(Append(s, h)) = Len(s) + 1 /\ Len(s) \in Nat /\ Append(s, h)[Len(s) + 1] = h
        /\ \A i \in 1..Len(s) : Append(s, h)[i] = s[i]
    BY <1>3, AppendIs
  <2> QED BY <1>3, <2>1
<1>6. /\ \A i \in 0..Len(s) : SeenTo(s1, i) = SeenTo(s, i)
      /\ SeenTo(s1, Len(s) + 1) = SeenTo(s, Len(s)) \cup {e}
  BY <1>2, <1>3, SeenMore
<1>7. /\ Len(q) \in Nat /\ Len(q) > 0 /\ Len(c) = Len(q) - 1
      /\ \A i \in 1..(Len(q) - 1) : c[i] = q[i + 1]
  BY <1>4, TailIs
<1>8. ASSUME NEW x
      PROVE  /\ MadeTo(q, x, 0) = {}
             /\ \A i \in 0..(Len(q) - 1) :
                   MadeTo(q, x, i + 1) = MadeTo(c, x, i) \cup (IF o = x THEN {e} ELSE {})
  <2>1. /\ MadeTo(q, x, 0) = {}
        /\ \A i \in 0..(Len(q) - 1) :
              MadeTo(q, x, i + 1) = MadeTo(Tail(q), x, i) \cup (IF q[1].obj = x THEN {Made(q[1])} ELSE {})
    BY <1>4, MadeTail
  <2> QED BY <1>4, <2>1 DEF o, e
<1> HIDE DEF c, q
\* The events of each object stay the same, whatever the number of those queued.
<1>9. ASSUME NEW x \in Objs, NEW i \in 0..(Len(q) - 1)
      PROVE  SeenTo(seen'[x], Len(seen'[x])) \cup MadeTo(c, x, i)
                = SeenTo(seen[x], Len(seen[x])) \cup MadeTo(q, x, i + 1)
  <2>0. MadeTo(q, x, i + 1) = MadeTo(c, x, i) \cup (IF o = x THEN {e} ELSE {})
    BY <1>8
  <2>1. CASE x = o
    <3>1. SeenTo(seen'[x], Len(seen'[x])) = SeenTo(s, Len(s)) \cup {e}
      BY <1>5, <1>6, <2>1 DEF s1
    <3>2. SeenTo(seen[x], Len(seen[x])) = SeenTo(s, Len(s))
      BY <2>1 DEF s
    <3> QED BY <2>0, <2>1, <3>1, <3>2
  <2>2. CASE x # o
    BY <1>3, <2>0, <2>2
  <2> QED BY <2>1, <2>2
<1>10. \A x \in Objs : EventsOf(seen'[x], cmd_queue_', x) = EventsOf(seen[x], cmd_queue_, x)
  <2>1. Len(q) - 1 \in 0..(Len(q) - 1) /\ (Len(q) - 1) + 1 = Len(q)
    BY <1>7
  <2>2. ASSUME NEW x \in Objs
        PROVE  SeenTo(seen'[x], Len(seen'[x])) \cup MadeTo(c, x, Len(c))
                  = SeenTo(seen[x], Len(seen[x])) \cup MadeTo(q, x, Len(q))
    BY <1>7, <1>9, <2>1
  <2> QED BY <1>4, <2>2 DEF EventsOf, q
<1>11. EventsMade'
  <2>1. Queue' = Queue /\ UNCHANGED <<posted, endian_map_>>
    BY <1>0 DEF Queue, net, fetch, maps
  <2>2. \A x \in Objs : MadeOf(EventsOf(seen[x], cmd_queue_, x), x, posted[x], Queue, endian_map_)
    BY <1>0, EventsMadeIs
  <2>3. \A x \in Objs : MadeOf(EventsOf(seen'[x], cmd_queue_', x), x, posted'[x], Queue', endian_map_')
    BY <1>10, <2>1, <2>2
  <2> QED BY <2>3 DEF EventsMade, MadeOf
<1>12. \A x \in Objs : \A i \in 1..Len(seen'[x]) : InSession(SeenTo(seen'[x], i - 1), Seen(seen'[x][i]))
  <2>1. \A x \in Objs : \A i \in 1..Len(seen[x]) : InSession(SeenTo(seen[x], i - 1), Seen(seen[x][i]))
    BY <1>0 DEF EventsOrdered
  <2>2. InSession(SeenTo(s, Len(s)), e)
    <3>1. 1 \in 1..Len(q)
      BY <1>7
    <3>2. InSession(SeenTo(s, Len(s)) \cup MadeTo(q, o, 1 - 1), e)
      BY <1>0, <1>4, <3>1 DEF EventsOrdered, q, o, s, e
    <3>3. MadeTo(q, o, 1 - 1) = {}
      BY <1>8
    <3> QED BY <3>2, <3>3
  <2>3. \A i \in 1..Len(s1) : InSession(SeenTo(s1, i - 1), Seen(s1[i]))
    <3> SUFFICES ASSUME NEW i \in 1..Len(s1) PROVE InSession(SeenTo(s1, i - 1), Seen(s1[i]))
      OBVIOUS
    <3>1. CASE i \in 1..Len(s)
      <4>1. i - 1 \in 0..Len(s) /\ s1[i] = s[i]
        BY <1>5, <3>1
      <4>2. SeenTo(s1, i - 1) = SeenTo(s, i - 1)
        BY <1>6, <4>1
      <4>3. InSession(SeenTo(s, i - 1), Seen(s[i]))
        BY <1>3, <2>1, <3>1 DEF s
      <4> QED BY <4>1, <4>2, <4>3
    <3>2. CASE i = Len(s) + 1
      <4>1. i - 1 = Len(s) /\ s1[i] = h /\ Len(s) \in 0..Len(s)
        BY <1>5, <3>2
      <4>2. SeenTo(s1, i - 1) = SeenTo(s, Len(s))
        BY <1>6, <4>1
      <4> QED BY <1>2, <2>2, <4>1, <4>2
    <3> QED BY <1>5, <3>1, <3>2
  <2> QED BY <1>3, <2>1, <2>3 DEF s1
<1>13. \A i \in 1..Len(cmd_queue_') :
          InSession(SeenTo(seen'[cmd_queue_'[i].obj], Len(seen'[cmd_queue_'[i].obj]))
                       \cup MadeTo(cmd_queue_', cmd_queue_'[i].obj, i - 1),
                    Made(cmd_queue_'[i]))
  <2> SUFFICES ASSUME NEW i \in 1..Len(c)
               PROVE  InSession(SeenTo(seen'[c[i].obj], Len(seen'[c[i].obj])) \cup MadeTo(c, c[i].obj, i - 1),
                                Made(c[i]))
    BY <1>4
  <2>1. c[i] = q[i + 1] /\ i + 1 \in 1..Len(q) /\ i - 1 \in 0..(Len(q) - 1) /\ (i - 1) + 1 = i
        /\ (i + 1) - 1 = i
    BY <1>7
  <2>2. q[i + 1].obj \in Objs
    BY <1>0, <2>1 DEF PacketsMade, q
  <2>3. InSession(SeenTo(seen[q[i + 1].obj], Len(seen[q[i + 1].obj])) \cup MadeTo(q, q[i + 1].obj, (i + 1) - 1),
                  Made(q[i + 1]))
    BY <1>0, <2>1 DEF EventsOrdered, q
  <2>4. SeenTo(seen'[c[i].obj], Len(seen'[c[i].obj])) \cup MadeTo(c, c[i].obj, i - 1)
           = SeenTo(seen[c[i].obj], Len(seen[c[i].obj])) \cup MadeTo(q, c[i].obj, (i - 1) + 1)
    BY <1>9, <2>1, <2>2
  <2> QED BY <2>1, <2>3, <2>4
<1>14. EventsOrdered'
  BY <1>12, <1>13 DEF EventsOrdered
\* The logins.
<1>l. /\ \A key \in logic_obj_map_ : key[1] \in Objs
      /\ \A key \in logic_obj_map_ : \E j \in 1..Len(seen[key[1]]) :
            seen[key[1]][j].link = key[2] /\ seen[key[1]][j].done = "login"
      /\ \A x \in Objs : \A i \in 1..Len(seen[x]) : seen[x][i].done \in {"ack", "parse"} =>
            \E j \in 1..(i - 1) : seen[x][j].link = seen[x][i].link /\ seen[x][j].done = "login"
  BY <1>0 DEF LoginSeen
<1>15. \A key \in logic_obj_map_' : \E j \in 1..Len(seen'[key[1]]) :
          seen'[key[1]][j].link = key[2] /\ seen'[key[1]][j].done = "login"
  <2>1. ASSUME NEW key \in logic_obj_map_
        PROVE  \E j \in 1..Len(seen'[key[1]]) :
                  seen'[key[1]][j].link = key[2] /\ seen'[key[1]][j].done = "login"
    <3>1. PICK j \in 1..Len(seen[key[1]]) : seen[key[1]][j].link = key[2] /\ seen[key[1]][j].done = "login"
      BY <1>l
    <3>2. CASE key[1] = o
      <4>1. j \in 1..Len(s) /\ j \in 1..Len(s1) /\ s1[j] = s[j]
        BY <1>5, <3>1, <3>2 DEF s
      <4> QED BY <3>1, <3>2, <4>1 DEF s, s1
    <3>3. CASE key[1] # o
      BY <1>l, <1>3, <3>1, <3>3
    <3> QED BY <3>2, <3>3
  <2>2. ASSUME h.done = "login"
        PROVE  \E j \in 1..Len(seen'[o]) : seen'[o][j].link = ev.link /\ seen'[o][j].done = "login"
    <3>1. Len(s) + 1 \in 1..Len(s1)
      BY <1>5
    <3> QED BY <1>1, <1>5, <2>2, <3>1 DEF s1
  <2>3. <<o, ev.link>>[1] = o /\ <<o, ev.link>>[2] = ev.link
    OBVIOUS
  <2>4. \A key \in logic_obj_map_' : key \in logic_obj_map_ \/ (h.done = "login" /\ key = <<o, ev.link>>)
    BY <1>1 DEF o
  <2> QED BY <2>1, <2>2, <2>3, <2>4
<1>16. \A i \in 1..Len(s1) : s1[i].done \in {"ack", "parse"} =>
          \E j \in 1..(i - 1) : s1[j].link = s1[i].link /\ s1[j].done = "login"
  <2> SUFFICES ASSUME NEW i \in 1..Len(s1), s1[i].done \in {"ack", "parse"}
               PROVE  \E j \in 1..(i - 1) : s1[j].link = s1[i].link /\ s1[j].done = "login"
    OBVIOUS
  <2>1. CASE i \in 1..Len(s)
    <3>1. s1[i] = s[i] /\ \A j \in 1..(i - 1) : s1[j] = s[j]
      BY <1>5, <2>1
    <3>2. \E j \in 1..(i - 1) : s[j].link = s[i].link /\ s[j].done = "login"
      BY <1>l, <1>3, <2>1, <3>1 DEF s
    <3> QED BY <3>1, <3>2
  <2>2. CASE i = Len(s) + 1
    <3>1. s1[i] = h /\ i - 1 = Len(s)
      BY <1>5, <2>2
    <3>2. <<o, ev.link>> \in logic_obj_map_
      BY <1>1, <3>1 DEF o
    <3>3. <<o, ev.link>>[1] = o /\ <<o, ev.link>>[2] = ev.link
      OBVIOUS
    <3>4. \E j \in 1..Len(s) : s[j].link = ev.link /\ s[j].done = "login"
      BY <1>l, <3>2, <3>3 DEF s
    <3> QED BY <1>1, <1>5, <3>1, <3>4
  <2> QED BY <1>5, <2>1, <2>2
<1>17. LoginSeen'
  <2>1. \A x \in Objs : \A i \in 1..Len(seen'[x]) : seen'[x][i].done \in {"ack", "parse"} =>
            \E j \in 1..(i - 1) : seen'[x][j].link = seen'[x][i].link /\ seen'[x][j].done = "login"
    <3> SUFFICES ASSUME NEW x \in Objs
                 PROVE  \A i \in 1..Len(seen'[x]) : seen'[x][i].done \in {"ack", "parse"} =>
                          \E j \in 1..(i - 1) : seen'[x][j].link = seen'[x][i].link /\ seen'[x][j].done = "login"
      OBVIOUS
    <3>1. CASE x = o
      BY <1>16, <3>1 DEF s1
    <3>2. CASE x # o
      <4>1. seen'[x] = seen[x]
        BY <1>3, <3>2
      <4> QED BY <1>l, <4>1
    <3> QED BY <3>1, <3>2
  <2> QED BY <1>15, <2>1 DEF LoginSeen
<1> QED BY <1>11, <1>14, <1>17 DEF SessionInv

LEMMA SessionStep == LogicInv /\ SessionInv /\ [Next]_vars => SessionInv'
<1> SUFFICES ASSUME LogicInv, SessionInv, [Next]_vars PROVE SessionInv'
  OBVIOUS
<1>0. LogicTypes /\ MapTypes
  BY DEF LogicInv
<1>a. ASSUME UNCHANGED <<app, posted>>, Queue' = Queue, UNCHANGED endian_map_
      PROVE  SessionInv'
  BY <1>a, SessionStays
<1>1. CASE UNCHANGED vars
  <2>1. Queue' = Queue /\ UNCHANGED <<app, posted, endian_map_>>
    BY <1>1 DEF vars, net, fetch, maps, Queue
  <2> QED BY <1>a, <2>1
<1>2. ASSUME NEW o \in ClientIds \cup ServerIds, NetPost(o)
      PROVE  SessionInv'
  BY <1>2, PostSession DEF Objs
<1>3. CASE AcceptFailed
  <2>1. \A o \in Objs : \A j : Pending(Queue', o, j) <=> Pending(Queue, o, j)
    BY <1>3, AcceptFailedTypes DEF LogicInv
  <2>2. UNCHANGED <<app, posted, endian_map_>>
    BY <1>3 DEF AcceptFailed, maps
  <2> QED BY <2>1, <2>2, SessionStays
<1>4. ASSUME NEW m \in Connectors, NEW retry \in BOOLEAN, AddConnector(m, retry)
      PROVE  SessionInv'
  <2>1. Queue' = Queue /\ UNCHANGED <<app, posted>>
    BY <1>4 DEF AddConnector, Queue, net, fetch
  <2>2. endian_map_' = Put(endian_map_, clients + 1, [mark |-> m, retry |-> retry])
    BY <1>4 DEF AddConnector
  <2>3. \A x \in DOMAIN endian_map_' : \/ x \in DOMAIN endian_map_ /\ endian_map_'[x] = endian_map_[x]
                                       \/ x = clients + 1
    BY <2>2 DEF Put
  <2>4. posted[clients + 1] = <<>>
    BY <1>0, <1>4, AddTypes
  <2> QED BY <2>1, <2>3, <2>4, SessionStays
<1>5. ASSUME NEW m \in Listeners, NEW o \in ServerIds, AddListener(m, o)
      PROVE  SessionInv'
  <2>1. Queue' = Queue /\ UNCHANGED <<app, posted>>
    BY <1>5 DEF AddListener, Queue, net, fetch
  <2>2. endian_map_' = Put(endian_map_, o, [mark |-> m, retry |-> FALSE]) /\ o \notin DOMAIN endian_map_
    BY <1>5 DEF AddListener
  <2>3. \A x \in DOMAIN endian_map_' : \/ x \in DOMAIN endian_map_ /\ endian_map_'[x] = endian_map_[x]
                                       \/ x = o
    BY <2>2 DEF Put
  <2>4. posted[o] = <<>>
    BY <1>0, <2>2 DEF MapTypes
  <2> QED BY <2>1, <2>3, <2>4, SessionStays
<1>6. CASE FetchMsg \/ ProcessMsg \/ Second
  <2>1. ~RunReConnect
    BY <1>6 DEF FetchMsg, ProcessMsg, Second, RunReConnect
  <2>2. Queue' = Queue /\ UNCHANGED <<endian_map_, app, posted>>
    BY <1>0, <1>6, <2>1, MovesOn
  <2> QED BY <1>a, <2>2
<1>7. CASE RunReConnect
  <2>1. Queue' = Queue /\ UNCHANGED <<app, posted>>
    BY <1>0, <1>7, MovesOn
  <2>2. CASE UNCHANGED maps
    BY <1>a, <2>1, <2>2 DEF maps
  <2>3. CASE ~UNCHANGED maps
    <3>1. PICK new :
              /\ DOMAIN endian_map_' = DOMAIN endian_map_ \cup new
              /\ new \subseteq (clients + 1)..clients' /\ clients' \in clients..MaxClients
              /\ \A x \in DOMAIN endian_map_ : x \notin new /\ endian_map_'[x] = endian_map_[x]
      BY <1>0, <1>7, <2>3, AgainGives
    <3>2. \A x \in new : posted[x] = <<>>
      <4>1. clients \in Nat /\ MaxClients \in Nat /\ ClientIds = 1..MaxClients
        BY <1>0, ObjIds DEF MapTypes
      <4>2. \A x \in (clients + 1)..clients' : x \in ClientIds /\ x > clients
        BY <3>1, <4>1
      <4> QED BY <1>0, <3>1, <4>2 DEF MapTypes
    <3> QED BY <2>1, <3>1, <3>2, SessionStays
  <2> QED BY <2>2, <2>3
<1>8. CASE TransMsg
  BY <1>8, TransSession
<1>9. CASE ParseEvent
  BY <1>9, ParseSession
<1>10. CASE Crash
  <2>1. Queue' = Queue /\ UNCHANGED <<app, posted, endian_map_>>
    BY <1>10, CrashIs DEF CrashedOnly, net, maps
  <2> QED BY <1>a, <2>1
<1> QED BY <1>1, <1>2, <1>3, <1>4, <1>5, <1>6, <1>7, <1>8, <1>9, <1>10 DEF Next, Logic

\* No event queued is a leftover.
LEMMA NoStaleEventIs == LogicInv /\ SessionInv => NoStaleEvent
<1> SUFFICES ASSUME LogicInv, SessionInv, NEW i \in 1..Len(cmd_queue_)
             PROVE  LET ev == cmd_queue_[i] IN
                    /\ ev.obj \in Objs
                    /\ \E j \in 1..Len(posted[ev.obj]) :
                         LET e == posted[ev.obj][j] IN
                         /\ e.link = ev.link
                         /\ IF ev.event = "DATA" THEN e.type = "NET_DATA" /\ ev.msg.obj = ev.obj /\ ev.msg.n = j
                            ELSE e.type # "NET_DATA" /\ EventOf(e.type) = ev.event
  BY DEF NoStaleEvent
<1> DEFINE ev == cmd_queue_[i]
           o == ev.obj
<1>1. o \in Objs /\ (ev.event = "DATA" => ev.msg.obj = o)
  BY DEF LogicInv, PacketsMade
<1>2. Sound(EventsOf(seen[o], cmd_queue_, o), o, posted[o], Queue)
  BY <1>1 DEF SessionInv, EventsMade
<1>3. Made(ev) \in EventsOf(seen[o], cmd_queue_, o)
  BY DEF EventsOf, MadeTo
<1>4. Made(ev).link = ev.link /\ Made(ev).event = ev.event /\ Made(ev).n = ev.msg.n
  BY DEF Made
<1>5. PICK j \in 1..Len(posted[o]) :
         /\ posted[o][j].link = ev.link
         /\ IF ev.event = "DATA" THEN posted[o][j].type = "NET_DATA" /\ ev.msg.n = j
            ELSE posted[o][j].type # "NET_DATA" /\ EventOf(posted[o][j].type) = ev.event
  BY <1>2, <1>3, <1>4 DEF Sound
<1> QED BY <1>1, <1>5

\* InSession does not look at what became of an event.
LEMMA SessionOrderIs == LogicInv /\ SessionInv => SessionOrder
<1> SUFFICES ASSUME LogicInv, SessionInv, NEW o \in Objs, NEW i \in 1..Len(seen[o]),
                    NEW earlier, earlier = {seen[o][j] : j \in 1..(i - 1)}
             PROVE  /\ InSession(earlier, seen[o][i])
                    /\ seen[o][i].done \in {"ack", "parse"} =>
                          \E x \in earlier : x.link = seen[o][i].link /\ x.done = "login"
  BY DEF SessionOrder
<1>1. InSession(SeenTo(seen[o], i - 1), Seen(seen[o][i]))
  BY DEF SessionInv, EventsOrdered
<1>2. \A e : /\ Seen(e).event = e.event /\ Seen(e).link = e.link
             /\ Seen(e).mark = e.mark /\ Seen(e).n = e.n
  BY DEF Seen
<1>3. SeenTo(seen[o], i - 1) = {Seen(x) : x \in earlier}
  BY DEF SeenTo
<1>4. InSession(earlier, seen[o][i])
  <2> DEFINE e == seen[o][i]
  <2> HIDE DEF e
  <2>1. InSession({Seen(x) : x \in earlier}, Seen(e))
    BY <1>1, <1>3 DEF e
  <2>2. InSession(earlier, e)
    <3> DEFINE Y == {Seen(x) : x \in earlier}
    <3>1. \A y \in Y : \E x \in earlier : y = Seen(x)
      OBVIOUS
    <3>2. \A x \in earlier : Seen(x) \in Y
      OBVIOUS
    <3>3. InSession(Y, Seen(e))
      BY <2>1
    <3> HIDE DEF Y
    <3>4. e.event = "DATA" =>
             /\ \E x \in earlier : x.link = e.link /\ x.event = "CONNECT"
             /\ \A x \in earlier : ~(x.link = e.link /\ x.event = "DISCONNECT")
             /\ \A x \in earlier : x.event = "DATA" => x.n < e.n
      <4> SUFFICES ASSUME e.event = "DATA"
                   PROVE  /\ \E x \in earlier : x.link = e.link /\ x.event = "CONNECT"
                          /\ \A x \in earlier : ~(x.link = e.link /\ x.event = "DISCONNECT")
                          /\ \A x \in earlier : x.event = "DATA" => x.n < e.n
        OBVIOUS
      <4>1. /\ \E y \in Y : y.link = e.link /\ y.event = "CONNECT"
            /\ \A y \in Y : ~(y.link = e.link /\ y.event = "DISCONNECT")
            /\ \A y \in Y : y.event = "DATA" => y.n < e.n
        BY <1>2, <3>3 DEF InSession
      <4>2. \E x \in earlier : x.link = e.link /\ x.event = "CONNECT"
        <5>1. PICK y \in Y : y.link = e.link /\ y.event = "CONNECT"
          BY <4>1
        <5>2. PICK x \in earlier : y = Seen(x)
          BY <3>1
        <5> QED BY <1>2, <5>1, <5>2
      <4>3. \A x \in earlier : ~(x.link = e.link /\ x.event = "DISCONNECT")
        BY <1>2, <3>2, <4>1
      <4>4. \A x \in earlier : x.event = "DATA" => x.n < e.n
        BY <1>2, <3>2, <4>1, ZenonT(60)
      <4> QED BY <4>2, <4>3, <4>4
    <3>5. e.event = "CONNECT" =>
             \A x \in earlier : ~(x.link = e.link /\ x.event \in {"CONNECT", "DISCONNECT"})
      BY <1>2, <3>2, <3>3 DEF InSession
    <3>6. \A x \in earlier : x.mark = e.mark
      BY <1>2, <3>2, <3>3 DEF InSession
    <3> QED BY <3>4, <3>5, <3>6 DEF InSession
  <2> QED BY <2>2 DEF e
<1>5. seen[o][i].done \in {"ack", "parse"} =>
         \E j \in 1..(i - 1) : seen[o][j].link = seen[o][i].link /\ seen[o][j].done = "login"
  BY DEF SessionInv, LoginSeen
<1> QED BY <1>4, <1>5

\* The application gets the events of each session, in order, once, and no leftover of another
\* (FetchMsg, TransMsg, ProcessMsg), from what LinkEvents promises of the messages.
THEOREM ServiceKeepsSessions == Spec => []SessionKept
<1>1. Init => LogicInv /\ SessionInv
  BY LogicInit, SessionInit
<1>2. LogicInv /\ SessionInv /\ [Next]_vars => LogicInv' /\ SessionInv'
  BY LogicStep, SessionStep
<1>3. LogicInv /\ SessionInv => SessionKept
  BY NoStaleEventIs, SessionOrderIs DEF SessionKept
<1> QED BY <1>1, <1>2, <1>3, PTL DEF Spec

-----------------------------------------------------------------------------
(* LogicObj: the commands of a link, for any links, sizes and numbers of    *)
(* commands.  Numbers only grow, so a new command is younger than all there *)
(* are; what waits in the cache is delayed.                                 *)

Cmds == [n : Nat, size : Sizes \cup {NoSize}, delay : BOOLEAN]

\* The commands of a link: w sent, k in the cache, g given, x given up.
Kept(w, k, g, x) ==
    /\ \A i \in DOMAIN (w \o k) : (w \o k)[i].n \in 1..g
    /\ x \subseteq 1..g
    /\ \A i \in DOMAIN k : k[i].delay
    /\ OncePlaced(w \o k, g, x)
    /\ OnlyTheCacheIsOvertaken(w \o k)

CommandsInv ==
    /\ has_logic_ \subseteq Links
    /\ wire \in [Links -> Seq(Cmds)] /\ cache_ \in [Links -> Seq(Cmds)]
    /\ given \in [Links -> Nat] /\ gone \in [Links -> SUBSET Nat]
    /\ \A l \in Links : Kept(wire[l], cache_[l], given[l], gone[l])

\* The commands of two sequences, one after the other.
LEMMA Places ==
    ASSUME NEW w \in Seq(Cmds), NEW k \in Seq(Cmds)
    PROVE  /\ w \o k \in Seq(Cmds) /\ DOMAIN (w \o k) = 1..(Len(w) + Len(k))
           /\ DOMAIN w = 1..Len(w) /\ DOMAIN k = 1..Len(k) /\ Len(w) \in Nat /\ Len(k) \in Nat
           /\ \A i \in 1..Len(w) : (w \o k)[i] = w[i]
           /\ \A i \in 1..Len(k) : (w \o k)[Len(w) + i] = k[i]
OBVIOUS

\* A delayed command goes to the end of the cache.
LEMMA Delayed ==
    ASSUME NEW w \in Seq(Cmds), NEW k \in Seq(Cmds), NEW g \in Nat, NEW x \in SUBSET Nat,
           NEW c \in Cmds, c.n = g + 1, c.delay, Kept(w, k, g, x)
    PROVE  Append(k, c) \in Seq(Cmds) /\ Kept(w, Append(k, c), g + 1, x)
<1> DEFINE a == w \o k
           b == w \o Append(k, c)
<1>1. Append(k, c) \in Seq(Cmds) /\ Len(Append(k, c)) = Len(k) + 1
      /\ (\A i \in 1..Len(k) : Append(k, c)[i] = k[i]) /\ Append(k, c)[Len(k) + 1] = c
  OBVIOUS
<1>2. a \in Seq(Cmds) /\ Len(a) \in Nat /\ DOMAIN a = 1..Len(a) /\ b = Append(a, c)
  BY <1>1
<1>3. DOMAIN b = 1..(Len(a) + 1) /\ (\A i \in 1..Len(a) : b[i] = a[i]) /\ b[Len(a) + 1] = c
  BY <1>2
<1>4. \A i \in 1..Len(a) : a[i].n \in 1..g
  BY <1>2 DEF Kept
<1>5. OncePlaced(a, g, x) /\ OnlyTheCacheIsOvertaken(a) /\ x \subseteq 1..g
  BY DEF Kept
<1> HIDE DEF a, b
<1>6. \A i \in DOMAIN b : b[i].n \in 1..(g + 1)
  BY <1>2, <1>3, <1>4
<1>7. OncePlaced(b, g + 1, x)
  <2>1. ASSUME NEW n \in 1..(g + 1) PROVE n \in x \/ \E i \in DOMAIN b : b[i].n = n
    <3>1. CASE n = g + 1
      BY <3>1, <1>2, <1>3
    <3>2. CASE n \in 1..g
      <4>1. n \in x \/ \E i \in DOMAIN a : a[i].n = n
        BY <3>2, <1>5 DEF OncePlaced
      <4> QED BY <4>1, <1>2, <1>3
    <3> QED BY <3>1, <3>2
  <2>2. ASSUME NEW i \in DOMAIN b PROVE b[i].n \notin x /\ \A j \in DOMAIN b : b[j].n = b[i].n => j = i
    <3>1. CASE i = Len(a) + 1
      BY <3>1, <1>2, <1>3, <1>4, <1>5
    <3>2. CASE i \in 1..Len(a)
      BY <3>2, <1>2, <1>3, <1>4, <1>5 DEF OncePlaced
    <3> QED BY <3>1, <3>2, <1>2, <1>3
  <2> QED BY <2>1, <2>2 DEF OncePlaced
<1>8. OnlyTheCacheIsOvertaken(b)
  BY <1>2, <1>3, <1>4, <1>5 DEF OnlyTheCacheIsOvertaken
<1>9. \A i \in DOMAIN Append(k, c) : Append(k, c)[i].delay
  BY <1>1 DEF Kept
<1> QED BY <1>1, <1>5, <1>6, <1>7, <1>8, <1>9 DEF Kept, b

\* A command sent at once passes the cache.
LEMMA AtOnce ==
    ASSUME NEW w \in Seq(Cmds), NEW k \in Seq(Cmds), NEW g \in Nat, NEW x \in SUBSET Nat,
           NEW c \in Cmds, c.n = g + 1, ~c.delay, Kept(w, k, g, x)
    PROVE  Append(w, c) \in Seq(Cmds) /\ Kept(Append(w, c), k, g + 1, x)
<1> DEFINE a == w \o k
           v == Append(w, c)
           b == v \o k
           from(i) == IF i <= Len(w) THEN i ELSE i - 1
<1>1. v \in Seq(Cmds) /\ Len(v) = Len(w) + 1
      /\ (\A i \in 1..Len(w) : v[i] = w[i]) /\ v[Len(w) + 1] = c
  OBVIOUS
<1>2. /\ DOMAIN a = 1..(Len(w) + Len(k)) /\ DOMAIN b = 1..(Len(w) + 1 + Len(k))
      /\ Len(w) \in Nat /\ Len(k) \in Nat /\ DOMAIN k = 1..Len(k)
      /\ (\A i \in 1..Len(w) : a[i] = w[i]) /\ (\A i \in 1..Len(k) : a[Len(w) + i] = k[i])
      /\ (\A i \in 1..Len(v) : b[i] = v[i]) /\ (\A i \in 1..Len(k) : b[Len(v) + i] = k[i])
  BY <1>1, Places
<1>3. b[Len(w) + 1] = c
  BY <1>1, <1>2
<1>n. Len(w) \in Nat /\ Len(k) \in Nat /\ Len(v) = Len(w) + 1
  BY <1>1, <1>2
<1> HIDE DEF a, b, v
<1>4. \A i \in DOMAIN b : i # Len(w) + 1 => from(i) \in DOMAIN a /\ b[i] = a[from(i)]
  <2> SUFFICES ASSUME NEW i \in DOMAIN b, i # Len(w) + 1
               PROVE  from(i) \in DOMAIN a /\ b[i] = a[from(i)]
    OBVIOUS
  <2>1. CASE i <= Len(w)
    BY <2>1, <1>1, <1>2
  <2>2. CASE i > Len(w) + 1
    <3> DEFINE j == i - Len(w) - 1
    <3>0. i \in 1..(Len(w) + 1 + Len(k))
      BY <1>2
    <3>1. j \in 1..Len(k) /\ i = Len(v) + j /\ from(i) = Len(w) + j
      BY <3>0, <2>2, <1>n
    <3> HIDE DEF j
    <3>2. b[i] = k[j] /\ a[from(i)] = k[j]
      BY <3>1, <1>2
    <3>3. from(i) \in DOMAIN a
      BY <3>1, <1>2
    <3> QED BY <3>2, <3>3
  <2> QED BY <2>1, <2>2, <1>2
<1>5. \A i \in DOMAIN a : \E h \in DOMAIN b : h # Len(w) + 1 /\ from(h) = i /\ b[h] = a[i]
  <2> SUFFICES ASSUME NEW i \in DOMAIN a
               PROVE  \E h \in DOMAIN b : h # Len(w) + 1 /\ from(h) = i /\ b[h] = a[i]
    OBVIOUS
  <2> DEFINE h == IF i <= Len(w) THEN i ELSE i + 1
  <2>1. h \in DOMAIN b /\ h # Len(w) + 1 /\ from(h) = i
    BY <1>2
  <2> QED BY <2>1, <1>4
<1>6. \A i, j \in DOMAIN b : i # Len(w) + 1 /\ j # Len(w) + 1 =>
         (i < j <=> from(i) < from(j)) /\ (i = j <=> from(i) = from(j))
  BY <1>2
<1>7. /\ \A i \in DOMAIN a : a[i].n \in 1..g
      /\ OncePlaced(a, g, x) /\ OnlyTheCacheIsOvertaken(a) /\ x \subseteq 1..g
      /\ \A i \in DOMAIN k : k[i].delay
  BY DEF Kept, a
<1>8. \A j \in DOMAIN b : j > Len(w) + 1 => b[j].delay
  <2> SUFFICES ASSUME NEW j \in DOMAIN b, j > Len(w) + 1 PROVE b[j].delay
    OBVIOUS
  <2> DEFINE h == j - Len(w) - 1
  <2>0. j \in 1..(Len(w) + 1 + Len(k))
    BY <1>2
  <2>1. h \in 1..Len(k) /\ j = Len(v) + h
    BY <2>0, <1>n
  <2> HIDE DEF h
  <2> QED BY <2>1, <1>2, <1>7
<1>9. Len(w) + 1 \in DOMAIN b
  BY <1>2
<1> HIDE DEF from
<1>10. \A i \in DOMAIN b : b[i].n \in 1..g \/ i = Len(w) + 1
  BY <1>4, <1>7
<1>11. OncePlaced(b, g + 1, x)
  <2>1. \A n \in 1..(g + 1) : n \in x \/ \E i \in DOMAIN b : b[i].n = n
    <3> SUFFICES ASSUME NEW n \in 1..(g + 1), n \notin x PROVE \E i \in DOMAIN b : b[i].n = n
      OBVIOUS
    <3>1. CASE n = g + 1
      BY <3>1, <1>3, <1>9
    <3>2. CASE n \in 1..g
      <4>1. PICK i \in DOMAIN a : a[i].n = n
        BY <3>2, <1>7 DEF OncePlaced
      <4> QED BY <4>1, <1>5
    <3> QED BY <3>1, <3>2
  <2>2. ASSUME NEW i \in DOMAIN b PROVE b[i].n \notin x /\ \A j \in DOMAIN b : b[j].n = b[i].n => j = i
    <3>1. CASE i = Len(w) + 1
      BY <3>1, <1>3, <1>7, <1>10
    <3>2. CASE i # Len(w) + 1
      <4>1. b[i].n \in 1..g /\ b[i].n # g + 1
        BY <3>2, <1>10
      <4>2. b[i].n \notin x
        BY <3>2, <1>4, <1>7 DEF OncePlaced
      <4>3. ASSUME NEW j \in DOMAIN b, b[j].n = b[i].n PROVE j = i
        <5>1. j # Len(w) + 1
          BY <4>1, <4>3, <1>3
        <5>2. from(j) = from(i)
          BY <5>1, <3>2, <4>3, <1>4, <1>7 DEF OncePlaced
        <5> QED BY <5>1, <5>2, <3>2, <1>6
      <4> QED BY <4>2, <4>3
    <3> QED BY <3>1, <3>2
  <2> QED BY <2>1, <2>2 DEF OncePlaced
<1>12. OnlyTheCacheIsOvertaken(b)
  <2> SUFFICES ASSUME NEW i \in DOMAIN b, NEW j \in DOMAIN b, i < j, b[i].n > b[j].n
               PROVE  ~b[i].delay /\ b[j].delay
    BY DEF OnlyTheCacheIsOvertaken
  <2>1. CASE i = Len(w) + 1
    BY <2>1, <1>3, <1>8
  <2>2. CASE j = Len(w) + 1
    BY <2>2, <1>3, <1>10, <1>2
  <2>3. CASE i # Len(w) + 1 /\ j # Len(w) + 1
    <3>1. from(i) \in DOMAIN a /\ from(j) \in DOMAIN a /\ from(i) < from(j)
      BY <2>3, <1>4, <1>6
    <3> QED BY <2>3, <3>1, <1>4, <1>7 DEF OnlyTheCacheIsOvertaken
  <2> QED BY <2>1, <2>2, <2>3
<1>13. \A i \in DOMAIN b : b[i].n \in 1..(g + 1)
  BY <1>3, <1>10
<1>14. x \subseteq 1..(g + 1)
  BY <1>7
<1> QED BY <1>1, <1>7, <1>11, <1>12, <1>13, <1>14 DEF Kept, b, v

\* A command that is given up as soon as it is given.
LEMMA GivenUp ==
    ASSUME NEW w \in Seq(Cmds), NEW k \in Seq(Cmds), NEW g \in Nat, NEW x \in SUBSET Nat,
           Kept(w, k, g, x)
    PROVE  Kept(w, k, g + 1, x \cup {g + 1})
<1> DEFINE a == w \o k
<1>1. (\A i \in DOMAIN a : a[i].n \in 1..g) /\ x \subseteq 1..g /\ OncePlaced(a, g, x)
  BY DEF Kept
<1> HIDE DEF a
<1>2. OncePlaced(a, g + 1, x \cup {g + 1})
  BY <1>1 DEF OncePlaced
<1>3. (\A i \in DOMAIN a : a[i].n \in 1..(g + 1)) /\ x \cup {g + 1} \subseteq 1..(g + 1)
  BY <1>1
<1> QED BY <1>2, <1>3 DEF Kept, a

\* With an empty cache only what was sent counts.
LEMMA NoCache ==
    ASSUME NEW w, NEW e, NEW g, NEW x, w \o e = w, DOMAIN e = {},
           \A i \in DOMAIN w : w[i].n \in 1..g, x \subseteq 1..g,
           OncePlaced(w, g, x), OnlyTheCacheIsOvertaken(w)
    PROVE  Kept(w, e, g, x)
BY DEF Kept

\* The cache is sent.
LEMMA CacheSent ==
    ASSUME NEW w \in Seq(Cmds), NEW k \in Seq(Cmds), NEW g, NEW x, Kept(w, k, g, x)
    PROVE  w \o k \in Seq(Cmds) /\ Kept(w \o k, <<>>, g, x)
<1>1. w \o k \in Seq(Cmds) /\ (w \o k) \o <<>> = w \o k /\ DOMAIN <<>> = {}
  OBVIOUS
<1> QED BY <1>1 DEF Kept

\* The cache is given up.
LEMMA CacheLost ==
    ASSUME NEW w \in Seq(Cmds), NEW k \in Seq(Cmds), NEW g \in Nat, NEW x \in SUBSET Nat,
           Kept(w, k, g, x)
    PROVE  /\ Numbers(k) \subseteq Nat
           /\ Kept(w, <<>>, g, x \cup Numbers(k))
<1> DEFINE a == w \o k
           m == Len(w)
<1>1. w \o <<>> = w /\ DOMAIN <<>> = {}
  OBVIOUS
<1>2. /\ DOMAIN a = 1..(m + Len(k)) /\ DOMAIN w = 1..m /\ m \in Nat /\ Len(k) \in Nat
      /\ DOMAIN k = 1..Len(k)
      /\ (\A i \in 1..m : a[i] = w[i]) /\ (\A i \in 1..Len(k) : a[m + i] = k[i])
  BY Places
<1>3. /\ \A i \in DOMAIN a : a[i].n \in 1..g
      /\ x \subseteq 1..g /\ OncePlaced(a, g, x) /\ OnlyTheCacheIsOvertaken(a)
  BY DEF Kept
<1> HIDE DEF a, m
<1>4. \A i \in DOMAIN w : i \in DOMAIN a /\ a[i] = w[i]
  BY <1>2
<1>5. \A i \in DOMAIN k : m + i \in DOMAIN a /\ a[m + i] = k[i]
  BY <1>2
<1>6. Numbers(k) \subseteq 1..g
  BY <1>3, <1>5 DEF Numbers
<1>7. \A n \in 1..g : n \in x \cup Numbers(k) \/ \E i \in DOMAIN w : w[i].n = n
  <2> SUFFICES ASSUME NEW n \in 1..g, n \notin x
               PROVE  n \in Numbers(k) \/ \E i \in DOMAIN w : w[i].n = n
    OBVIOUS
  <2>1. PICK i \in DOMAIN a : a[i].n = n
    BY <1>3 DEF OncePlaced
  <2>2. CASE i <= m
    BY <2>1, <2>2, <1>2
  <2>3. CASE i > m
    <3>1. i - m \in DOMAIN k /\ a[m + (i - m)] = k[i - m] /\ m + (i - m) = i
      BY <2>3, <1>2
    <3> QED BY <2>1, <3>1 DEF Numbers
  <2> QED BY <2>2, <2>3, <1>2
<1>8. ASSUME NEW i \in DOMAIN w
      PROVE  w[i].n \notin x \cup Numbers(k) /\ \A j \in DOMAIN w : w[j].n = w[i].n => j = i
  <2>1. w[i].n \notin x /\ \A j \in DOMAIN w : w[j].n = w[i].n => j = i
    BY <1>3, <1>4 DEF OncePlaced
  <2>2. ASSUME NEW h \in DOMAIN k, k[h].n = w[i].n PROVE FALSE
    <3>1. m + h = i
      BY <2>2, <1>3, <1>4, <1>5 DEF OncePlaced
    <3> QED BY <3>1, <1>2
  <2> QED BY <2>1, <2>2 DEF Numbers
<1>9. OnlyTheCacheIsOvertaken(w)
  BY <1>3, <1>4 DEF OnlyTheCacheIsOvertaken
<1>10. OncePlaced(w, g, x \cup Numbers(k))
  BY <1>7, <1>8 DEF OncePlaced
<1>11. \A i \in DOMAIN w : w[i].n \in 1..g
  BY <1>3, <1>4
<1>12. x \cup Numbers(k) \subseteq 1..g
  BY <1>3, <1>6
<1>13. Kept(w, <<>>, g, x \cup Numbers(k))
  BY <1>1, <1>9, <1>10, <1>11, <1>12, NoCache
<1> QED BY <1>6, <1>13

LEMMA CommandsInit == InitCmds => CommandsInv
<1> SUFFICES ASSUME InitCmds PROVE CommandsInv
  OBVIOUS
<1>1. <<>> \o <<>> = <<>> /\ DOMAIN <<>> = {} /\ 1..0 = {} /\ <<>> \in Seq(Cmds)
  OBVIOUS
<1>2. Kept(<<>>, <<>>, 0, {})
  BY <1>1 DEF Kept, OncePlaced, OnlyTheCacheIsOvertaken
<1> QED BY <1>1, <1>2 DEF InitCmds, CommandsInv

\* A step that changes only link l's commands, and keeps them.
LEMMA OneLink ==
    ASSUME CommandsInv, NEW l \in Links, NEW w \in Seq(Cmds), NEW k \in Seq(Cmds),
           NEW g \in Nat, NEW x \in SUBSET Nat, Kept(w, k, g, x),
           has_logic_' \subseteq Links,
           wire' = [wire EXCEPT ![l] = w], cache_' = [cache_ EXCEPT ![l] = k],
           given' = [given EXCEPT ![l] = g], gone' = [gone EXCEPT ![l] = x]
    PROVE  CommandsInv'
<1>1. ASSUME NEW h \in Links PROVE Kept(wire'[h], cache_'[h], given'[h], gone'[h])
  <2>1. CASE h = l
    BY <2>1 DEF CommandsInv
  <2>2. CASE h # l
    BY <2>2 DEF CommandsInv
  <2> QED BY <2>1, <2>2
<1>2. /\ wire' \in [Links -> Seq(Cmds)] /\ cache_' \in [Links -> Seq(Cmds)]
      /\ given' \in [Links -> Nat] /\ gone' \in [Links -> SUBSET Nat]
  BY DEF CommandsInv
<1> QED BY <1>1, <1>2 DEF CommandsInv

\* What does not change can be written as a change.
LEMMA Same ==
    ASSUME CommandsInv, NEW l \in Links
    PROVE  /\ wire = [wire EXCEPT ![l] = wire[l]] /\ cache_ = [cache_ EXCEPT ![l] = cache_[l]]
           /\ given = [given EXCEPT ![l] = given[l]] /\ gone = [gone EXCEPT ![l] = gone[l]]
BY DEF CommandsInv

LEMMA CommandsStep == CommandsInv /\ [NextCmds]_cmdVars => CommandsInv'
<1> SUFFICES ASSUME CommandsInv, [NextCmds]_cmdVars PROVE CommandsInv'
  OBVIOUS
<1> DEFINE Of(l) == /\ wire[l] \in Seq(Cmds) /\ cache_[l] \in Seq(Cmds) /\ given[l] \in Nat
                    /\ gone[l] \in SUBSET Nat /\ Kept(wire[l], cache_[l], given[l], gone[l])
<1>0. \A l \in Links : Of(l)
  BY DEF CommandsInv
<1>m. has_logic_ \subseteq Links
  BY DEF CommandsInv
<1>c. \A l \in Links, s \in Sizes \cup {NoSize}, d \in BOOLEAN :
         LET c == Cmd(l, s, d) IN c \in Cmds /\ c.n = given[l] + 1 /\ (c.delay <=> d)
  BY <1>0 DEF Cmd, Cmds
<1>1. ASSUME NEW l \in Links, NEW s \in Sizes \cup {NoSize}, NEW sent \in BOOLEAN,
             SendCmdDelay(l, s, sent)
      PROVE  CommandsInv'
  <2> DEFINE g == given[l] + 1
             k == Append(cache_[l], Cmd(l, s, TRUE))
  <2>1. /\ has_logic_' \subseteq Links /\ given' = [given EXCEPT ![l] = g] /\ given'[l] = g
        /\ g \in Nat
    BY <1>1, <1>m, <1>0 DEF SendCmdDelay, CommandsInv
  <2>2. k \in Seq(Cmds) /\ Kept(wire[l], k, g, gone[l])
    BY <1>0, <1>c, Delayed
  <2>3. CASE s = NoSize
    <3>1. /\ cache_' = [cache_ EXCEPT ![l] = cache_[l]] /\ wire' = [wire EXCEPT ![l] = wire[l]]
          /\ gone' = [gone EXCEPT ![l] = gone[l] \cup {g}]
      BY <1>1, <2>1, <2>3, Same DEF SendCmdDelay
    <3>2. Kept(wire[l], cache_[l], g, gone[l] \cup {g}) /\ gone[l] \cup {g} \in SUBSET Nat
      BY <1>0, <2>1, GivenUp
    <3> HIDE DEF k, g
    <3> QED BY <3>1, <3>2, <2>1, <1>0, OneLink
  <2>4. CASE s # NoSize /\ SendCache(l, k, sent)
    <3>1. cache_' = [cache_ EXCEPT ![l] = <<>>] /\ <<>> \in Seq(Cmds)
      BY <2>4 DEF SendCache
    <3> HIDE DEF k, g
    <3>2. CASE sent
      <4>1. wire' = [wire EXCEPT ![l] = wire[l] \o k] /\ gone' = [gone EXCEPT ![l] = gone[l]]
        BY <2>4, <3>2, Same DEF SendCache
      <4>2. wire[l] \o k \in Seq(Cmds) /\ Kept(wire[l] \o k, <<>>, g, gone[l])
        BY <2>2, <1>0, CacheSent
      <4> QED BY <4>1, <4>2, <3>1, <2>1, <1>0, OneLink
    <3>3. CASE ~sent
      <4>1. wire' = [wire EXCEPT ![l] = wire[l]] /\ gone' = [gone EXCEPT ![l] = gone[l] \cup Numbers(k)]
        BY <2>4, <3>3, Same DEF SendCache
      <4>2. gone[l] \cup Numbers(k) \in SUBSET Nat /\ Kept(wire[l], <<>>, g, gone[l] \cup Numbers(k))
        BY <2>1, <2>2, <1>0, CacheLost
      <4> QED BY <4>1, <4>2, <3>1, <2>1, <1>0, OneLink
    <3> QED BY <3>2, <3>3
  <2>5. CASE cache_' = [cache_ EXCEPT ![l] = k] /\ UNCHANGED <<wire, gone>>
    <3>1. wire' = [wire EXCEPT ![l] = wire[l]] /\ gone' = [gone EXCEPT ![l] = gone[l]]
      BY <2>5, Same
    <3> HIDE DEF k, g
    <3> QED BY <3>1, <2>5, <2>2, <2>1, <1>0, OneLink
  <2> QED BY <1>1, <2>3, <2>4, <2>5 DEF SendCmdDelay
<1>2. ASSUME NEW l \in Links, NEW s \in Sizes \cup {NoSize}, NEW sent \in BOOLEAN,
             SendCmd(l, s, sent)
      PROVE  CommandsInv'
  <2> DEFINE g == given[l] + 1
             w == Append(wire[l], Cmd(l, s, FALSE))
  <2>1. /\ has_logic_' \subseteq Links /\ given' = [given EXCEPT ![l] = g] /\ given'[l] = g
        /\ g \in Nat /\ cache_' = [cache_ EXCEPT ![l] = cache_[l]]
    BY <1>2, <1>m, <1>0, Same DEF SendCmd, CommandsInv
  <2>2. CASE sent
    <3>1. wire' = [wire EXCEPT ![l] = w] /\ gone' = [gone EXCEPT ![l] = gone[l]]
      BY <1>2, <2>2, Same DEF SendCmd
    <3>2. w \in Seq(Cmds) /\ Kept(w, cache_[l], g, gone[l])
      BY <1>0, <1>c, AtOnce
    <3> HIDE DEF w, g
    <3> QED BY <3>1, <3>2, <2>1, <1>0, OneLink
  <2>3. CASE ~sent
    <3>1. wire' = [wire EXCEPT ![l] = wire[l]] /\ gone' = [gone EXCEPT ![l] = gone[l] \cup {g}]
      BY <1>2, <2>1, <2>3, Same DEF SendCmd
    <3>2. Kept(wire[l], cache_[l], g, gone[l] \cup {g}) /\ gone[l] \cup {g} \in SUBSET Nat
      BY <1>0, <2>1, GivenUp
    <3> HIDE DEF g
    <3> QED BY <3>1, <3>2, <2>1, <1>0, OneLink
  <2> QED BY <2>2, <2>3
<1>3. ASSUME NEW failing \in SUBSET Links, FlushCache(failing) PROVE CommandsInv'
  <2>1. \A l \in Links : failing \subseteq has_logic_ /\ given' = given /\ has_logic_' = has_logic_
    BY <1>3 DEF FlushCache
  <2>2. ASSUME NEW l \in Links
        PROVE  /\ wire'[l] \in Seq(Cmds) /\ cache_'[l] \in Seq(Cmds) /\ gone'[l] \in SUBSET Nat
               /\ Kept(wire'[l], cache_'[l], given'[l], gone'[l])
    <3>1. CASE l \notin has_logic_
      BY <3>1, <1>3, <1>0 DEF FlushCache
    <3>2. CASE l \in has_logic_ \ failing
      <4>1. wire'[l] = wire[l] \o cache_[l] /\ cache_'[l] = <<>> /\ gone'[l] = gone[l]
            /\ given'[l] = given[l]
        BY <3>2, <1>3 DEF FlushCache
      <4> QED BY <4>1, <1>0, CacheSent
    <3>3. CASE l \in failing
      <4>1. wire'[l] = wire[l] /\ cache_'[l] = <<>> /\ gone'[l] = gone[l] \cup Numbers(cache_[l])
            /\ given'[l] = given[l]
        BY <3>3, <1>3 DEF FlushCache
      <4>2. <<>> \in Seq(Cmds) /\ l \in Links
        OBVIOUS
      <4>3. /\ Numbers(cache_[l]) \subseteq Nat
            /\ Kept(wire[l], <<>>, given[l], gone[l] \cup Numbers(cache_[l]))
        BY <1>0, CacheLost
      <4> HIDE DEF Of
      <4>4. wire[l] \in Seq(Cmds) /\ gone[l] \in SUBSET Nat
        BY <1>0 DEF Of
      <4>5. gone[l] \cup Numbers(cache_[l]) \in SUBSET Nat
        BY <4>3, <4>4
      <4> QED BY <4>1, <4>2, <4>3, <4>4, <4>5
    <3> QED BY <3>1, <3>2, <3>3
  <2>3. /\ wire' \in [Links -> Seq(Cmds)] /\ cache_' \in [Links -> Seq(Cmds)]
        /\ gone' \in [Links -> SUBSET Nat]
    BY <2>2, <1>3 DEF FlushCache
  <2>4. given' \in [Links -> Nat] /\ has_logic_' \subseteq Links
    BY <1>3, <1>m DEF FlushCache, CommandsInv
  <2> QED BY <2>2, <2>3, <2>4 DEF CommandsInv
<1>4. ASSUME NEW l \in Links, AddLogic(l) PROVE CommandsInv'
  BY <1>4 DEF AddLogic, CommandsInv
<1>5. ASSUME NEW l \in Links, DelLogic(l) PROVE CommandsInv'
  <2>1. /\ has_logic_' \subseteq Links /\ <<>> \in Seq(Cmds)
        /\ gone' = [gone EXCEPT ![l] = gone[l] \cup Numbers(cache_[l])]
        /\ cache_' = [cache_ EXCEPT ![l] = <<>>]
        /\ given' = [given EXCEPT ![l] = given[l]] /\ wire' = [wire EXCEPT ![l] = wire[l]]
    BY <1>5, <1>m, Same DEF DelLogic
  <2>2. /\ gone[l] \cup Numbers(cache_[l]) \in SUBSET Nat
        /\ Kept(wire[l], <<>>, given[l], gone[l] \cup Numbers(cache_[l]))
    BY <1>0, CacheLost
  <2> QED BY <2>1, <2>2, <1>0, OneLink
<1>6. CASE UNCHANGED cmdVars
  BY <1>6 DEF cmdVars, CommandsInv
<1> QED BY <1>1, <1>2, <1>3, <1>4, <1>5, <1>6 DEF NextCmds

\* For any links, sizes and numbers of commands: each command given is in one place, and only those
\* in the cache are overtaken (SendCmd, SendCmdDelay, SendCache, FlushCache).
THEOREM LinkKeepsCommands == SpecCmds => []CommandsKept
<1>1. CommandsInv => CommandsKept
  BY DEF CommandsInv, CommandsKept, Kept
<1> QED BY <1>1, CommandsInit, CommandsStep, PTL DEF SpecCmds
=============================================================================
