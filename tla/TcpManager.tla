----------------------------- MODULE TcpManager -----------------------------
(***************************************************************************)
(* The life of the TCP objects.  Application threads add clients and       *)
(* servers, kick links and stop objects; the libuv thread starts, connects *)
(* and accepts, handles read and write errors and the close requests, and  *)
(* posts a message for everything that happens.                            *)
(*                                                                         *)
(* TcpManager keeps an object in prepare_ until it runs, then in           *)
(* idx_obj_map_ (weak pointers, for lookups) and vec_objs_ (strong ones).  *)
(* Application threads look objects up under obj_mutex_; the libuv thread  *)
(* does so too, but OnConnect updates the maps after it has unlocked.      *)
(*                                                                         *)
(* A key is <<object, link>>, link 0 being the object itself.  The log     *)
(* recv_queue_ keeps every message posted, per object.                     *)
(***************************************************************************)
EXTENDS Integers, Sequences, FiniteSets

CONSTANTS
    Clients, Servers,   \* object ids
    Threads,            \* application threads
    None,               \* no thread; also the object of a message with key 0
    MaxLinks,           \* bound: links a server accepts
    MaxData,            \* bound: messages posted per object when data arrives
    MaxCalls            \* bound: calls of KickLink and StopObj

Objs == Clients \cup Servers
LinkIds == 1..MaxLinks
Keys == Objs \X (LinkIds \cup {0})

ASSUME ManagerConstants ==
    /\ Clients \cap Servers = {}
    /\ None \notin Threads /\ None \notin Objs
    /\ MaxLinks \in Nat \ {0} /\ MaxData \in Nat /\ MaxCalls \in Nat

VARIABLES
    prepare_,         \* objects added and not running yet
    idx_obj_map_,     \* objects that can be looked up
    vec_objs_,        \* the strong references
    status_,          \* ClientStatus / ServerStatus
    link_map_,        \* a server's keys (0: its own, with no TcpLink); {1} when a client has link_
    generate_,        \* TcpServer::generate_
    connecting,       \* clients with a uv_tcp_connect under way
    obj_async_queue_, \* Libuv: keys of objects to start
    obj_temp_,        \* Libuv: those being handled
    close_queue_,     \* Libuv: keys to close
    close_temp_,      \* Libuv: those being handled
    recv_queue_,      \* messages posted, per object
    obj_mutex_,       \* owner of TcpManager::obj_mutex_, where it is held across steps
    pc,               \* where each application thread is
    at,               \* the key it works on
    made,             \* objects created
    calls,            \* calls of KickLink and StopObj made
    uv,               \* where the libuv thread is
    cur,              \* the object it works on
    why,              \* the message it will post for that object
    crashed           \* "no", or what killed the process

maps == <<prepare_, idx_obj_map_, vec_objs_>>
objs == <<status_, link_map_, generate_, connecting>>
app == <<pc, at, made, calls>>
temps == <<obj_temp_, close_temp_>>
queues == <<obj_async_queue_, close_queue_>>
uvs == <<uv, cur, why>>
vars == <<maps, objs, app, temps, queues, uvs, recv_queue_, obj_mutex_, crashed>>

Init ==
    /\ prepare_ = {} /\ idx_obj_map_ = {} /\ vec_objs_ = {}
    /\ status_ = [o \in Objs |-> IF o \in Clients THEN "LINKSTOPED" ELSE "CLOSED"]
    /\ link_map_ = [o \in Objs |-> IF o \in Clients THEN {} ELSE {0}]
    /\ generate_ = [o \in Objs |-> 1]
    /\ connecting = {}
    /\ obj_async_queue_ = <<>> /\ obj_temp_ = <<>>
    /\ close_queue_ = <<>> /\ close_temp_ = <<>>
    /\ recv_queue_ = [o \in Objs \cup {None} |-> <<>>]
    /\ obj_mutex_ = None
    /\ pc = [t \in Threads |-> "idle"]
    /\ at = [t \in Threads |-> None]
    /\ made = {} /\ calls = 0
    /\ uv = "loop" /\ cur = None /\ why = "none"
    /\ crashed = "no"

Event(type, k) == [type |-> type, link |-> k]

\* PutMessage, and LinkDel for SYSTEM_STOP.
Posted(o, type, k) == [recv_queue_ EXCEPT ![o] = Append(@, Event(type, k))]

\* The application learns a link's key from the message that reports the link.
Known(o, k) ==
    \E i \in 1..Len(recv_queue_[o]) :
        recv_queue_[o][i] \in {Event("CLI_CONNECT_OK", k), Event("SVR_ACCEPT_OK", k)}

\* An assertion fails or a null pointer is used.
Crash(what) == crashed' = what /\ UNCHANGED <<maps, objs, uvs, recv_queue_>>

-----------------------------------------------------------------------------
(* Application threads.                                                     *)

\* Thread t is at a label and the process alive.
At(t, label) == crashed = "no" /\ pc[t] = label

Goto(t, label) == pc' = [pc EXCEPT ![t] = label]

\* AddClient / AddServer: a new object; GetNextObjId reads both maps with no lock.
GetNextObjId(t, o) ==
    /\ At(t, "idle")
    /\ o \in Objs \ made
    /\ made' = made \cup {o}
    /\ at' = [at EXCEPT ![t] = <<o, 0>>]
    /\ Goto(t, "getid")
    /\ UNCHANGED <<maps, objs, temps, queues, uvs, recv_queue_, obj_mutex_, calls, crashed>>

\* The object is inserted in prepare_, under obj_mutex_.
AddObj_lock(t) ==
    /\ At(t, "getid")
    /\ obj_mutex_ = None
    /\ obj_mutex_' = t
    /\ Goto(t, "insert")
    /\ UNCHANGED <<maps, objs, temps, queues, uvs, recv_queue_, at, made, calls, crashed>>

AddObj_insert(t) ==
    /\ At(t, "insert")
    /\ prepare_' = prepare_ \cup {at[t][1]}
    /\ obj_mutex_' = None
    /\ Goto(t, "added")
    /\ UNCHANGED <<idx_obj_map_, vec_objs_, objs, temps, queues, uvs, recv_queue_, at, made, calls, crashed>>

\* Libuv::TcpStartWakeup
TcpStartWakeup(t) ==
    /\ At(t, "added")
    /\ obj_async_queue_' = Append(obj_async_queue_, at[t])
    /\ Goto(t, "idle")
    /\ UNCHANGED <<maps, objs, temps, close_queue_, uvs, recv_queue_, obj_mutex_, at, made, calls, crashed>>

\* KickLink(key) for a link the application knows, or StopObj(object) for one it has added:
\* the lookup starts with obj_mutex_ taken.
Lookup(t, key, label) ==
    /\ At(t, "idle")
    /\ calls < MaxCalls
    /\ obj_mutex_ = None
    /\ obj_mutex_' = t
    /\ calls' = calls + 1
    /\ at' = [at EXCEPT ![t] = key]
    /\ Goto(t, label)
    /\ UNCHANGED <<maps, objs, temps, queues, uvs, recv_queue_, made, crashed>>

KickLink(t, o, k) == k # 0 /\ Known(o, k) /\ Lookup(t, <<o, k>>, "kick_find")
StopObj(t, o) ==
    /\ o \in made
    /\ \A u \in Threads : pc[u] \in {"getid", "insert", "added"} => at[u][1] # o
    /\ Lookup(t, <<o, 0>>, "stop_find")

\* The lookup ends, and obj_mutex_ is released.
Found(t) ==
    /\ At(t, "kick_find") \/ At(t, "stop_find")
    /\ obj_mutex_' = None
    /\ Goto(t, IF at[t][1] \notin idx_obj_map_ THEN "idle"
               ELSE IF pc[t] = "kick_find" THEN "kick" ELSE "stop")
    /\ UNCHANGED <<maps, objs, temps, queues, uvs, recv_queue_, at, made, calls, crashed>>

\* TcpClient::KickLink compares the key with its own; TcpServer::KickLink looks it up.
HasLink(o, k) == IF o \in Clients THEN k = 1 ELSE k \in link_map_[o]

\* Mutant: the halves of the key are swapped.
KickLink_close_swap(t) ==
    /\ At(t, "kick")
    /\ close_queue_' =
           IF HasLink(at[t][1], at[t][2]) THEN Append(close_queue_, <<at[t][2], at[t][1]>>) ELSE close_queue_
    /\ Goto(t, "idle")
    /\ UNCHANGED <<maps, objs, temps, obj_async_queue_, uvs, recv_queue_, obj_mutex_, at, made, calls, crashed>>

KickLink_close(t) ==
    /\ At(t, "kick")
    /\ close_queue_' = IF HasLink(at[t][1], at[t][2]) THEN Append(close_queue_, at[t]) ELSE close_queue_
    /\ Goto(t, "idle")
    /\ UNCHANGED <<maps, objs, temps, obj_async_queue_, uvs, recv_queue_, obj_mutex_, at, made, calls, crashed>>

StopObj_close(t) ==
    /\ At(t, "stop")
    /\ close_queue_' = Append(close_queue_, at[t])
    /\ Goto(t, "unlock")
    /\ UNCHANGED <<maps, objs, temps, obj_async_queue_, uvs, recv_queue_, obj_mutex_, at, made, calls, crashed>>

\* StopObj unlocks a second time, whoever holds the mutex by now.
StopObj_unlock(t) ==
    /\ At(t, "unlock")
    /\ obj_mutex_' = None
    /\ Goto(t, "idle")
    /\ UNCHANGED <<maps, objs, temps, queues, uvs, recv_queue_, at, made, calls, crashed>>

-----------------------------------------------------------------------------
(* The libuv thread.  It runs one callback at a time; a handler that finds  *)
(* the object under obj_mutex_ waits until the mutex is free.               *)

\* The libuv thread is at a label and the process alive.
Uv(label) == crashed = "no" /\ uv = label

\* The loop is between callbacks: nothing left of the queues it has swapped out.
Idle == Uv("loop") /\ obj_temp_ = <<>> /\ close_temp_ = <<>>

\* TcpObjectEvent and LinkCloseEvent swap their queue out.  A key is pushed and the async
\* handle signalled under one mutex, so the callback is due when the queue is not empty.
TcpObjectEvent ==
    /\ Idle
    /\ obj_async_queue_ # <<>>
    /\ obj_temp_' = obj_async_queue_
    /\ obj_async_queue_' = <<>>
    /\ UNCHANGED <<maps, objs, app, close_temp_, close_queue_, uvs, recv_queue_, obj_mutex_, crashed>>

\* Mutant: the queue is emptied but only its first key handled.
LinkCloseEvent_first ==
    /\ Idle
    /\ close_queue_ # <<>>
    /\ close_temp_' = <<Head(close_queue_)>>
    /\ close_queue_' = <<>>
    /\ UNCHANGED <<maps, objs, app, obj_temp_, obj_async_queue_, uvs, recv_queue_, obj_mutex_, crashed>>

LinkCloseEvent ==
    /\ Idle
    /\ close_queue_ # <<>>
    /\ close_temp_' = close_queue_
    /\ close_queue_' = <<>>
    /\ UNCHANGED <<maps, objs, app, obj_temp_, obj_async_queue_, uvs, recv_queue_, obj_mutex_, crashed>>

\* Mutant: the object is not kept.
Keep_none(o) == UNCHANGED vec_objs_

\* A running object is kept by vec_objs_.
Keep(o) == vec_objs_' = vec_objs_ \cup {o}

\* Mutant: the status is not set when the connect is issued.
OnStart_client_status(o) ==
    /\ o \in Clients
    /\ \/ connecting' = connecting \cup {o} /\ UNCHANGED recv_queue_
       \/ recv_queue_' = Posted(o, "CLI_START_FAILED", 0) /\ UNCHANGED connecting
    /\ UNCHANGED <<maps, status_>>

\* Mutant: a connect that cannot be issued is not reported.
OnStart_client_silent(o) ==
    /\ o \in Clients
    /\ \/ status_' = [status_ EXCEPT ![o] = "STARTTING"] /\ connecting' = connecting \cup {o}
       \/ UNCHANGED <<status_, connecting>>
    /\ UNCHANGED <<maps, recv_queue_>>

\* TcpManager::OnStart for a client in prepare_: uv_tcp_connect is issued, or fails.
OnStart_client(o) ==
    /\ o \in Clients
    /\ \/ /\ status_' = [status_ EXCEPT ![o] = "STARTTING"]
          /\ connecting' = connecting \cup {o}
          /\ UNCHANGED recv_queue_
       \/ /\ recv_queue_' = Posted(o, "CLI_START_FAILED", 0)
          /\ UNCHANGED <<status_, connecting>>
    /\ UNCHANGED maps

\* For a server: bind and listen; it runs at once, or stays in prepare_.
OnStart_server(o) ==
    /\ o \in Servers
    /\ \/ /\ status_' = [status_ EXCEPT ![o] = "RUNNING"]
          /\ prepare_' = prepare_ \ {o}
          /\ idx_obj_map_' = idx_obj_map_ \cup {o}
          /\ Keep(o)
          /\ UNCHANGED recv_queue_
       \/ /\ recv_queue_' = Posted(o, "SVR_START_FAILED", 0)
          /\ UNCHANGED <<status_, maps>>
    /\ UNCHANGED connecting

OnStart ==
    LET o == Head(obj_temp_)[1] IN
    /\ Uv("loop")
    /\ obj_temp_ # <<>>
    /\ obj_mutex_ = None
    /\ obj_temp_' = Tail(obj_temp_)
    /\ \/ o \in prepare_ /\ (OnStart_client(o) \/ OnStart_server(o))
       \/ o \notin prepare_ /\ UNCHANGED <<maps, status_, connecting, recv_queue_>>
    /\ UNCHANGED <<link_map_, generate_, app, close_temp_, queues, uvs, obj_mutex_, crashed>>

\* tcp_connect_cb with an error: OnError finds the client in prepare_ and drops it.
tcp_connect_cb_failed(o) ==
    /\ Idle
    /\ o \in connecting
    /\ obj_mutex_ = None
    /\ o \in prepare_
    /\ connecting' = connecting \ {o}
    /\ prepare_' = prepare_ \ {o}
    /\ recv_queue_' = Posted(o, "CLI_CONNECT_FAILED", 0)
    /\ UNCHANGED <<idx_obj_map_, vec_objs_, status_, link_map_, generate_, app, temps, queues, uvs, obj_mutex_, crashed>>

\* tcp_connect_cb without: OnConnect finds the client in prepare_ and unlocks...
tcp_connect_cb(o) ==
    /\ Idle
    /\ o \in connecting
    /\ obj_mutex_ = None
    /\ o \in prepare_
    /\ connecting' = connecting \ {o}
    /\ uv' = "connect"
    /\ cur' = o
    /\ UNCHANGED <<maps, status_, link_map_, generate_, app, temps, queues, why, recv_queue_, obj_mutex_, crashed>>

\* ... then moves it to idx_obj_map_ with no lock ...
OnConnect_update ==
    /\ Uv("connect")
    /\ prepare_' = prepare_ \ {cur}
    /\ idx_obj_map_' = idx_obj_map_ \cup {cur}
    /\ uv' = "connected"
    /\ UNCHANGED <<vec_objs_, objs, app, temps, queues, cur, why, recv_queue_, obj_mutex_, crashed>>

\* TcpClient::OnConnect makes the link, or returns 0 as its key.
OnConnect_client(o) ==
    \/ /\ status_[o] = "STARTTING"
       /\ status_' = [status_ EXCEPT ![o] = "RUNNING"]
       /\ link_map_' = [link_map_ EXCEPT ![o] = {1}]
       /\ recv_queue_' = Posted(o, "CLI_CONNECT_OK", 1)
    \/ /\ status_[o] # "STARTTING"
       /\ status_' = [status_ EXCEPT ![o] = "CLOSED"]
       /\ recv_queue_' = Posted(None, "CLI_CONNECT_FAILED", 0)
       /\ UNCHANGED link_map_

\* ... lets the client make its link, posts the outcome and keeps the object.
OnConnect ==
    /\ Uv("connected")
    /\ OnConnect_client(cur)
    /\ Keep(cur)
    /\ uv' = "loop" /\ cur' = None
    /\ UNCHANGED <<prepare_, idx_obj_map_, generate_, connecting, app, temps, queues, why, obj_mutex_, crashed>>

\* TcpServer::OnAccept: uv_accept fails and nobody is told which server; or uv_read_start fails
\* and ~TcpLink asserts on the link just made; or the link is added.
OnAccept(o) ==
    \/ /\ recv_queue_[None] = <<>>
       /\ recv_queue_' = Posted(None, "SVR_ACCEPT_FAILED", 0)
       /\ UNCHANGED <<maps, objs, uvs, crashed>>
    \/ Crash("~TcpLink")
    \/ /\ link_map_' = [link_map_ EXCEPT ![o] = @ \cup {generate_[o]}]
       /\ generate_' = [generate_ EXCEPT ![o] = @ + 1]
       /\ recv_queue_' = Posted(o, "SVR_ACCEPT_OK", generate_[o])
       /\ UNCHANGED <<maps, status_, connecting, uvs, crashed>>

\* tcp_accept_cb: TcpManager::OnAccept finds the server and posts what its OnAccept returns.
tcp_accept_cb(o) ==
    /\ Idle
    /\ o \in idx_obj_map_ \cap Servers
    /\ obj_mutex_ = None
    /\ generate_[o] <= MaxLinks
    /\ OnAccept(o)
    /\ UNCHANGED <<app, temps, queues, obj_mutex_>>

\* Mutant: the link is stopped and reported but stays in link_map_.
OnStopLink_keep(o, k) ==
    \/ k = 0 /\ 0 \in link_map_[o] /\ Crash("null link")
    \/ /\ k # 0 /\ k \in link_map_[o]
       /\ recv_queue_' = Posted(o, "SYSTEM_STOP", k)
       /\ UNCHANGED <<maps, objs, uvs, crashed>>
    \/ k \notin link_map_[o] /\ UNCHANGED <<maps, objs, uvs, recv_queue_, crashed>>

\* TcpServer::OnStopLink: the key is found or not; the server's own key has no TcpLink.
OnStopLink(o, k) ==
    \/ k = 0 /\ 0 \in link_map_[o] /\ Crash("null link")
    \/ /\ k # 0 /\ k \in link_map_[o]
       /\ link_map_' = [link_map_ EXCEPT ![o] = @ \ {k}]
       /\ recv_queue_' = Posted(o, "SYSTEM_STOP", k)
       /\ UNCHANGED <<maps, status_, generate_, connecting, uvs, crashed>>
    \/ k \notin link_map_[o] /\ UNCHANGED <<maps, objs, uvs, recv_queue_, crashed>>

\* The link of client o is stopped and reported.
StopClient(o, status) ==
    /\ status_' = [status_ EXCEPT ![o] = status]
    /\ link_map_' = [link_map_ EXCEPT ![o] = {}]
    /\ recv_queue_' = Posted(o, "SYSTEM_STOP", 1)

\* Mutant: the stopped object is not removed.
ThenRemove_none(o, type) == UNCHANGED uvs

\* RemoveObj and the message about the object come next.
ThenRemove(o, type) == uv' = "remove" /\ cur' = o /\ why' = type

\* TcpClient::OnError uses link_ without a test.
OnError_client(o) ==
    \/ link_map_[o] = {} /\ Crash("null link")
    \/ /\ link_map_[o] # {}
       /\ StopClient(o, "LINKSTOPED")
       /\ ThenRemove(o, "CLI_ERROR")
       /\ UNCHANGED <<maps, generate_, connecting, crashed>>

\* TcpManager::OnError(key) for an object in idx_obj_map_.
OnError(o, k) ==
    /\ Idle
    /\ o \in idx_obj_map_
    /\ obj_mutex_ = None
    /\ \/ o \in Clients /\ OnError_client(o)
       \/ o \in Servers /\ OnStopLink(o, k)
    /\ UNCHANGED <<app, temps, queues, obj_mutex_>>

\* tcp_accept_cb with an error: OnError for the server's own key.
tcp_accept_cb_failed(o) == o \in Servers /\ OnError(o, 0)

\* tcp_read_cb with an error or with data the link rejects, or after_write_cb with an error,
\* which may come when the link is already gone.
link_failed(o, k) == k # 0 /\ Known(o, k) /\ OnError(o, k)

\* tcp_read_cb: the link posts the packets it has cut (PutRecvQueue).
tcp_read_cb(o, k) ==
    /\ Idle
    /\ o \in idx_obj_map_ /\ k \in link_map_[o] \ {0}
    /\ obj_mutex_ = None
    /\ Len(recv_queue_[o]) < MaxData
    /\ recv_queue_' = Posted(o, "NET_DATA", k)
    /\ UNCHANGED <<maps, objs, app, temps, queues, uvs, obj_mutex_, crashed>>

\* TcpServer::OnStop with the server's key: every link is stopped and reported, with the key
\* of the server.
StopServer(o) ==
    /\ status_' = [status_ EXCEPT ![o] = "CLOSED"]
    /\ link_map_' = [link_map_ EXCEPT ![o] = {}]
    /\ recv_queue_' = [recv_queue_ EXCEPT ![o] =
           @ \o [i \in 1..Cardinality(link_map_[o] \ {0}) |-> Event("SYSTEM_STOP", 0)]]
    /\ ThenRemove(o, "SYSTEM_STOP")

\* TcpManager::OnClose for one key: a client goes whatever link is named, a server's link or
\* the server itself.
OnClose ==
    LET o == Head(close_temp_)[1]
        k == Head(close_temp_)[2]
    IN
    /\ Uv("loop")
    /\ close_temp_ # <<>>
    /\ obj_mutex_ = None
    /\ close_temp_' = Tail(close_temp_)
    /\ \/ /\ o \in idx_obj_map_ \cap Clients
          /\ IF link_map_[o] = {} THEN UNCHANGED <<status_, link_map_, recv_queue_>>
             ELSE StopClient(o, IF k = 0 THEN "CLOSED" ELSE "LINKSTOPED")
          /\ ThenRemove(o, "SYSTEM_STOP")
          /\ UNCHANGED <<maps, generate_, connecting, crashed>>
       \/ /\ o \in idx_obj_map_ \cap Servers /\ k = 0
          /\ StopServer(o)
          /\ UNCHANGED <<maps, generate_, connecting, crashed>>
       \/ o \in idx_obj_map_ \cap Servers /\ k # 0 /\ OnStopLink(o, k)
       \/ o \notin idx_obj_map_ /\ UNCHANGED <<maps, objs, uvs, recv_queue_, crashed>>
    /\ UNCHANGED <<app, obj_temp_, queues, obj_mutex_>>

\* Mutant: RemoveObj forgets the entry of idx_obj_map_.
RemoveObj_entry ==
    /\ Uv("remove")
    /\ obj_mutex_ = None
    /\ vec_objs_' = vec_objs_ \ {cur}
    /\ recv_queue_' = Posted(cur, why, 0)
    /\ uv' = "loop" /\ cur' = None /\ why' = "none"
    /\ UNCHANGED <<idx_obj_map_, prepare_, objs, app, temps, queues, obj_mutex_, crashed>>

\* RemoveObj, which asserts that it finds the object in vec_objs_, and the message after it.
RemoveObj ==
    /\ Uv("remove")
    /\ obj_mutex_ = None
    /\ idx_obj_map_' = idx_obj_map_ \ {cur}
    /\ vec_objs_' = vec_objs_ \ {cur}
    /\ recv_queue_' = Posted(cur, why, 0)
    /\ crashed' = IF cur \in vec_objs_ THEN crashed ELSE "RemoveObj"
    /\ uv' = "loop" /\ cur' = None /\ why' = "none"
    /\ UNCHANGED <<prepare_, objs, app, temps, queues, obj_mutex_>>

-----------------------------------------------------------------------------

\* Threads that are changing prepare_ or idx_obj_map_, and threads that are reading them.
Writers == {t \in Threads : pc[t] = "insert"} \cup (IF uv = "connect" THEN {"libuv"} ELSE {})
Readers == {t \in Threads : pc[t] \in {"getid", "kick_find", "stop_find"}}

\* A map is read or changed while another thread changes it: undefined behaviour, which may
\* end the process.  (What the libuv thread changes under obj_mutex_ is one action, and is not
\* counted here although GetNextObjId may read meanwhile.)
DataRace ==
    /\ crashed = "no"
    /\ \E w \in Writers, x \in Writers \cup Readers : w # x
    /\ Crash("race")
    /\ UNCHANGED <<app, temps, queues, obj_mutex_>>

AppStep(t) ==
    \/ AddObj_lock(t) \/ AddObj_insert(t) \/ TcpStartWakeup(t)
    \/ Found(t) \/ KickLink_close(t) \/ StopObj_close(t) \/ StopObj_unlock(t)

AppCall(t) ==
    \/ \E o \in Objs : GetNextObjId(t, o) \/ StopObj(t, o)
    \/ \E o \in Objs, k \in LinkIds : KickLink(t, o, k)

\* The libuv thread goes on with what it has begun or is due.
UvStep == TcpObjectEvent \/ LinkCloseEvent \/ OnStart \/ OnConnect_update \/ OnConnect \/ OnClose \/ RemoveObj

Connected(o) == tcp_connect_cb(o) \/ tcp_connect_cb_failed(o)

Next ==
    \/ \E t \in Threads : AppCall(t) \/ AppStep(t)
    \/ UvStep
    \/ \E o \in Objs : Connected(o) \/ tcp_accept_cb(o) \/ tcp_accept_cb_failed(o)
    \/ \E o \in Objs, k \in LinkIds : link_failed(o, k) \/ tcp_read_cb(o, k)
    \/ DataRace

Spec == Init /\ [][Next]_vars

\* A thread inside a call goes on, the libuv thread serves its queues, and every connect ends,
\* with success or an error (the operating system gives up at last).  Nothing is assumed about
\* peers, links or further calls.
FairSpec ==
    /\ Spec
    /\ \A t \in Threads : WF_vars(AppStep(t))
    /\ WF_vars(UvStep)
    /\ \A o \in Clients : WF_vars(Connected(o))

-----------------------------------------------------------------------------
(* Properties.                                                              *)

Labels == {"idle", "getid", "insert", "added", "kick_find", "stop_find", "kick", "stop", "unlock"}
Status == {"LINKSTOPED", "STARTTING", "RUNNING", "CLOSED"}
MsgTypes == {"NET_DATA", "CLI_START_FAILED", "CLI_CONNECT_FAILED", "CLI_CONNECT_OK", "CLI_ERROR",
             "SVR_START_FAILED", "SVR_ACCEPT_FAILED", "SVR_ACCEPT_OK", "SYSTEM_STOP"}
Msg == [type : MsgTypes, link : LinkIds \cup {0}]

MapTypes == prepare_ \subseteq Objs /\ idx_obj_map_ \subseteq Objs /\ vec_objs_ \subseteq Objs
ObjTypes ==
    /\ status_ \in [Objs -> Status]
    /\ link_map_ \in [Objs -> SUBSET (LinkIds \cup {0})]
    /\ generate_ \in [Objs -> 1..(MaxLinks + 1)]
    /\ connecting \subseteq Clients
QueueTypes ==
    /\ obj_async_queue_ \in Seq(Keys) /\ obj_temp_ \in Seq(Keys)
    /\ close_queue_ \in Seq(Keys) /\ close_temp_ \in Seq(Keys)
LogTypes == recv_queue_ \in [Objs \cup {None} -> Seq(Msg)]
AppTypes ==
    /\ obj_mutex_ \in Threads \cup {None}
    /\ pc \in [Threads -> Labels]
    /\ at \in [Threads -> Keys \cup {None}]
    /\ made \subseteq Objs /\ calls \in 0..MaxCalls
UvTypes ==
    /\ uv \in {"loop", "connect", "connected", "remove"}
    /\ cur \in Objs \cup {None}
    /\ why \in {"none", "CLI_ERROR", "SYSTEM_STOP"}
    /\ crashed \in {"no", "~TcpLink", "null link", "RemoveObj", "race"}

\* The variables keep their types.
TypeOK == MapTypes /\ ObjTypes /\ QueueTypes /\ LogTypes /\ AppTypes /\ UvTypes

\* A lookup that finds an object gets a live one (assert(sp) in SendData, KickLink, OnRead,
\* OnWrite, OnError and OnClose): what idx_obj_map_ names is held by vec_objs_, or by the
\* libuv thread inside OnConnect.
FoundIsAlive == \A o \in idx_obj_map_ : o \in vec_objs_ \/ (uv = "connected" /\ cur = o)

\* What a running object looks like.
Runs(o) ==
    /\ status_[o] = "RUNNING"
    /\ IF o \in Clients THEN link_map_[o] = {1} ELSE 0 \in link_map_[o]

\* Outside a handler, a client that can be looked up has its link, so TcpClient::OnError never
\* uses a null link_, and a server that can be looked up is running (the assertions on status_
\* in OnStopLink, OnAccept, OnLinkRead and OnLinkWrite) and has its own key.
FoundIsRunning ==
    uv = "loop" =>
        \A o \in idx_obj_map_ : Runs(o)

\* RemoveObj's assert(0) is never reached.
RemoveFinds == uv = "remove" => cur \in vec_objs_

\* TcpClient::OnConnect always finds the client in CS_STARTTING: its error branch, which would
\* report the failure under key 0, is dead.
ConnectIsStarting == uv \in {"connect", "connected"} => status_[cur] = "STARTTING"

\* Objects that no thread has inserted in prepare_ yet.
Adding(t) == pc[t] \in {"getid", "insert"}
Fresh == (Objs \ made) \cup {o \in Objs : \E t \in Threads : Adding(t) /\ at[t][1] = o}

\* An object is in one place: fresh, in prepare_, or in idx_obj_map_; a thread adds its own.
OnePlace ==
    /\ prepare_ \cap idx_obj_map_ = {}
    /\ Fresh \cap (prepare_ \cup idx_obj_map_) = {}
    /\ \A t, u \in Threads : Adding(t) /\ Adding(u) /\ at[t][1] = at[u][1] => t = u
    /\ \A t \in Threads : pc[t] # "idle" => at[t] \in Keys
    /\ \A t \in Threads : Adding(t) => at[t][1] \in made

\* What is true of an object on its way from one place to the next.
OnTheWay ==
    /\ \A o \in connecting : o \in prepare_ /\ status_[o] = "STARTTING"
    /\ uv = "connect" => cur \in Clients \cap prepare_ /\ cur \notin connecting
    /\ uv = "connected" => cur \in Clients /\ cur \notin connecting /\ cur \in idx_obj_map_
    /\ uv = "remove" => cur \in idx_obj_map_ /\ why # "none"
    /\ \A o \in Servers \cap (Fresh \cup prepare_) : 0 \in link_map_[o]
    /\ \A o \in idx_obj_map_ : Runs(o) \/ (uv # "loop" /\ o = cur)

\* The inductive invariant of the objects' lives.
ManagerInv == TypeOK /\ OnePlace /\ OnTheWay /\ FoundIsAlive /\ RemoveFinds /\ ConnectIsStarting

\* A null LinkSPtr is never used (tcp_server.cpp OnStopLink, tcp_client.cpp OnError).
NoNullLink == crashed # "null link"

\* obj_mutex_ protects the maps: nobody reads or changes them while another thread does.
MapExclusion == \A w \in Writers, x \in Writers \cup Readers : w = x

\* obj_mutex_ is held by one thread at a time.
OneHolder ==
    \A t, u \in Threads :
        pc[t] \in {"insert", "kick_find", "stop_find"} /\ pc[u] \in {"insert", "kick_find", "stop_find"} => t = u

Log(o) == {recv_queue_[o][i] : i \in 1..Len(recv_queue_[o])}

\* Once a server is stopped and removed, the end of every link it accepted has been reported
\* under the key of that link.
StoppedLinksReported ==
    \A o \in Servers, k \in LinkIds :
        (Event("SVR_ACCEPT_OK", k) \in Log(o) /\ uv = "loop" /\ o \notin idx_obj_map_)
            => Event("SYSTEM_STOP", k) \in Log(o)

\* The messages about each object come in the order LinkEvents promises.
Events == INSTANCE LinkEvents WITH recv <- [o \in Objs |-> recv_queue_[o]]
ImplementsEvents == Events!Spec

\* Every client added learns the outcome of its start or its connect.
ClientAnswered ==
    \A o \in Clients : (o \in made) ~> (recv_queue_[o] # <<>> \/ crashed # "no")

\* A close request for a client is carried out, whatever else happens to its link meanwhile.
CloseServed ==
    \A o \in Clients :
        (\E i \in 1..Len(close_queue_) : close_queue_[i][1] = o) ~> (o \notin idx_obj_map_ \/ crashed # "no")

\* What any thread looks up is alive and running with its link, and what is removed was there,
\* whatever kicks, stops, errors and connects compete for it.
LookupsHold == FoundIsAlive /\ FoundIsRunning /\ RemoveFinds
=============================================================================
