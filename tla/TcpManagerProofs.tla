-------------------------- MODULE TcpManagerProofs --------------------------
(***************************************************************************)
(* For any number of clients, servers, links and application threads: what *)
(* a lookup finds is alive and running, and RemoveObj finds what it        *)
(* removes.  The proof does not rely on obj_mutex_ excluding anybody (it   *)
(* does not: see MapExclusion and OneHolder): only the libuv thread moves  *)
(* objects between the maps, and the inductive invariant ManagerInv says   *)
(* that an object is in one place (OnePlace) and what it looks like there  *)
(* and on its way (OnTheWay).                                              *)
(*                                                                         *)
(* EventsInv adds what has been posted of an object in each place, so that *)
(* every message the libuv thread posts is one LinkEvents allows next:     *)
(* TcpManager implements LinkEvents.                                       *)
(***************************************************************************)
EXTENDS TcpManager, FiniteSetTheorems, TLAPS

-----------------------------------------------------------------------------
(* Facts the steps share.                                                   *)

LEMMA Distinct ==
    /\ Clients \cap Servers = {} /\ None \notin Threads /\ None \notin Objs
    /\ MaxLinks \in Nat \ {0} /\ MaxCalls \in Nat
BY ManagerConstants

\* The types of what is posted.
LEMMA PostedTypes ==
    {"NET_DATA", "CLI_START_FAILED", "CLI_CONNECT_FAILED", "CLI_CONNECT_OK", "CLI_ERROR",
     "SVR_START_FAILED", "SVR_ACCEPT_FAILED", "SVR_ACCEPT_OK", "SYSTEM_STOP"} \subseteq MsgTypes
BY DEF MsgTypes

\* Changing one value of a function keeps its type.
LEMMA FunUpdate ==
    ASSUME NEW D, NEW S, NEW f \in [D -> S], NEW x \in D, NEW v \in S
    PROVE  [f EXCEPT ![x] = v] \in [D -> S]
OBVIOUS

LEMMA AppendType ==
    ASSUME NEW S, NEW s \in Seq(S), NEW x \in S
    PROVE  Append(s, x) \in Seq(S)
OBVIOUS

\* Posting a well-formed message keeps the type of the log.
LEMMA PostedType ==
    ASSUME LogTypes, NEW o \in Objs \cup {None}, NEW type \in MsgTypes, NEW k \in LinkIds \cup {0}
    PROVE  Posted(o, type, k) \in [Objs \cup {None} -> Seq(Msg)]
<1>1. Event(type, k) \in Msg
  BY DEF Event, Msg
<1>2. Append(recv_queue_[o], Event(type, k)) \in Seq(Msg)
  BY <1>1, AppendType DEF LogTypes
<1>3. Posted(o, type, k) = [recv_queue_ EXCEPT ![o] = Append(recv_queue_[o], Event(type, k))]
  BY DEF Posted
<1> HIDE DEF Event
<1> QED BY <1>2, <1>3, FunUpdate DEF LogTypes

\* The parts of a key.
LEMMA KeyParts ==
    ASSUME NEW q \in Seq(Keys), q # <<>>
    PROVE  /\ Head(q) \in Keys /\ Head(q)[1] \in Objs /\ Head(q)[2] \in LinkIds \cup {0}
           /\ Tail(q) \in Seq(Keys)
<1>1. \A i \in 1..Len(q) : q[i] \in Keys
  OBVIOUS
<1>2. Len(q) \in Nat /\ Len(q) > 0 /\ Head(q) = q[1]
  OBVIOUS
<1>3. Head(q) \in Keys
  BY <1>1, <1>2
<1>4. Tail(q) \in Seq(Keys)
  OBVIOUS
<1> QED BY <1>3, <1>4 DEF Keys

\* What a step leaves alone keeps its type.
LEMMA Frame ==
    ASSUME TypeOK
    PROVE  /\ UNCHANGED maps => MapTypes'
           /\ UNCHANGED objs => ObjTypes'
           /\ UNCHANGED <<temps, queues>> => QueueTypes'
           /\ UNCHANGED recv_queue_ => LogTypes'
           /\ UNCHANGED <<app, obj_mutex_>> => AppTypes'
           /\ UNCHANGED <<uvs, crashed>> => UvTypes'
<1> USE DEF TypeOK
<1>1. UNCHANGED maps => MapTypes'
  BY DEF maps, MapTypes
<1>2. UNCHANGED objs => ObjTypes'
  BY DEF objs, ObjTypes
<1>3. UNCHANGED <<temps, queues>> => QueueTypes'
  BY DEF temps, queues, QueueTypes
<1>4. UNCHANGED recv_queue_ => LogTypes'
  BY DEF LogTypes
<1>5. UNCHANGED <<app, obj_mutex_>> => AppTypes'
  BY DEF app, AppTypes
<1>6. UNCHANGED <<uvs, crashed>> => UvTypes'
  BY DEF uvs, UvTypes
<1> QED BY <1>1, <1>2, <1>3, <1>4, <1>5, <1>6

-----------------------------------------------------------------------------
(* Init.                                                                    *)

LEMMA ManagerInit == Init => ManagerInv
<1> SUFFICES ASSUME Init PROVE ManagerInv
  OBVIOUS
<1>1. MapTypes
  BY DEF Init, MapTypes
<1>2. ObjTypes
  <2>1. 1 \in 1..(MaxLinks + 1)
    BY Distinct
  <2> QED BY <2>1 DEF Init, ObjTypes, Status
<1>3. QueueTypes
  <2>1. <<>> \in Seq(Keys)
    OBVIOUS
  <2> QED BY <2>1 DEF Init, QueueTypes
<1>4. LogTypes
  <2>1. <<>> \in Seq(Msg)
    OBVIOUS
  <2> QED BY <2>1 DEF Init, LogTypes
<1>5. AppTypes
  BY Distinct DEF Init, AppTypes, Labels
<1>6. UvTypes
  BY DEF Init, UvTypes
<1>7. OnePlace
  BY DEF Init, OnePlace, Fresh, Adding
<1>8. OnTheWay
  BY Distinct DEF Init, OnTheWay, Objs
<1>9. FoundIsAlive /\ RemoveFinds /\ ConnectIsStarting
  BY DEF Init, FoundIsAlive, RemoveFinds, ConnectIsStarting
<1> QED BY <1>1, <1>2, <1>3, <1>4, <1>5, <1>6, <1>7, <1>8, <1>9 DEF ManagerInv, TypeOK

-----------------------------------------------------------------------------
(* Steps.                                                                   *)

\* A thread that moves on keeps its types.
LEMMA GotoType ==
    ASSUME AppTypes, NEW t \in Threads, NEW l \in Labels, Goto(t, l)
    PROVE  pc' \in [Threads -> Labels]
BY DEF Goto, AppTypes

\* A thread inside a call works on a key.
LEMMA AtKey ==
    ASSUME OnePlace, NEW t \in Threads, pc[t] # "idle"
    PROVE  at[t] \in Keys /\ at[t][1] \in Objs /\ at[t][2] \in LinkIds \cup {0}
<1>1. at[t] \in Keys
  BY DEF OnePlace
<1> QED BY <1>1 DEF Keys

\* Every step of an application thread keeps the types.
LEMMA AppTypeStep ==
    ASSUME ManagerInv, NEW t \in Threads, AppCall(t) \/ AppStep(t)
    PROVE  TypeOK'
<1> USE DEF ManagerInv, TypeOK
<1>1. ASSUME NEW o \in Objs, GetNextObjId(t, o)
      PROVE  TypeOK'
  <2>1. <<o, 0>> \in Keys
    BY DEF Keys
  <2>2. pc' \in [Threads -> Labels]
    BY <1>1, GotoType DEF GetNextObjId, Labels
  <2>3. AppTypes'
    BY <1>1, <2>1, <2>2 DEF GetNextObjId, AppTypes
  <2> QED BY <1>1, <2>3, Frame DEF GetNextObjId
<1>2. CASE AddObj_lock(t)
  <2>1. pc' \in [Threads -> Labels]
    BY <1>2, GotoType DEF AddObj_lock, Labels
  <2>2. AppTypes'
    BY <1>2, <2>1 DEF AddObj_lock, AppTypes
  <2> QED BY <1>2, <2>2, Frame DEF AddObj_lock
<1>3. CASE AddObj_insert(t)
  <2>1. pc' \in [Threads -> Labels] /\ at[t][1] \in Objs
    BY <1>3, GotoType, AtKey DEF AddObj_insert, Labels, At
  <2>2. AppTypes' /\ MapTypes'
    BY <1>3, <2>1 DEF AddObj_insert, AppTypes, MapTypes
  <2> QED BY <1>3, <2>2, Frame DEF AddObj_insert
<1>4. CASE TcpStartWakeup(t)
  <2>1. pc' \in [Threads -> Labels] /\ at[t] \in Keys
    BY <1>4, GotoType, AtKey DEF TcpStartWakeup, Labels, At
  <2>2. AppTypes'
    BY <1>4, <2>1 DEF TcpStartWakeup, AppTypes
  <2>3. QueueTypes'
    BY <1>4, <2>1 DEF TcpStartWakeup, QueueTypes, temps
  <2> QED BY <1>4, <2>2, <2>3, Frame DEF TcpStartWakeup
<1>5. ASSUME NEW key \in Keys, NEW l \in Labels, Lookup(t, key, l)
      PROVE  TypeOK'
  <2>1. pc' \in [Threads -> Labels]
    BY <1>5, GotoType DEF Lookup
  <2>2. calls' \in 0..MaxCalls
    BY <1>5, Distinct DEF Lookup, AppTypes
  <2>3. AppTypes'
    BY <1>5, <2>1, <2>2 DEF Lookup, AppTypes
  <2> QED BY <1>5, <2>3, Frame DEF Lookup
<1>6. ASSUME NEW o \in Objs, StopObj(t, o)
      PROVE  TypeOK'
  <2>1. <<o, 0>> \in Keys /\ "stop_find" \in Labels
    BY DEF Keys, Labels
  <2> QED BY <1>5, <1>6, <2>1 DEF StopObj
<1>7. ASSUME NEW o \in Objs, NEW k \in LinkIds, KickLink(t, o, k)
      PROVE  TypeOK'
  <2>1. <<o, k>> \in Keys /\ "kick_find" \in Labels
    BY DEF Keys, Labels
  <2> QED BY <1>5, <1>7, <2>1 DEF KickLink
<1>8. CASE Found(t)
  <2>1. pc' \in [Threads -> Labels]
    BY <1>8, GotoType DEF Found, Labels
  <2>2. AppTypes'
    BY <1>8, <2>1 DEF Found, AppTypes
  <2> QED BY <1>8, <2>2, Frame DEF Found
<1>9. CASE KickLink_close(t) \/ StopObj_close(t)
  <2>1. pc' \in [Threads -> Labels] /\ at[t] \in Keys
    BY <1>9, GotoType, AtKey DEF KickLink_close, StopObj_close, Labels, At
  <2>2. AppTypes'
    BY <1>9, <2>1 DEF KickLink_close, StopObj_close, AppTypes
  <2>3. Append(close_queue_, at[t]) \in Seq(Keys)
    BY <2>1, AppendType DEF QueueTypes
  <2>4. close_queue_' \in Seq(Keys) /\ UNCHANGED <<temps, obj_async_queue_>>
    BY <1>9, <2>3 DEF KickLink_close, StopObj_close, QueueTypes
  <2>5. QueueTypes'
    BY <2>4 DEF QueueTypes, temps
  <2> QED BY <1>9, <2>2, <2>5, Frame DEF KickLink_close, StopObj_close
<1>10. CASE StopObj_unlock(t)
  <2>1. pc' \in [Threads -> Labels]
    BY <1>10, GotoType DEF StopObj_unlock, Labels
  <2>2. AppTypes'
    BY <1>10, <2>1 DEF StopObj_unlock, AppTypes
  <2> QED BY <1>10, <2>2, Frame DEF StopObj_unlock
<1> HIDE DEF ManagerInv, TypeOK
<1> QED BY <1>1, <1>2, <1>3, <1>4, <1>6, <1>7, <1>8, <1>9, <1>10 DEF AppCall, AppStep

\* What OnStopLink, StopClient and StopServer do to the types.
LEMMA StopTypes ==
    ASSUME TypeOK, NEW o \in Objs, NEW k \in LinkIds \cup {0}
    PROVE  /\ OnStopLink(o, k) => MapTypes' /\ ObjTypes' /\ LogTypes' /\ UvTypes'
           /\ \A s \in Status : StopClient(o, s) /\ UNCHANGED <<generate_, connecting>> => ObjTypes' /\ LogTypes'
           /\ StopServer(o) /\ UNCHANGED <<generate_, connecting>> => ObjTypes' /\ LogTypes'
<1> USE DEF TypeOK
<1>1. ASSUME OnStopLink(o, k)
      PROVE  MapTypes' /\ ObjTypes' /\ LogTypes' /\ UvTypes'
  <2>1. CASE Crash("null link")
    <3>1. UvTypes'
      BY <2>1 DEF Crash, UvTypes, uvs
    <3> QED BY <2>1, <3>1, Frame DEF Crash
  <2>2. CASE /\ link_map_' = [link_map_ EXCEPT ![o] = @ \ {k}]
             /\ recv_queue_' = Posted(o, "SYSTEM_STOP", k)
             /\ UNCHANGED <<maps, status_, generate_, connecting, uvs, crashed>>
    <3>1. LogTypes'
      BY <2>2, PostedType, PostedTypes DEF LogTypes
    <3>2. ObjTypes'
      BY <2>2 DEF ObjTypes
    <3> QED BY <2>2, <3>1, <3>2, Frame
  <2>3. CASE UNCHANGED <<maps, objs, uvs, recv_queue_, crashed>>
    BY <2>3, Frame
  <2> QED BY <1>1, <2>1, <2>2, <2>3 DEF OnStopLink
<1>2. ASSUME NEW s \in Status, StopClient(o, s), UNCHANGED <<generate_, connecting>>
      PROVE  ObjTypes' /\ LogTypes'
  <2>1. 1 \in LinkIds
    BY Distinct DEF LinkIds
  <2>2. LogTypes'
    BY <1>2, <2>1, PostedType, PostedTypes DEF StopClient, LogTypes
  <2> QED BY <1>2, <2>2 DEF StopClient, ObjTypes
<1>3. ASSUME StopServer(o), UNCHANGED <<generate_, connecting>>
      PROVE  ObjTypes' /\ LogTypes'
  <2> DEFINE n == Cardinality(link_map_[o] \ {0})
             stops == [i \in 1..n |-> Event("SYSTEM_STOP", 0)]
  <2>1. n \in Nat
    <3>1. link_map_[o] \ {0} \subseteq LinkIds
      BY DEF ObjTypes
    <3>2. IsFiniteSet(LinkIds)
      BY FS_Interval, Distinct DEF LinkIds
    <3> QED BY <3>1, <3>2, FS_Subset, FS_CardinalityType
  <2>2. Event("SYSTEM_STOP", 0) \in Msg
    BY DEF Event, Msg, MsgTypes
  <2>3. stops \in Seq(Msg)
    <3> HIDE DEF n
    <3> QED BY <2>1, <2>2
  <2>4. recv_queue_' = [recv_queue_ EXCEPT ![o] = @ \o stops]
    BY <1>3 DEF StopServer
  <2> HIDE DEF stops
  <2>5. recv_queue_[o] \o stops \in Seq(Msg)
    BY <2>3 DEF LogTypes
  <2>6. LogTypes'
    BY <2>4, <2>5 DEF LogTypes
  <2>7. ObjTypes'
    BY <1>3 DEF StopServer, ObjTypes, Status
  <2> QED BY <2>6, <2>7
<1> QED BY <1>1, <1>2, <1>3

\* Every step of the libuv thread, and the race, keeps the types.
LEMMA UvTypeStep ==
    ASSUME ManagerInv,
           \/ UvStep \/ DataRace
           \/ \E o \in Objs : Connected(o) \/ tcp_accept_cb(o) \/ tcp_accept_cb_failed(o)
           \/ \E o \in Objs, k \in LinkIds : link_failed(o, k) \/ tcp_read_cb(o, k)
    PROVE  TypeOK'
<1> USE DEF ManagerInv, TypeOK
<1>1. CASE TcpObjectEvent \/ LinkCloseEvent
  <2>1. <<>> \in Seq(Keys)
    OBVIOUS
  <2>2. QueueTypes'
    BY <1>1, <2>1 DEF TcpObjectEvent, LinkCloseEvent, QueueTypes
  <2> QED BY <1>1, <2>2, Frame DEF TcpObjectEvent, LinkCloseEvent
<1>2. CASE OnStart
  <2>1. Head(obj_temp_)[1] \in Objs /\ obj_temp_' \in Seq(Keys)
    BY <1>2, KeyParts DEF OnStart, QueueTypes
  <2>2. PICK o \in Objs : o = Head(obj_temp_)[1]
    BY <2>1
  <2>3. QueueTypes'
    BY <1>2, <2>1 DEF OnStart, QueueTypes, queues
  <2>4. MapTypes' /\ ObjTypes' /\ LogTypes'
    <3>1. CASE OnStart_client(o) /\ UNCHANGED <<link_map_, generate_>>
      <4>1. ObjTypes'
        BY <3>1 DEF OnStart_client, ObjTypes, Status
      <4>2. LogTypes'
        <5>1. Posted(o, "CLI_START_FAILED", 0) \in [Objs \cup {None} -> Seq(Msg)]
          BY PostedType, PostedTypes
        <5> QED BY <3>1, <5>1 DEF OnStart_client, LogTypes
      <4> QED BY <3>1, <4>1, <4>2, Frame DEF OnStart_client
    <3>2. CASE OnStart_server(o) /\ UNCHANGED <<link_map_, generate_>>
      <4>1. ObjTypes'
        BY <3>2 DEF OnStart_server, ObjTypes, Status
      <4>2. LogTypes'
        <5>1. Posted(o, "SVR_START_FAILED", 0) \in [Objs \cup {None} -> Seq(Msg)]
          BY PostedType, PostedTypes
        <5> QED BY <3>2, <5>1 DEF OnStart_server, LogTypes
      <4>3. MapTypes'
        BY <3>2 DEF OnStart_server, MapTypes, Keep, maps
      <4> QED BY <4>1, <4>2, <4>3
    <3>3. CASE UNCHANGED <<maps, status_, connecting, recv_queue_, link_map_, generate_>>
      BY <3>3, Frame DEF objs
    <3> QED BY <1>2, <2>2, <3>1, <3>2, <3>3 DEF OnStart
  <2> QED BY <1>2, <2>3, <2>4, Frame DEF OnStart
<1>3. ASSUME NEW o \in Objs, tcp_connect_cb_failed(o)
      PROVE  TypeOK'
  <2>1. LogTypes'
    BY <1>3, PostedType, PostedTypes DEF tcp_connect_cb_failed, LogTypes
  <2>2. MapTypes' /\ ObjTypes'
    BY <1>3 DEF tcp_connect_cb_failed, MapTypes, ObjTypes
  <2> QED BY <1>3, <2>1, <2>2, Frame DEF tcp_connect_cb_failed
<1>4. ASSUME NEW o \in Objs, tcp_connect_cb(o)
      PROVE  TypeOK'
  <2>1. ObjTypes' /\ UvTypes'
    BY <1>4 DEF tcp_connect_cb, ObjTypes, UvTypes
  <2> QED BY <1>4, <2>1, Frame DEF tcp_connect_cb
<1>5. CASE OnConnect_update
  <2>1. cur \in Objs
    BY <1>5 DEF OnConnect_update, Uv, OnTheWay, Objs
  <2>2. MapTypes' /\ UvTypes'
    BY <1>5, <2>1 DEF OnConnect_update, MapTypes, UvTypes
  <2> QED BY <1>5, <2>2, Frame DEF OnConnect_update
<1>6. CASE OnConnect
  <2>1. cur \in Objs /\ 1 \in LinkIds
    BY <1>6, Distinct DEF OnConnect, OnConnect_client, Uv, OnTheWay, Objs, LinkIds
  <2>2. LogTypes'
    <3>1. /\ Posted(cur, "CLI_CONNECT_OK", 1) \in [Objs \cup {None} -> Seq(Msg)]
          /\ Posted(None, "CLI_CONNECT_FAILED", 0) \in [Objs \cup {None} -> Seq(Msg)]
      BY <2>1, PostedType, PostedTypes
    <3> QED BY <1>6, <3>1 DEF OnConnect, OnConnect_client, LogTypes
  <2>3. ObjTypes'
    BY <1>6, <2>1 DEF OnConnect, OnConnect_client, ObjTypes, Status
  <2>4. MapTypes' /\ UvTypes'
    BY <1>6, <2>1 DEF OnConnect, OnConnect_client, MapTypes, UvTypes, Keep
  <2> QED BY <1>6, <2>2, <2>3, <2>4, Frame DEF OnConnect, OnConnect_client
<1>7. ASSUME NEW o \in Objs, tcp_accept_cb(o)
      PROVE  TypeOK'
  <2>1. MapTypes' /\ ObjTypes' /\ LogTypes' /\ UvTypes'
    <3>1. CASE /\ recv_queue_' = Posted(None, "SVR_ACCEPT_FAILED", 0)
               /\ UNCHANGED <<maps, objs, uvs, crashed>>
      <4>1. LogTypes'
        BY <3>1, PostedType, PostedTypes DEF LogTypes
      <4> QED BY <3>1, <4>1, Frame
    <3>2. CASE Crash("~TcpLink")
      <4>1. UvTypes'
        BY <3>2 DEF Crash, UvTypes, uvs
      <4> QED BY <3>2, <4>1, Frame DEF Crash
    <3>3. CASE /\ link_map_' = [link_map_ EXCEPT ![o] = @ \cup {generate_[o]}]
               /\ generate_' = [generate_ EXCEPT ![o] = @ + 1]
               /\ recv_queue_' = Posted(o, "SVR_ACCEPT_OK", generate_[o])
               /\ UNCHANGED <<maps, status_, connecting, uvs, crashed>>
      <4>1. generate_[o] \in LinkIds /\ generate_[o] + 1 \in 1..(MaxLinks + 1)
        BY <1>7, Distinct DEF tcp_accept_cb, OnAccept, ObjTypes, LinkIds
      <4>2. LogTypes'
        BY <3>3, <4>1, PostedType, PostedTypes DEF LogTypes
      <4>3. ObjTypes'
        BY <3>3, <4>1 DEF ObjTypes
      <4> QED BY <3>3, <4>2, <4>3, Frame
    <3> QED BY <1>7, <3>1, <3>2, <3>3 DEF tcp_accept_cb, OnAccept
  <2> QED BY <1>7, <2>1, Frame DEF tcp_accept_cb, OnAccept
<1>8. ASSUME NEW o \in Objs, NEW k \in LinkIds \cup {0}, OnError(o, k)
      PROVE  TypeOK'
  <2>1. MapTypes' /\ ObjTypes' /\ LogTypes' /\ UvTypes'
    <3>1. CASE OnStopLink(o, k)
      BY <3>1, StopTypes
    <3>2. CASE Crash("null link")
      <4>1. UvTypes'
        BY <3>2 DEF Crash, UvTypes, uvs
      <4> QED BY <3>2, <4>1, Frame DEF Crash
    <3>3. CASE StopClient(o, "LINKSTOPED") /\ ThenRemove(o, "CLI_ERROR")
               /\ UNCHANGED <<maps, generate_, connecting, crashed>>
      <4>1. ObjTypes' /\ LogTypes'
        BY <3>3, StopTypes DEF Status
      <4>2. UvTypes'
        BY <3>3 DEF ThenRemove, UvTypes
      <4> QED BY <3>3, <4>1, <4>2, Frame
    <3> QED BY <1>8, <3>1, <3>2, <3>3 DEF OnError, OnError_client
  <2> QED BY <1>8, <2>1, Frame DEF OnError
<1>9. ASSUME NEW o \in Objs, NEW k \in LinkIds, tcp_read_cb(o, k)
      PROVE  TypeOK'
  <2>1. LogTypes'
    BY <1>9, PostedType, PostedTypes DEF tcp_read_cb, LogTypes
  <2> QED BY <1>9, <2>1, Frame DEF tcp_read_cb
<1>10. CASE OnClose
  <2>1. /\ Head(close_temp_)[1] \in Objs /\ Head(close_temp_)[2] \in LinkIds \cup {0}
        /\ close_temp_' \in Seq(Keys)
    BY <1>10, KeyParts DEF OnClose, QueueTypes
  <2>2. PICK o \in Objs, k \in LinkIds \cup {0} : o = Head(close_temp_)[1] /\ k = Head(close_temp_)[2]
    BY <2>1
  <2>3. QueueTypes'
    BY <1>10, <2>1 DEF OnClose, QueueTypes, queues
  <2>4. MapTypes' /\ ObjTypes' /\ LogTypes' /\ UvTypes'
    <3>1. CASE /\ IF link_map_[o] = {} THEN UNCHANGED <<status_, link_map_, recv_queue_>>
                  ELSE StopClient(o, IF k = 0 THEN "CLOSED" ELSE "LINKSTOPED")
               /\ ThenRemove(o, "SYSTEM_STOP")
               /\ UNCHANGED <<maps, generate_, connecting, crashed>>
      <4>1. ObjTypes' /\ LogTypes'
        <5>1. CASE UNCHANGED <<status_, link_map_, recv_queue_>>
          BY <3>1, <5>1, Frame DEF objs
        <5>2. CASE StopClient(o, IF k = 0 THEN "CLOSED" ELSE "LINKSTOPED")
          BY <3>1, <5>2, StopTypes DEF Status
        <5> QED BY <3>1, <5>1, <5>2
      <4>2. UvTypes'
        BY <3>1 DEF ThenRemove, UvTypes
      <4> QED BY <3>1, <4>1, <4>2, Frame
    <3>2. CASE StopServer(o) /\ UNCHANGED <<maps, generate_, connecting, crashed>>
      <4>1. UvTypes'
        BY <3>2 DEF StopServer, ThenRemove, UvTypes
      <4> QED BY <3>2, <4>1, StopTypes, Frame
    <3>3. CASE OnStopLink(o, k)
      BY <3>3, StopTypes
    <3>4. CASE UNCHANGED <<maps, objs, uvs, recv_queue_, crashed>>
      BY <3>4, Frame
    <3> QED BY <1>10, <2>2, <3>1, <3>2, <3>3, <3>4 DEF OnClose
  <2> QED BY <1>10, <2>3, <2>4, Frame DEF OnClose
<1>11. CASE RemoveObj
  <2>1. cur \in Objs /\ why \in MsgTypes
    BY <1>11 DEF RemoveObj, Uv, OnTheWay, MapTypes, UvTypes, MsgTypes
  <2>2. LogTypes'
    BY <1>11, <2>1, PostedType, PostedTypes DEF RemoveObj, LogTypes
  <2>3. MapTypes' /\ UvTypes'
    BY <1>11 DEF RemoveObj, MapTypes, UvTypes
  <2> QED BY <1>11, <2>2, <2>3, Frame DEF RemoveObj
<1>12. CASE DataRace
  <2>1. UvTypes'
    BY <1>12 DEF DataRace, Crash, UvTypes, uvs
  <2> QED BY <1>12, <2>1, Frame DEF DataRace, Crash
<1> HIDE DEF ManagerInv, TypeOK
<1> QED BY <1>1, <1>2, <1>3, <1>4, <1>5, <1>6, <1>7, <1>8, <1>9, <1>10, <1>11, <1>12
        DEF UvStep, Connected, tcp_accept_cb_failed, link_failed

LEMMA TypeStep == ManagerInv /\ [Next]_vars => TypeOK'
<1> SUFFICES ASSUME ManagerInv, [Next]_vars PROVE TypeOK'
  OBVIOUS
<1>1. CASE UNCHANGED vars
  BY <1>1, Frame DEF vars, ManagerInv, TypeOK
<1> QED BY <1>1, AppTypeStep, UvTypeStep DEF Next

\* A step that leaves the maps, the libuv thread and the places of the threads alone keeps
\* every object where it is.
LEMMA Stays ==
    ASSUME ManagerInv, UNCHANGED <<maps, status_, link_map_, connecting, uvs, pc, at, made>>
    PROVE  OnePlace' /\ OnTheWay' /\ FoundIsAlive' /\ RemoveFinds' /\ ConnectIsStarting'
<1>1. Fresh' = Fresh /\ \A t \in Threads : Adding(t)' = Adding(t)
  BY DEF Fresh, Adding
<1>2. OnePlace'
  BY <1>1 DEF ManagerInv, OnePlace, Adding, maps
<1>3. OnTheWay'
  BY <1>1 DEF ManagerInv, OnTheWay, Runs, maps, uvs
<1>4. FoundIsAlive' /\ RemoveFinds' /\ ConnectIsStarting'
  BY DEF ManagerInv, FoundIsAlive, RemoveFinds, ConnectIsStarting, maps, uvs
<1> QED BY <1>2, <1>3, <1>4

\* Application threads: the only object they move is a fresh one, into prepare_.
LEMMA AppPlaceStep ==
    ASSUME ManagerInv, NEW t \in Threads, AppCall(t) \/ AppStep(t)
    PROVE  OnePlace' /\ OnTheWay' /\ FoundIsAlive' /\ RemoveFinds' /\ ConnectIsStarting'
<1> USE DEF ManagerInv
<1>0. /\ pc \in [Threads -> Labels] /\ at \in [Threads -> Keys \cup {None}] /\ made \subseteq Objs
      /\ prepare_ \subseteq Objs
  BY DEF TypeOK, AppTypes, MapTypes
<1>a. ASSUME UNCHANGED <<idx_obj_map_, vec_objs_, status_, link_map_, connecting, uvs>>,
             prepare_ \subseteq prepare_', prepare_' \cup Fresh' \subseteq prepare_ \cup Fresh
      PROVE  OnTheWay' /\ FoundIsAlive' /\ RemoveFinds' /\ ConnectIsStarting'
  <2>1. OnTheWay'
    BY <1>a DEF OnTheWay, Runs, uvs
  <2> QED BY <1>a, <2>1 DEF FoundIsAlive, RemoveFinds, ConnectIsStarting, uvs
\* The thread goes on to a label outside the adding of an object.
<1>b. ASSUME NEW l \in Labels, Goto(t, l), l \notin {"getid", "insert"}, UNCHANGED <<maps, made>>,
             ~Adding(t), at' = at \/ \E key \in Keys : at' = [at EXCEPT ![t] = key],
             l # "idle" => at'[t] \in Keys
      PROVE  OnePlace' /\ Fresh' \subseteq Fresh
  <2>1. /\ pc'[t] = l /\ \A u \in Threads \ {t} : pc'[u] = pc[u] /\ at'[u] = at[u]
    BY <1>0, <1>b DEF Goto
  <2>2. ~Adding(t)' /\ \A u \in Threads \ {t} : Adding(u)' <=> Adding(u)
    BY <1>b, <2>1 DEF Adding
  <2>3. Fresh' = Fresh
    BY <1>b, <2>1, <2>2 DEF Fresh
  <2>4. OnePlace'
    BY <1>b, <2>1, <2>2, <2>3 DEF OnePlace, maps
  <2> QED BY <2>3, <2>4
<1>1. ASSUME NEW o \in Objs, GetNextObjId(t, o)
      PROVE  OnePlace' /\ OnTheWay' /\ FoundIsAlive' /\ RemoveFinds' /\ ConnectIsStarting'
  <2>1. /\ o \notin made /\ made' = made \cup {o} /\ pc'[t] = "getid" /\ at'[t] = <<o, 0>>
        /\ \A u \in Threads \ {t} : pc'[u] = pc[u] /\ at'[u] = at[u]
        /\ UNCHANGED <<maps, objs, uvs>> /\ pc[t] = "idle"
    BY <1>0, <1>1 DEF GetNextObjId, Goto, At
  <2>2. Adding(t)' /\ ~Adding(t) /\ \A u \in Threads \ {t} : Adding(u)' <=> Adding(u)
    BY <2>1 DEF Adding
  <2>3. at'[t][1] = o /\ at'[t] \in Keys
    BY <2>1 DEF Keys
  <2>4. Fresh' = Fresh
    BY <2>1, <2>2, <2>3 DEF Fresh
  <2>5. OnePlace'
    BY <2>1, <2>2, <2>3, <2>4 DEF OnePlace, maps
  <2> QED BY <1>a, <2>1, <2>4, <2>5 DEF maps, objs
<1>2. CASE AddObj_lock(t)
  <2>1. /\ pc'[t] = "insert" /\ pc[t] = "getid" /\ \A u \in Threads \ {t} : pc'[u] = pc[u]
        /\ UNCHANGED <<maps, objs, uvs, at, made>>
    BY <1>0, <1>2 DEF AddObj_lock, Goto, At
  <2>2. \A u \in Threads : Adding(u)' <=> Adding(u)
    BY <2>1 DEF Adding
  <2>3. Fresh' = Fresh
    BY <2>1, <2>2 DEF Fresh
  <2>4. OnePlace'
    BY <2>1, <2>2, <2>3 DEF OnePlace, maps
  <2> QED BY <1>a, <2>1, <2>3, <2>4 DEF maps, objs
<1>3. CASE AddObj_insert(t)
  <2>1. /\ pc'[t] = "added" /\ pc[t] = "insert" /\ \A u \in Threads \ {t} : pc'[u] = pc[u]
        /\ UNCHANGED <<idx_obj_map_, vec_objs_, objs, uvs, at, made>>
        /\ prepare_' = prepare_ \cup {at[t][1]}
    BY <1>0, <1>3 DEF AddObj_insert, Goto, At
  <2>2. Adding(t) /\ ~Adding(t)' /\ \A u \in Threads \ {t} : Adding(u)' <=> Adding(u)
    BY <2>1 DEF Adding
  <2>3. at[t][1] \in Objs /\ at[t][1] \in made /\ at[t][1] \in Fresh
    BY <2>1, <2>2, AtKey DEF OnePlace, Fresh
  <2>4. Fresh' = Fresh \ {at[t][1]}
    BY <2>1, <2>2, <2>3 DEF Fresh, OnePlace
  <2>5. OnePlace'
    BY <2>1, <2>2, <2>3, <2>4 DEF OnePlace
  <2> QED BY <1>a, <2>1, <2>3, <2>4, <2>5 DEF objs
<1>4. CASE TcpStartWakeup(t) \/ Found(t) \/ KickLink_close(t) \/ StopObj_close(t) \/ StopObj_unlock(t)
  <2>1. UNCHANGED <<maps, objs, uvs, at, made>>
    BY <1>4 DEF TcpStartWakeup, Found, KickLink_close, StopObj_close, StopObj_unlock
  <2>2. PICK l \in Labels \ {"getid", "insert"} : Goto(t, l)
    BY <1>4 DEF TcpStartWakeup, Found, KickLink_close, StopObj_close, StopObj_unlock, Labels
  <2>3. pc[t] \notin {"idle", "getid", "insert"}
    BY <1>4 DEF TcpStartWakeup, Found, KickLink_close, StopObj_close, StopObj_unlock, At
  <2>4. ~Adding(t) /\ at[t] \in Keys
    BY <2>3, AtKey DEF Adding
  <2>5. OnePlace' /\ Fresh' \subseteq Fresh
    BY <1>b, <2>1, <2>2, <2>4
  <2> QED BY <1>a, <2>1, <2>5 DEF maps, objs
<1>5. ASSUME NEW key \in Keys, NEW l \in Labels, l \notin {"getid", "insert"}, Lookup(t, key, l)
      PROVE  OnePlace' /\ OnTheWay' /\ FoundIsAlive' /\ RemoveFinds' /\ ConnectIsStarting'
  <2>1. /\ UNCHANGED <<maps, objs, uvs, made>> /\ pc[t] = "idle" /\ Goto(t, l)
        /\ at' = [at EXCEPT ![t] = key] /\ at'[t] = key
    BY <1>0, <1>5 DEF Lookup, At
  <2>2. OnePlace' /\ Fresh' \subseteq Fresh
    BY <1>b, <1>5, <2>1 DEF Adding
  <2> QED BY <1>a, <2>1, <2>2 DEF maps, objs
<1>6. ASSUME NEW o \in Objs, StopObj(t, o)
      PROVE  OnePlace' /\ OnTheWay' /\ FoundIsAlive' /\ RemoveFinds' /\ ConnectIsStarting'
  <2>1. <<o, 0>> \in Keys /\ "stop_find" \in Labels
    BY DEF Keys, Labels
  <2> QED BY <1>5, <1>6, <2>1 DEF StopObj
<1>7. ASSUME NEW o \in Objs, NEW k \in LinkIds, KickLink(t, o, k)
      PROVE  OnePlace' /\ OnTheWay' /\ FoundIsAlive' /\ RemoveFinds' /\ ConnectIsStarting'
  <2>1. <<o, k>> \in Keys /\ "kick_find" \in Labels
    BY DEF Keys, Labels
  <2> QED BY <1>5, <1>7, <2>1 DEF KickLink
<1> QED BY <1>1, <1>2, <1>3, <1>4, <1>6, <1>7 DEF AppCall, AppStep

\* The libuv thread: what each handler does to the place of its object.
LEMMA UvPlaceStep ==
    ASSUME ManagerInv,
           \/ UvStep \/ DataRace
           \/ \E o \in Objs : Connected(o) \/ tcp_accept_cb(o) \/ tcp_accept_cb_failed(o)
           \/ \E o \in Objs, k \in LinkIds : link_failed(o, k) \/ tcp_read_cb(o, k)
    PROVE  OnePlace' /\ OnTheWay' /\ FoundIsAlive' /\ RemoveFinds' /\ ConnectIsStarting'
<1> DEFINE Goal == OnePlace' /\ OnTheWay' /\ FoundIsAlive' /\ RemoveFinds' /\ ConnectIsStarting'
<1>0. /\ status_ \in [Objs -> Status] /\ link_map_ \in [Objs -> SUBSET (LinkIds \cup {0})]
      /\ prepare_ \subseteq Objs /\ idx_obj_map_ \subseteq Objs /\ connecting \subseteq Clients
      /\ Clients \cap Servers = {} /\ None \notin Objs /\ Objs = Clients \cup Servers
      /\ 0 \notin LinkIds
  BY Distinct DEF ManagerInv, TypeOK, MapTypes, ObjTypes, Objs, LinkIds
<1>u. UNCHANGED app => Fresh' = Fresh /\ \A t \in Threads : Adding(t)' = Adding(t)
  BY DEF app, Fresh, Adding
\* No object changes its place, or it moves within prepare_ and idx_obj_map_.
<1>p. ASSUME UNCHANGED app, prepare_' \cup idx_obj_map_' \subseteq prepare_ \cup idx_obj_map_,
             prepare_' \cap idx_obj_map_' = {}
      PROVE  OnePlace'
  BY <1>u, <1>p DEF ManagerInv, OnePlace, app
<1>1. CASE TcpObjectEvent \/ LinkCloseEvent \/ DataRace
  BY <1>1, Stays DEF TcpObjectEvent, LinkCloseEvent, DataRace, Crash, objs, app
<1>2. CASE OnStart
  <2>1. Head(obj_temp_)[1] \in Objs
    BY <1>2, KeyParts DEF OnStart, ManagerInv, TypeOK, QueueTypes
  <2>2. PICK o \in Objs : o = Head(obj_temp_)[1]
    BY <2>1
  <2>3. uv = "loop" /\ UNCHANGED <<link_map_, app, uvs>>
    BY <1>2 DEF OnStart, Uv
  <2>4. CASE o \in prepare_ /\ OnStart_client(o)
    <3>1. OnePlace'
      BY <1>p, <2>3, <2>4 DEF OnStart_client, maps, ManagerInv, OnePlace
    <3>2. o \notin idx_obj_map_
      BY <2>4 DEF ManagerInv, OnePlace
    <3>3. \A x \in Objs : x # o => status_'[x] = status_[x]
      BY <1>0, <2>4 DEF OnStart_client
    <3>4. \A x \in connecting' : x \in prepare_ /\ status_'[x] = "STARTTING"
      BY <1>0, <2>4, <3>3 DEF OnStart_client, ManagerInv, OnTheWay
    <3>5. OnTheWay'
      BY <1>0, <1>u, <2>3, <2>4, <3>2, <3>3, <3>4 DEF OnStart_client, maps, uvs, ManagerInv, OnTheWay, Runs
    <3>6. FoundIsAlive' /\ RemoveFinds' /\ ConnectIsStarting'
      BY <2>3, <2>4 DEF OnStart_client, maps, uvs, ManagerInv, FoundIsAlive, RemoveFinds, ConnectIsStarting
    <3> QED BY <3>1, <3>5, <3>6
  <2>5. CASE /\ o \in prepare_ /\ o \in Servers /\ UNCHANGED connecting
             /\ status_' = [status_ EXCEPT ![o] = "RUNNING"] /\ prepare_' = prepare_ \ {o}
             /\ idx_obj_map_' = idx_obj_map_ \cup {o} /\ Keep(o)
    <3>1. OnePlace'
      BY <1>p, <2>3, <2>5 DEF ManagerInv, OnePlace
    <3>2. \A x \in Objs : x # o => status_'[x] = status_[x]
      BY <1>0, <2>5
    <3>3. Runs(o)'
      BY <1>0, <2>3, <2>5 DEF Runs, ManagerInv, OnTheWay
    <3>4. OnTheWay'
      BY <1>0, <1>u, <2>3, <2>5, <3>2, <3>3 DEF uvs, ManagerInv, OnTheWay, Runs
    <3>5. FoundIsAlive' /\ RemoveFinds' /\ ConnectIsStarting'
      BY <2>3, <2>5 DEF Keep, uvs, ManagerInv, FoundIsAlive, RemoveFinds, ConnectIsStarting
    <3> QED BY <3>1, <3>4, <3>5
  <2>6. CASE UNCHANGED <<maps, status_, connecting>>
    BY <2>3, <2>6, Stays DEF app
  <2> QED BY <1>2, <2>2, <2>4, <2>5, <2>6 DEF OnStart, OnStart_server
<1>3. ASSUME NEW o \in Objs, tcp_connect_cb_failed(o)
      PROVE  Goal
  <2>1. /\ uv = "loop" /\ o \in prepare_ /\ connecting' = connecting \ {o} /\ prepare_' = prepare_ \ {o}
        /\ UNCHANGED <<idx_obj_map_, vec_objs_, status_, link_map_, app, uvs>>
    BY <1>3 DEF tcp_connect_cb_failed, Idle, Uv
  <2>2. OnePlace'
    BY <1>p, <2>1 DEF ManagerInv, OnePlace
  <2>3. OnTheWay'
    BY <1>u, <2>1 DEF uvs, ManagerInv, OnTheWay, Runs
  <2>4. FoundIsAlive' /\ RemoveFinds' /\ ConnectIsStarting'
    BY <2>1 DEF uvs, ManagerInv, FoundIsAlive, RemoveFinds, ConnectIsStarting
  <2> QED BY <2>2, <2>3, <2>4
<1>4. ASSUME NEW o \in Objs, tcp_connect_cb(o)
      PROVE  Goal
  <2>1. /\ uv = "loop" /\ o \in connecting /\ connecting' = connecting \ {o} /\ uv' = "connect" /\ cur' = o
        /\ UNCHANGED <<maps, status_, link_map_, app, why>>
    BY <1>4 DEF tcp_connect_cb, Idle, Uv
  <2>2. OnePlace'
    BY <1>p, <2>1 DEF maps, ManagerInv, OnePlace
  <2>3. OnTheWay' /\ ConnectIsStarting'
    BY <1>0, <1>u, <2>1 DEF maps, ManagerInv, OnTheWay, Runs, ConnectIsStarting
  <2>4. FoundIsAlive' /\ RemoveFinds'
    BY <2>1 DEF maps, ManagerInv, FoundIsAlive, RemoveFinds
  <2> QED BY <2>2, <2>3, <2>4
<1>5. CASE OnConnect_update
  <2>1. /\ uv = "connect" /\ prepare_' = prepare_ \ {cur} /\ idx_obj_map_' = idx_obj_map_ \cup {cur}
        /\ uv' = "connected" /\ UNCHANGED <<vec_objs_, objs, app, cur, why>>
    BY <1>5 DEF OnConnect_update, Uv
  <2>2. cur \in Clients \cap prepare_ /\ cur \notin connecting
    BY <2>1 DEF ManagerInv, OnTheWay
  <2>3. OnePlace'
    BY <1>p, <2>1, <2>2 DEF ManagerInv, OnePlace
  <2>4. OnTheWay'
    BY <1>u, <2>1, <2>2 DEF objs, ManagerInv, OnTheWay, Runs
  <2>5. FoundIsAlive' /\ RemoveFinds' /\ ConnectIsStarting'
    BY <2>1 DEF objs, ManagerInv, FoundIsAlive, RemoveFinds, ConnectIsStarting
  <2> QED BY <2>3, <2>4, <2>5
<1>6. CASE OnConnect
  <2>1. /\ uv = "connected" /\ cur \in Clients /\ cur \in idx_obj_map_ /\ status_[cur] = "STARTTING"
        /\ cur \notin connecting
    BY <1>6 DEF OnConnect, OnConnect_client, Uv, ManagerInv, OnTheWay, ConnectIsStarting
  <2>2. /\ status_' = [status_ EXCEPT ![cur] = "RUNNING"] /\ link_map_' = [link_map_ EXCEPT ![cur] = {1}]
        /\ Keep(cur) /\ uv' = "loop" /\ UNCHANGED <<prepare_, idx_obj_map_, connecting, app>>
    BY <1>6, <2>1 DEF OnConnect, OnConnect_client
  <2>3. OnePlace'
    BY <1>p, <2>2 DEF ManagerInv, OnePlace
  <2>4. \A x \in Objs : x # cur => status_'[x] = status_[x] /\ link_map_'[x] = link_map_[x]
    BY <1>0, <2>2
  <2>5. \A x \in Objs : x = cur => Runs(x)'
    BY <1>0, <2>1, <2>2 DEF Runs
  <2>6. OnTheWay'
    BY <1>0, <1>u, <2>1, <2>2, <2>4, <2>5 DEF ManagerInv, OnTheWay, Runs
  <2>7. FoundIsAlive' /\ RemoveFinds' /\ ConnectIsStarting'
    BY <2>2 DEF Keep, ManagerInv, FoundIsAlive, RemoveFinds, ConnectIsStarting
  <2> QED BY <2>3, <2>6, <2>7
\* A running server gains or loses a link, but never its own key.
<1>s. ASSUME NEW o \in idx_obj_map_, o \in Servers, UNCHANGED <<maps, status_, connecting, uvs, app>>,
             NEW links, 0 \in link_map_[o] => 0 \in links,
             link_map_' = [link_map_ EXCEPT ![o] = links]
      PROVE  Goal
  <2>1. \A x \in Objs : x # o => link_map_'[x] = link_map_[x]
    BY <1>0, <1>s
  <2>2. 0 \in link_map_[o] => 0 \in link_map_'[o]
    BY <1>0, <1>s
  <2>3. OnePlace'
    BY <1>p, <1>s DEF maps, ManagerInv, OnePlace
  <2>4. Runs(o) => Runs(o)'
    BY <1>0, <1>s, <2>2 DEF Runs
  <2>5. OnTheWay'
    BY <1>0, <1>u, <1>s, <2>1, <2>2, <2>4 DEF maps, uvs, ManagerInv, OnTheWay, Runs
  <2>6. FoundIsAlive' /\ RemoveFinds' /\ ConnectIsStarting'
    BY <1>s DEF maps, uvs, ManagerInv, FoundIsAlive, RemoveFinds, ConnectIsStarting
  <2> QED BY <2>3, <2>5, <2>6
<1>7. ASSUME NEW o \in Objs, tcp_accept_cb(o)
      PROVE  Goal
  <2>1. o \in idx_obj_map_ /\ o \in Servers /\ UNCHANGED <<maps, status_, connecting, uvs, app>>
    BY <1>7 DEF tcp_accept_cb, OnAccept, Crash, objs
  <2>2. CASE UNCHANGED link_map_
    BY <2>1, <2>2, Stays DEF app
  <2>3. CASE link_map_' = [link_map_ EXCEPT ![o] = @ \cup {generate_[o]}]
    BY <1>s, <2>1, <2>3
  <2> QED BY <1>7, <2>2, <2>3 DEF tcp_accept_cb, OnAccept, Crash, objs
<1>8. ASSUME NEW o \in idx_obj_map_, o \in Servers, NEW k, OnStopLink(o, k), UNCHANGED app
      PROVE  Goal
  <2>1. UNCHANGED <<maps, status_, connecting, uvs>>
    BY <1>8 DEF OnStopLink, Crash, objs
  <2>2. CASE UNCHANGED link_map_
    BY <1>8, <2>1, <2>2, Stays DEF app
  <2>3. CASE k # 0 /\ link_map_' = [link_map_ EXCEPT ![o] = @ \ {k}]
    BY <1>s, <1>8, <2>1, <2>3
  <2> QED BY <1>8, <2>2, <2>3 DEF OnStopLink, Crash, objs
\* An object that is stopped is removed next.
<1>r. ASSUME NEW o \in idx_obj_map_, NEW type, type # "none", ThenRemove(o, type), uv = "loop",
             UNCHANGED <<maps, connecting, app>>,
             \A x \in Objs : x # o => status_'[x] = status_[x] /\ link_map_'[x] = link_map_[x]
      PROVE  Goal
  <2>1. o \notin prepare_ /\ o \notin Fresh /\ o \notin connecting /\ o \in vec_objs_
    BY <1>r DEF ManagerInv, OnePlace, OnTheWay, FoundIsAlive
  <2>2. uv' = "remove" /\ cur' = o /\ why' # "none"
    BY <1>r DEF ThenRemove
  <2>3. OnePlace'
    BY <1>p, <1>r DEF maps, ManagerInv, OnePlace
  <2>4. OnTheWay'
    BY <1>0, <1>u, <1>r, <2>1, <2>2 DEF maps, ManagerInv, OnTheWay, Runs
  <2>5. FoundIsAlive' /\ RemoveFinds' /\ ConnectIsStarting'
    BY <1>r, <2>1, <2>2 DEF maps, ManagerInv, FoundIsAlive, RemoveFinds, ConnectIsStarting
  <2> QED BY <2>3, <2>4, <2>5
<1>9. ASSUME NEW o \in Objs, NEW k \in LinkIds \cup {0}, OnError(o, k)
      PROVE  Goal
  <2>1. o \in idx_obj_map_ /\ uv = "loop" /\ UNCHANGED app
    BY <1>9 DEF OnError, Idle, Uv
  <2>2. CASE o \in Servers /\ OnStopLink(o, k)
    BY <1>8, <2>1, <2>2
  <2>3. CASE Crash("null link")
    BY <2>1, <2>3, Stays DEF Crash, objs, app
  <2>4. CASE StopClient(o, "LINKSTOPED") /\ ThenRemove(o, "CLI_ERROR")
             /\ UNCHANGED <<maps, generate_, connecting, crashed>>
    <3>1. \A x \in Objs : x # o => status_'[x] = status_[x] /\ link_map_'[x] = link_map_[x]
      BY <1>0, <2>4 DEF StopClient
    <3> QED BY <1>r, <2>1, <2>4, <3>1
  <2> QED BY <1>9, <2>2, <2>3, <2>4 DEF OnError, OnError_client
<1>10. ASSUME NEW o \in Objs, NEW k \in LinkIds, tcp_read_cb(o, k)
       PROVE  Goal
  BY <1>10, Stays DEF tcp_read_cb, objs, app
<1>11. CASE OnClose
  <2> DEFINE o == Head(close_temp_)[1]
             k == Head(close_temp_)[2]
  <2>1. uv = "loop" /\ UNCHANGED app
    BY <1>11 DEF OnClose, Uv
  <2>2. CASE /\ o \in idx_obj_map_
             /\ IF link_map_[o] = {} THEN UNCHANGED <<status_, link_map_, recv_queue_>>
                ELSE StopClient(o, IF k = 0 THEN "CLOSED" ELSE "LINKSTOPED")
             /\ ThenRemove(o, "SYSTEM_STOP")
             /\ UNCHANGED <<maps, generate_, connecting, crashed>>
    <3>1. \A x \in Objs : x # o => status_'[x] = status_[x] /\ link_map_'[x] = link_map_[x]
      <4> HIDE DEF o, k
      <4> QED BY <1>0, <2>2 DEF StopClient
    <3> HIDE DEF o, k
    <3> QED BY <1>r, <2>1, <2>2, <3>1
  <2>3. CASE o \in idx_obj_map_ /\ StopServer(o) /\ UNCHANGED <<maps, generate_, connecting, crashed>>
    <3>1. \A x \in Objs : x # o => status_'[x] = status_[x] /\ link_map_'[x] = link_map_[x]
      <4> HIDE DEF o, k
      <4> QED BY <1>0, <2>3 DEF StopServer
    <3> HIDE DEF o, k
    <3> QED BY <1>r, <2>1, <2>3, <3>1 DEF StopServer
  <2>4. CASE o \in idx_obj_map_ \cap Servers /\ OnStopLink(o, k)
    <3> HIDE DEF o, k
    <3> QED BY <1>8, <2>1, <2>4
  <2>5. CASE UNCHANGED <<maps, objs, uvs, recv_queue_, crashed>>
    BY <2>1, <2>5, Stays DEF objs, app
  <2> QED BY <1>11, <2>2, <2>3, <2>4, <2>5 DEF OnClose
<1>12. CASE RemoveObj
  <2>1. /\ uv = "remove" /\ idx_obj_map_' = idx_obj_map_ \ {cur} /\ vec_objs_' = vec_objs_ \ {cur}
        /\ uv' = "loop" /\ UNCHANGED <<prepare_, objs, app>>
    BY <1>12 DEF RemoveObj, Uv
  <2>2. OnePlace'
    BY <1>p, <2>1 DEF ManagerInv, OnePlace
  <2>3. OnTheWay'
    BY <1>u, <2>1 DEF objs, ManagerInv, OnTheWay, Runs
  <2>4. FoundIsAlive' /\ RemoveFinds' /\ ConnectIsStarting'
    BY <2>1 DEF ManagerInv, FoundIsAlive, RemoveFinds, ConnectIsStarting
  <2> QED BY <2>2, <2>3, <2>4
<1> QED BY <1>1, <1>2, <1>3, <1>4, <1>5, <1>6, <1>7, <1>9, <1>10, <1>11, <1>12
        DEF UvStep, Connected, tcp_accept_cb_failed, link_failed

-----------------------------------------------------------------------------
(* The order of the messages.                                               *)

\* Thread t is adding an object and has not queued it for its start yet.
Starting(t) == pc[t] \in {"getid", "insert", "added"}
KeyObjs(q) == {q[i][1] : i \in 1..Len(q)}

\* Objects that OnStart has not been called for.
Unstarted(o) ==
    \/ o \notin made
    \/ \E t \in Threads : Starting(t) /\ at[t][1] = o
    \/ o \in KeyObjs(obj_async_queue_) \cup KeyObjs(obj_temp_)

Once(q) == \A i, j \in 1..Len(q) : q[i][1] = q[j][1] => i = j

\* OnStart is called once for an object: one thread adds it, and its key is queued once.
StartedOnce ==
    /\ \A t \in Threads : Starting(t) =>
          at[t][1] \in made \ (KeyObjs(obj_async_queue_) \cup KeyObjs(obj_temp_))
    /\ \A t, u \in Threads : Starting(t) /\ Starting(u) /\ at[t][1] = at[u][1] => t = u
    /\ KeyObjs(obj_async_queue_) \cup KeyObjs(obj_temp_) \subseteq made
    /\ KeyObjs(obj_async_queue_) \cap KeyObjs(obj_temp_) = {}
    /\ Once(obj_async_queue_) /\ Once(obj_temp_)

\* What the messages s about an object say of it.
SeenIn(s, type, k) == \E i \in 1..Len(s) : s[i] = Event(type, k)
Carrying(s) == s # <<>> /\ s[Len(s)] \in {Event("CLI_CONNECT_OK", 1), Event("NET_DATA", 1)}
Ended(s) == s # <<>> /\ s[Len(s)] = Event("SYSTEM_STOP", 1)

\* The libuv thread is in the middle of what it does with o.
Busy(o) == uv # "loop" /\ cur = o

\* Nothing has been posted about an object that has not been started.
UnstartedLog(o) ==
    Unstarted(o) => /\ recv_queue_[o] = <<>> /\ o \notin connecting /\ o \notin idx_obj_map_
                    /\ ~(uv = "connect" /\ cur = o)

\* A client that connects has posted nothing; one that can be looked up has a live link, whose
\* end has been posted when it is about to be removed.
ClientLog(o) ==
    /\ (o \in connecting \/ (uv \in {"connect", "connected"} /\ cur = o)) => recv_queue_[o] = <<>>
    /\ (o \in idx_obj_map_ /\ ~Busy(o)) => Carrying(recv_queue_[o])
    /\ (uv = "remove" /\ cur = o) => Ended(recv_queue_[o])

\* The links of a server have been reported, with keys below the next one, and their end not; a
\* server that can be looked up has not failed and not reported its own end, unless it is being
\* removed.
ServerLog(o) ==
    /\ \A type \in {"SVR_ACCEPT_OK", "SYSTEM_STOP"}, k \in LinkIds :
          SeenIn(recv_queue_[o], type, k) => k < generate_[o]
    /\ \A k \in link_map_[o] \ {0} :
          SeenIn(recv_queue_[o], "SVR_ACCEPT_OK", k) /\ ~SeenIn(recv_queue_[o], "SYSTEM_STOP", k)
    /\ o \in idx_obj_map_ => ~SeenIn(recv_queue_[o], "SVR_START_FAILED", 0)
    /\ (o \in idx_obj_map_ /\ ~Busy(o)) => ~SeenIn(recv_queue_[o], "SYSTEM_STOP", 0)
    /\ (uv = "remove" /\ cur = o) => why = "SYSTEM_STOP"

ObjLog(o) == UnstartedLog(o) /\ (o \in Clients => ClientLog(o)) /\ (o \in Servers => ServerLog(o))

\* The invariant the order of the messages rests on.
EventsInv == StartedOnce /\ \A o \in Objs : ObjLog(o)

LEMMA EventEq ==
    ASSUME NEW a, NEW j, NEW c, NEW k
    PROVE  Event(a, j) = Event(c, k) <=> a = c /\ j = k
<1>1. Event(a, j).type = a /\ Event(a, j).link = j /\ Event(c, k).type = c /\ Event(c, k).link = k
  BY DEF Event
<1> QED BY <1>1

\* What one more message makes seen.
LEMMA SeenAppend ==
    ASSUME NEW s \in Seq(Msg), NEW e \in Msg
    PROVE  /\ Append(s, e) # <<>> /\ Append(s, e)[Len(Append(s, e))] = e
           /\ \A type, k : SeenIn(Append(s, e), type, k) <=> SeenIn(s, type, k) \/ e = Event(type, k)
<1> DEFINE a == Append(s, e)
<1>1. /\ Len(a) = Len(s) + 1 /\ a[Len(s) + 1] = e /\ Len(s) \in Nat
      /\ \A i \in 1..Len(s) : a[i] = s[i]
  OBVIOUS
<1> HIDE DEF a
<1>2. a # <<>> /\ a[Len(a)] = e
  BY <1>1
<1>3. ASSUME NEW type, NEW k PROVE SeenIn(a, type, k) <=> SeenIn(s, type, k) \/ e = Event(type, k)
  <2>1. ASSUME SeenIn(a, type, k) PROVE SeenIn(s, type, k) \/ e = Event(type, k)
    <3>1. PICK i \in 1..Len(a) : a[i] = Event(type, k)
      BY <2>1 DEF SeenIn
    <3>2. i \in 1..Len(s) \/ i = Len(s) + 1
      BY <1>1
    <3> QED BY <1>1, <3>1, <3>2 DEF SeenIn
  <2>2. ASSUME SeenIn(s, type, k) PROVE SeenIn(a, type, k)
    <3>1. PICK i \in 1..Len(s) : s[i] = Event(type, k)
      BY <2>2 DEF SeenIn
    <3>2. i \in 1..Len(a) /\ a[i] = Event(type, k)
      BY <1>1, <3>1
    <3> QED BY <3>2 DEF SeenIn
  <2>3. ASSUME e = Event(type, k) PROVE SeenIn(a, type, k)
    <3>1. Len(s) + 1 \in 1..Len(a)
      BY <1>1
    <3> QED BY <1>1, <2>3, <3>1 DEF SeenIn
  <2> QED BY <2>1, <2>2, <2>3
<1> QED BY <1>2, <1>3 DEF a

\* What the messages a stopped server posts for its links make seen: nothing but its own end.
Stops(n) == [i \in 1..n |-> Event("SYSTEM_STOP", 0)]

LEMMA SeenStops ==
    ASSUME NEW s \in Seq(Msg), NEW n \in Nat, NEW type, NEW k,
           type # "SYSTEM_STOP" \/ k # 0
    PROVE  SeenIn(s \o Stops(n), type, k) <=> SeenIn(s, type, k)
<1> DEFINE u == s \o Stops(n)
<1>0. Event("SYSTEM_STOP", 0) \in Msg
  BY DEF Event, Msg, MsgTypes
<1>1. Stops(n) \in Seq(Msg) /\ Len(Stops(n)) = n /\ \A i \in 1..n : Stops(n)[i] = Event("SYSTEM_STOP", 0)
  <2> DEFINE e == Event("SYSTEM_STOP", 0)
  <2> HIDE DEF e
  <2>1. Stops(n) = [i \in 1..n |-> e]
    BY DEF Stops, e
  <2> QED BY <1>0, <2>1 DEF e
<1>2. /\ Len(u) = Len(s) + n /\ Len(s) \in Nat
      /\ \A i \in 1..(Len(s) + n) : u[i] = IF i <= Len(s) THEN s[i] ELSE Stops(n)[i - Len(s)]
  BY <1>1
<1> HIDE DEF u
<1>3. ASSUME SeenIn(u, type, k) PROVE SeenIn(s, type, k)
  <2>1. PICK i \in 1..Len(u) : u[i] = Event(type, k)
    BY <1>3 DEF SeenIn
  <2>2. CASE i <= Len(s)
    <3>1. i \in 1..Len(s) /\ s[i] = Event(type, k)
      BY <1>2, <2>1, <2>2
    <3> QED BY <3>1 DEF SeenIn
  <2>3. CASE ~(i <= Len(s))
    <3>1. i - Len(s) \in 1..n /\ u[i] = Stops(n)[i - Len(s)]
      BY <1>2, <2>1, <2>3
    <3>2. Event("SYSTEM_STOP", 0) = Event(type, k)
      BY <1>1, <2>1, <3>1
    <3> QED BY <3>2, EventEq
  <2> QED BY <2>2, <2>3
<1>4. ASSUME SeenIn(s, type, k) PROVE SeenIn(u, type, k)
  <2>1. PICK i \in 1..Len(s) : s[i] = Event(type, k)
    BY <1>4 DEF SeenIn
  <2>2. i \in 1..Len(u) /\ u[i] = s[i]
    BY <1>2, <2>1
  <2> QED BY <2>1, <2>2 DEF SeenIn
<1> QED BY <1>3, <1>4 DEF u

\* The objects a queue of keys names.
LEMMA KeyObjsAppend ==
    ASSUME NEW q \in Seq(Keys), NEW key \in Keys
    PROVE  /\ KeyObjs(Append(q, key)) = KeyObjs(q) \cup {key[1]}
           /\ Once(q) /\ key[1] \notin KeyObjs(q) => Once(Append(q, key))
<1> DEFINE a == Append(q, key)
<1>1. /\ Len(a) = Len(q) + 1 /\ a[Len(q) + 1] = key /\ Len(q) \in Nat
      /\ \A i \in 1..Len(q) : a[i] = q[i]
  OBVIOUS
<1> HIDE DEF a
<1>2. \A i \in 1..Len(a) : (i \in 1..Len(q) /\ a[i] = q[i]) \/ (i = Len(q) + 1 /\ a[i] = key)
  BY <1>1
<1>3. \A i \in 1..Len(q) : i \in 1..Len(a) /\ a[i] = q[i]
  BY <1>1
<1>4. Len(q) + 1 \in 1..Len(a)
  BY <1>1
<1>5. KeyObjs(a) = KeyObjs(q) \cup {key[1]}
  BY <1>1, <1>2, <1>3, <1>4 DEF KeyObjs
<1>6. ASSUME Once(q), key[1] \notin KeyObjs(q) PROVE Once(a)
  <2>1. \A i \in 1..Len(q) : q[i][1] # key[1]
    BY <1>6 DEF KeyObjs
  <2> QED BY <1>2, <1>6, <2>1 DEF Once
<1> QED BY <1>5, <1>6 DEF a

LEMMA KeyObjsTail ==
    ASSUME NEW q \in Seq(Keys), q # <<>>, Once(q)
    PROVE  /\ KeyObjs(Tail(q)) = KeyObjs(q) \ {Head(q)[1]} /\ Head(q)[1] \in KeyObjs(q)
           /\ Once(Tail(q))
<1> DEFINE t == Tail(q)
<1>1. /\ Len(q) \in Nat \ {0} /\ Head(q) = q[1] /\ Len(t) = Len(q) - 1
      /\ \A i \in 1..(Len(q) - 1) : t[i] = q[i + 1]
  OBVIOUS
<1> HIDE DEF t
<1>2. \A i \in 1..Len(t) : i + 1 \in 1..Len(q) /\ i + 1 # 1 /\ t[i] = q[i + 1]
  BY <1>1
<1>3. \A i \in 1..Len(q) : i # 1 => i - 1 \in 1..Len(t) /\ t[i - 1] = q[i]
  <2> SUFFICES ASSUME NEW i \in 1..Len(q), i # 1 PROVE i - 1 \in 1..Len(t) /\ t[i - 1] = q[i]
    OBVIOUS
  <2>1. i - 1 \in 1..Len(t) /\ (i - 1) + 1 = i
    BY <1>1
  <2> QED BY <1>2, <2>1
<1>4. 1 \in 1..Len(q)
  BY <1>1
<1>5. KeyObjs(t) = KeyObjs(q) \ {Head(q)[1]}
  <2>1. ASSUME NEW x \in KeyObjs(t) PROVE x \in KeyObjs(q) \ {Head(q)[1]}
    <3>1. PICK i \in 1..Len(t) : x = t[i][1]
      BY DEF KeyObjs
    <3>2. x = q[i + 1][1] /\ i + 1 \in 1..Len(q) /\ i + 1 # 1
      BY <1>2, <3>1
    <3>3. x # q[1][1]
      BY <1>4, <3>2 DEF Once
    <3> QED BY <1>1, <3>2, <3>3 DEF KeyObjs
  <2>2. ASSUME NEW x \in KeyObjs(q), x # Head(q)[1] PROVE x \in KeyObjs(t)
    <3>1. PICK i \in 1..Len(q) : x = q[i][1]
      BY DEF KeyObjs
    <3>2. i - 1 \in 1..Len(t) /\ x = t[i - 1][1]
      BY <1>1, <1>3, <2>2, <3>1
    <3> QED BY <3>2 DEF KeyObjs
  <2> QED BY <2>1, <2>2
<1>6. Head(q)[1] \in KeyObjs(q)
  BY <1>1, <1>4 DEF KeyObjs
<1>7. Once(t)
  <2> SUFFICES ASSUME NEW i \in 1..Len(t), NEW j \in 1..Len(t), t[i][1] = t[j][1] PROVE i = j
    BY DEF Once
  <2>1. i + 1 \in 1..Len(q) /\ j + 1 \in 1..Len(q) /\ q[i + 1][1] = q[j + 1][1]
    BY <1>2
  <2>2. i + 1 = j + 1
    BY <2>1 DEF Once
  <2> QED BY <1>1, <2>2
<1> QED BY <1>5, <1>6, <1>7 DEF t

\* OnStart is called once for an object, and what has been started stays so.
LEMMA StartStep ==
    ASSUME ManagerInv, StartedOnce, [Next]_vars
    PROVE  /\ StartedOnce' /\ \A o \in Objs : Unstarted(o)' => Unstarted(o)
           /\ \A o : OnStart /\ o = Head(obj_temp_)[1] => Unstarted(o) /\ ~Unstarted(o)'
<1> DEFINE Goal == StartedOnce' /\ \A o \in Objs : Unstarted(o)' => Unstarted(o)
<1>0. /\ pc \in [Threads -> Labels] /\ at \in [Threads -> Keys \cup {None}] /\ made \subseteq Objs
      /\ obj_async_queue_ \in Seq(Keys) /\ obj_temp_ \in Seq(Keys)
      /\ \A t \in Threads : pc[t] # "idle" => at[t] \in Keys
      /\ KeyObjs(<<>>) = {} /\ Once(<<>>)
  BY DEF ManagerInv, TypeOK, AppTypes, QueueTypes, OnePlace, KeyObjs, Once
\* A step of a thread that is not adding an object, and goes on not adding one.
<1>a. ASSUME NEW t \in Threads, NEW l, Goto(t, l), l \notin {"getid", "insert", "added"}, ~Starting(t),
             at' = at \/ \E key \in Keys : at' = [at EXCEPT ![t] = key],
             UNCHANGED <<made, obj_async_queue_, obj_temp_>>
      PROVE  Goal
  <2>1. /\ pc'[t] = l /\ \A u \in Threads \ {t} : pc'[u] = pc[u] /\ at'[u] = at[u]
    BY <1>0, <1>a DEF Goto
  <2>2. ~Starting(t)' /\ \A u \in Threads \ {t} : Starting(u)' <=> Starting(u)
    BY <1>a, <2>1 DEF Starting
  <2>3. StartedOnce'
    BY <1>a, <2>1, <2>2 DEF StartedOnce
  <2>4. \A o \in Objs : Unstarted(o)' => Unstarted(o)
    BY <1>a, <2>1, <2>2 DEF Unstarted
  <2> QED BY <2>3, <2>4
\* A step of the libuv thread that leaves the start queue alone.
<1>b. ASSUME UNCHANGED <<pc, at, made, obj_async_queue_, obj_temp_>>
      PROVE  Goal
  BY <1>b DEF StartedOnce, Unstarted, Starting
<1>1. ASSUME NEW t \in Threads, NEW o \in Objs, GetNextObjId(t, o)
      PROVE  Goal
  <2>1. /\ o \notin made /\ made' = made \cup {o} /\ pc'[t] = "getid" /\ at'[t] = <<o, 0>> /\ pc[t] = "idle"
        /\ \A u \in Threads \ {t} : pc'[u] = pc[u] /\ at'[u] = at[u]
        /\ UNCHANGED <<obj_async_queue_, obj_temp_>>
    BY <1>0, <1>1 DEF GetNextObjId, Goto, At, temps, queues
  <2>2. Starting(t)' /\ ~Starting(t) /\ \A u \in Threads \ {t} : Starting(u)' <=> Starting(u)
    BY <2>1 DEF Starting
  <2>3. StartedOnce'
    BY <2>1, <2>2 DEF StartedOnce
  <2>4. \A x \in Objs : Unstarted(x)' => Unstarted(x)
    BY <2>1, <2>2 DEF Unstarted
  <2> QED BY <2>3, <2>4
<1>2. ASSUME NEW t \in Threads, AddObj_lock(t) \/ AddObj_insert(t)
      PROVE  Goal
  <2>1. /\ Starting(t) /\ Starting(t)' /\ \A u \in Threads \ {t} : pc'[u] = pc[u]
        /\ UNCHANGED <<at, made, obj_async_queue_, obj_temp_>>
    BY <1>0, <1>2 DEF AddObj_lock, AddObj_insert, Goto, At, temps, queues, Starting
  <2>2. \A u \in Threads : Starting(u)' <=> Starting(u)
    BY <2>1 DEF Starting
  <2>3. StartedOnce' /\ \A o \in Objs : Unstarted(o)' => Unstarted(o)
    BY <2>1, <2>2 DEF StartedOnce, Unstarted
  <2> QED BY <2>3
<1>3. ASSUME NEW t \in Threads, TcpStartWakeup(t)
      PROVE  Goal
  <2>1. /\ pc[t] = "added" /\ pc'[t] = "idle" /\ \A u \in Threads \ {t} : pc'[u] = pc[u]
        /\ UNCHANGED <<at, made, obj_temp_>> /\ obj_async_queue_' = Append(obj_async_queue_, at[t])
    BY <1>0, <1>3 DEF TcpStartWakeup, Goto, At, temps
  <2>2. Starting(t) /\ ~Starting(t)' /\ \A u \in Threads \ {t} : Starting(u)' <=> Starting(u)
    BY <2>1 DEF Starting
  <2>3. /\ at[t] \in Keys /\ at[t][1] \in made
        /\ at[t][1] \notin KeyObjs(obj_async_queue_) \cup KeyObjs(obj_temp_)
    BY <1>0, <2>1, <2>2 DEF StartedOnce
  <2>4. /\ KeyObjs(obj_async_queue_') = KeyObjs(obj_async_queue_) \cup {at[t][1]}
        /\ Once(obj_async_queue_')
    BY <1>0, <2>1, <2>3, KeyObjsAppend DEF StartedOnce
  <2>5. /\ \A u \in Threads : Starting(u)' => at'[u][1] \in made' \ (KeyObjs(obj_async_queue_') \cup KeyObjs(obj_temp_'))
        /\ \A u, v \in Threads : Starting(u)' /\ Starting(v)' /\ at'[u][1] = at'[v][1] => u = v
    BY <2>1, <2>2, <2>4 DEF StartedOnce
  <2>6. StartedOnce'
    BY <2>1, <2>3, <2>4, <2>5 DEF StartedOnce
  <2>7. \A o \in Objs : Unstarted(o)' => Unstarted(o)
    BY <2>1, <2>2, <2>4 DEF Unstarted
  <2> QED BY <2>6, <2>7
<1>4. ASSUME NEW t \in Threads,
             Found(t) \/ KickLink_close(t) \/ StopObj_close(t) \/ StopObj_unlock(t)
      PROVE  Goal
  <2>1. UNCHANGED <<at, made, obj_async_queue_, obj_temp_>> /\ ~Starting(t)
    BY <1>4 DEF Found, KickLink_close, StopObj_close, StopObj_unlock, At, Starting, temps, queues
  <2>2. \E l \in {"idle", "kick", "stop", "unlock"} : Goto(t, l)
    BY <1>4 DEF Found, KickLink_close, StopObj_close, StopObj_unlock
  <2> QED BY <1>a, <2>1, <2>2
<1>5. ASSUME NEW t \in Threads, NEW key \in Keys, NEW l \in {"kick_find", "stop_find"}, Lookup(t, key, l)
      PROVE  Goal
  <2>1. UNCHANGED <<made, obj_async_queue_, obj_temp_>> /\ ~Starting(t) /\ Goto(t, l) /\ at' = [at EXCEPT ![t] = key]
    BY <1>5 DEF Lookup, At, Starting, temps, queues
  <2> QED BY <1>a, <2>1
<1>6. ASSUME NEW t \in Threads, NEW o \in Objs, NEW k \in LinkIds \cup {0}, StopObj(t, o) \/ KickLink(t, o, k)
      PROVE  Goal
  <2>1. <<o, 0>> \in Keys /\ <<o, k>> \in Keys
    BY DEF Keys
  <2> QED BY <1>5, <1>6, <2>1 DEF StopObj, KickLink
<1>7. ASSUME TcpObjectEvent
      PROVE  Goal
  <2>1. /\ obj_temp_ = <<>> /\ obj_temp_' = obj_async_queue_ /\ obj_async_queue_' = <<>> /\ UNCHANGED <<pc, at, made>>
    BY <1>7 DEF TcpObjectEvent, Idle, app
  <2>2. \A u \in Threads : Starting(u)' <=> Starting(u)
    BY <2>1 DEF Starting
  <2>3. StartedOnce'
    BY <1>0, <2>1, <2>2 DEF StartedOnce
  <2>4. \A o \in Objs : Unstarted(o)' => Unstarted(o)
    BY <1>0, <2>1, <2>2 DEF Unstarted
  <2> QED BY <2>3, <2>4
<1>8. ASSUME NEW h, h = Head(obj_temp_)[1], OnStart
      PROVE  Goal /\ Unstarted(h) /\ ~Unstarted(h)'
  <2>1. /\ obj_temp_ # <<>> /\ obj_temp_' = Tail(obj_temp_) /\ UNCHANGED <<pc, at, made, obj_async_queue_>>
    BY <1>8 DEF OnStart, app, queues
  <2>2. /\ KeyObjs(obj_temp_') = KeyObjs(obj_temp_) \ {h} /\ h \in KeyObjs(obj_temp_) /\ Once(obj_temp_')
    BY <1>0, <1>8, <2>1, KeyObjsTail DEF StartedOnce
  <2>3. \A u \in Threads : Starting(u)' <=> Starting(u)
    BY <2>1 DEF Starting
  <2>4. StartedOnce'
    BY <2>1, <2>2, <2>3 DEF StartedOnce
  <2>5. \A o \in Objs : Unstarted(o)' => Unstarted(o)
    BY <2>1, <2>2, <2>3 DEF Unstarted
  <2>6. Unstarted(h)
    BY <2>2 DEF Unstarted
  <2>7. /\ h \in made' /\ h \notin KeyObjs(obj_async_queue_') \cup KeyObjs(obj_temp_')
        /\ \A u \in Threads : Starting(u)' => at'[u][1] # h
    BY <2>1, <2>2, <2>3 DEF StartedOnce
  <2>8. ~Unstarted(h)'
    BY <2>7 DEF Unstarted
  <2> QED BY <2>4, <2>5, <2>6, <2>8
<1>9. ASSUME \/ LinkCloseEvent \/ OnConnect_update \/ OnConnect \/ OnClose \/ RemoveObj \/ DataRace
             \/ \E o \in Objs : Connected(o) \/ tcp_accept_cb(o) \/ tcp_accept_cb_failed(o)
             \/ \E o \in Objs, k \in LinkIds : link_failed(o, k) \/ tcp_read_cb(o, k)
             \/ UNCHANGED vars
      PROVE  Goal
  <2>1. UNCHANGED <<app, obj_temp_, obj_async_queue_>>
    BY <1>9 DEF LinkCloseEvent, OnConnect_update, OnConnect, OnClose, RemoveObj, DataRace, Connected,
         tcp_connect_cb, tcp_connect_cb_failed, tcp_accept_cb, tcp_accept_cb_failed, link_failed,
         tcp_read_cb, OnError, temps, queues, vars
  <2> QED BY <1>b, <2>1 DEF app
<1>10. Goal
  BY <1>1, <1>2, <1>3, <1>4, <1>6, <1>7, <1>8, <1>9 DEF Next, AppCall, AppStep, UvStep
<1> QED BY <1>8, <1>10
\* What is known of the objects a step does not work on stays true.
LEMMA OthersLog ==
    ASSUME EventsInv, NEW o \in Objs, uv = "loop" \/ cur = o, uv' = "loop" \/ cur' = o,
           \A x \in Objs : Unstarted(x)' => Unstarted(x),
           \A x \in Objs : x # o =>
               /\ recv_queue_'[x] = recv_queue_[x] /\ generate_'[x] = generate_[x]
               /\ link_map_'[x] = link_map_[x]
               /\ (x \in connecting' <=> x \in connecting) /\ (x \in idx_obj_map_' <=> x \in idx_obj_map_),
           ObjLog(o)'
    PROVE  \A x \in Objs : ObjLog(x)'
<1> SUFFICES ASSUME NEW x \in Objs, x # o PROVE ObjLog(x)'
  OBVIOUS
<1>1. ObjLog(x)
  BY DEF EventsInv
<1>2. ~Busy(x) /\ ~Busy(x)'
  BY DEF Busy
<1>3. UnstartedLog(x)'
  BY <1>1 DEF ObjLog, UnstartedLog
<1>4. x \in Clients => ClientLog(x)'
  BY <1>1, <1>2 DEF ObjLog, ClientLog, Busy
<1>5. x \in Servers => ServerLog(x)'
  BY <1>1, <1>2 DEF ObjLog, ServerLog, Busy
<1> QED BY <1>3, <1>4, <1>5 DEF ObjLog

LEMMA LogStays ==
    ASSUME EventsInv, UNCHANGED <<connecting, idx_obj_map_, generate_, link_map_, uv, cur, why>>,
           \A x \in Objs : recv_queue_'[x] = recv_queue_[x],
           \A x \in Objs : Unstarted(x)' => Unstarted(x)
    PROVE  \A x \in Objs : ObjLog(x)'
<1> SUFFICES ASSUME NEW x \in Objs PROVE ObjLog(x)'
  OBVIOUS
<1>1. ObjLog(x)
  BY DEF EventsInv
<1>2. UnstartedLog(x)'
  BY <1>1 DEF ObjLog, UnstartedLog
<1>3. x \in Clients => ClientLog(x)'
  BY <1>1 DEF ObjLog, ClientLog, Busy
<1>4. x \in Servers => ServerLog(x)'
  BY <1>1 DEF ObjLog, ServerLog, Busy
<1> QED BY <1>2, <1>3, <1>4 DEF ObjLog

\* What LinkEvents lets be posted next about o.
MayPost(o, type, k) ==
    LET s == recv_queue_[o]
        e == Event(type, k)
    IN
    \/ /\ o \in Clients
       /\ \/ s = <<>> /\ e \in {Event("CLI_START_FAILED", 0), Event("CLI_CONNECT_FAILED", 0), Event("CLI_CONNECT_OK", 1)}
          \/ Carrying(s) /\ e \in {Event("NET_DATA", 1), Event("SYSTEM_STOP", 1)}
          \/ Ended(s) /\ e \in {Event("CLI_ERROR", 0), Event("SYSTEM_STOP", 0)}
    \/ /\ o \in Servers
       /\ ~SeenIn(s, "SVR_START_FAILED", 0) /\ ~SeenIn(s, "SYSTEM_STOP", 0)
       /\ \/ s = <<>> /\ e = Event("SVR_START_FAILED", 0)
          \/ type = "SVR_ACCEPT_OK" /\ k \in LinkIds /\ ~SeenIn(s, "SVR_ACCEPT_OK", k)
          \/ /\ type \in {"NET_DATA", "SYSTEM_STOP"} /\ k \in LinkIds
             /\ SeenIn(s, "SVR_ACCEPT_OK", k) /\ ~SeenIn(s, "SYSTEM_STOP", k)

\* What is posted about o in a step.
Posts(o) ==
    \/ \E type \in MsgTypes, k \in LinkIds \cup {0} : MayPost(o, type, k) /\ recv_queue_' = Posted(o, type, k)
    \/ /\ o \in Servers /\ ~SeenIn(recv_queue_[o], "SVR_START_FAILED", 0)
       /\ \E n \in 1..(MaxLinks + 1) : recv_queue_' = [recv_queue_ EXCEPT ![o] = @ \o Stops(n)]

\* The abstract log, and a step that leaves it alone.
ObjLogs == [o \in Objs |-> recv_queue_[o]]
Silent == \A o \in Objs : recv_queue_'[o] = recv_queue_[o]

\* What TcpManager posts, LinkEvents allows.
LEMMA PostsImplement ==
    ASSUME LogTypes, NEW o \in Objs, Posts(o)
    PROVE  Events!Next
<1>1. recv_queue_ \in [Objs \cup {None} -> Seq(Msg)]
  BY DEF LogTypes
<1>2. \A x \in Objs : ObjLogs[x] = recv_queue_[x] /\ ObjLogs'[x] = recv_queue_'[x]
  BY DEF ObjLogs
<1>3. \A type, k : /\ Events!Event(type, k) = Event(type, k)
                   /\ Events!Seen(o, type, k) <=> SeenIn(recv_queue_[o], type, k)
  BY <1>2 DEF Events!Event, Event, Events!Seen, SeenIn, ObjLogs
<1>4. Objs = Clients \cup Servers /\ Events!LinkIds = LinkIds /\ Clients \cap Servers = {}
  BY Distinct DEF Objs, Events!LinkIds, LinkIds
<1>5. ASSUME NEW type \in MsgTypes, NEW k \in LinkIds \cup {0}, MayPost(o, type, k),
             recv_queue_' = Posted(o, type, k)
      PROVE  Events!Post(o)
  <2>1. ObjLogs' = [ObjLogs EXCEPT ![o] = Append(@, Event(type, k))]
    BY <1>1, <1>5 DEF Posted, ObjLogs
  <2>2. o \in Clients => Event(type, k) \in Events!ClientNext(o)
    <3> SUFFICES ASSUME o \in Clients PROVE Event(type, k) \in Events!ClientNext(o)
      OBVIOUS
    <3>1. Events!Last(o) = recv_queue_[o][Len(recv_queue_[o])] /\ ObjLogs[o] = recv_queue_[o]
      BY <1>2 DEF Events!Last, ObjLogs
    <3>2. \A k1, k2 : Event("SYSTEM_STOP", k1) # Event("CLI_CONNECT_OK", k2) /\ Event("SYSTEM_STOP", k1) # Event("NET_DATA", k2)
      BY EventEq
    <3> QED BY <1>2, <1>3, <1>4, <1>5, <3>1, <3>2 DEF MayPost, Carrying, Ended, Events!ClientNext, ObjLogs
  <2>3. o \in Servers => Event(type, k) \in Events!ServerNext(o)
    <3> SUFFICES ASSUME o \in Servers PROVE Event(type, k) \in Events!ServerNext(o)
      OBVIOUS
    <3>1. ~Events!Over(o)
      BY <1>3, <1>4, <1>5 DEF MayPost, Events!Over
    <3> QED BY <1>2, <1>3, <1>4, <1>5, <3>1
            DEF MayPost, Events!ServerNext, Events!Accepted, Events!Alive, ObjLogs
  <2>4. o \in Clients \/ (o \notin Clients /\ o \in Servers)
    BY <1>4
  <2> QED BY <2>1, <2>2, <2>3, <2>4 DEF Events!Post, ObjLogs
<1>6. ASSUME o \in Servers, ~SeenIn(recv_queue_[o], "SVR_START_FAILED", 0),
             NEW n \in 1..(MaxLinks + 1), recv_queue_' = [recv_queue_ EXCEPT ![o] = @ \o Stops(n)]
      PROVE  Events!Stop(o)
  <2>1. Stops(n) = [i \in 1..n |-> Events!Event("SYSTEM_STOP", 0)]
    BY <1>3 DEF Stops
  <2>2. ObjLogs' = [ObjLogs EXCEPT ![o] = @ \o Stops(n)]
    BY <1>1, <1>6 DEF ObjLogs
  <2> QED BY <1>3, <1>6, <2>1, <2>2 DEF Events!Stop, ObjLogs
<1> QED BY <1>4, <1>5, <1>6 DEF Posts, Events!Next

\* What one posted message does to the logs.
LEMMA PostedLog ==
    ASSUME LogTypes, NEW o \in Objs \cup {None}, NEW type \in MsgTypes, NEW k \in LinkIds \cup {0},
           recv_queue_' = Posted(o, type, k)
    PROVE  /\ Event(type, k) \in Msg
           /\ \A x \in Objs : x # o => recv_queue_'[x] = recv_queue_[x]
           /\ o \in Objs =>
                 /\ recv_queue_'[o] = Append(recv_queue_[o], Event(type, k)) /\ recv_queue_'[o] # <<>>
                 /\ recv_queue_'[o][Len(recv_queue_'[o])] = Event(type, k)
<1>1. Event(type, k) \in Msg
  BY DEF Event, Msg
<1>2. \A x \in Objs : x # o => recv_queue_'[x] = recv_queue_[x]
  BY DEF Posted, LogTypes
<1>3. recv_queue_'[o] = Append(recv_queue_[o], Event(type, k)) /\ recv_queue_[o] \in Seq(Msg)
  BY DEF Posted, LogTypes
<1> QED BY <1>1, <1>2, <1>3, SeenAppend

LEMMA PostedSeen ==
    ASSUME LogTypes, NEW o \in Objs, NEW type \in MsgTypes, NEW k \in LinkIds \cup {0},
           recv_queue_' = Posted(o, type, k), NEW ty, NEW j
    PROVE  SeenIn(recv_queue_'[o], ty, j) <=> SeenIn(recv_queue_[o], ty, j) \/ (ty = type /\ j = k)
<1>1. recv_queue_'[o] = Append(recv_queue_[o], Event(type, k)) /\ recv_queue_[o] \in Seq(Msg)
  BY PostedLog DEF LogTypes
<1>2. Event(type, k) \in Msg
  BY PostedLog
<1>3. Event(type, k) = Event(ty, j) <=> ty = type /\ j = k
  BY EventEq
<1> QED BY <1>1, <1>2, <1>3, SeenAppend

\* An empty log says nothing.
LEMMA SeenEmpty == \A type, k : ~SeenIn(<<>>, type, k)
BY DEF SeenIn

\* Every step posts what LinkEvents allows, and the invariant of the logs stays.
LEMMA LogStep ==
    ASSUME ManagerInv, EventsInv, [Next]_vars
    PROVE  (\A x \in Objs : ObjLog(x)') /\ (Silent \/ \E o \in Objs : Posts(o))
<1> DEFINE Goal == (\A x \in Objs : ObjLog(x)') /\ (Silent \/ \E o \in Objs : Posts(o))
<1>0. /\ LogTypes /\ Clients \cap Servers = {} /\ None \notin Objs /\ Objs = Clients \cup Servers
      /\ idx_obj_map_ \subseteq Objs /\ connecting \subseteq Clients
      /\ link_map_ \in [Objs -> SUBSET (LinkIds \cup {0})] /\ generate_ \in [Objs -> 1..(MaxLinks + 1)]
      /\ 0 \notin LinkIds /\ 1 \in LinkIds /\ MaxLinks \in Nat \ {0} /\ prepare_ \cap idx_obj_map_ = {}
      /\ \A x \in Objs : ObjLog(x) /\ recv_queue_[x] \in Seq(Msg)
  BY Distinct DEF ManagerInv, TypeOK, MapTypes, ObjTypes, Objs, LinkIds, OnePlace, EventsInv, LogTypes
<1>m. \A x \in Objs : Unstarted(x)' => Unstarted(x)
  BY StartStep DEF EventsInv
\* A step that changes nothing the logs are about.
<1>s. ASSUME UNCHANGED <<connecting, idx_obj_map_, generate_, link_map_, uvs>>, Silent
      PROVE  Goal
  BY <1>m, <1>s, LogStays DEF Silent, uvs
<1>1. ASSUME NEW t \in Threads, AppCall(t) \/ AppStep(t)
      PROVE  Goal
  <2>1. UNCHANGED <<idx_obj_map_, objs, uvs, recv_queue_>>
    BY <1>1 DEF AppCall, AppStep, GetNextObjId, StopObj, KickLink, Lookup, AddObj_lock, AddObj_insert,
         TcpStartWakeup, Found, KickLink_close, StopObj_close, StopObj_unlock, maps
  <2> QED BY <1>s, <2>1 DEF objs, Silent
<1>2. ASSUME TcpObjectEvent \/ LinkCloseEvent \/ DataRace \/ UNCHANGED vars
      PROVE  Goal
  <2>1. UNCHANGED <<idx_obj_map_, objs, uvs, recv_queue_>>
    BY <1>2 DEF TcpObjectEvent, LinkCloseEvent, DataRace, Crash, vars, maps
  <2> QED BY <1>s, <2>1 DEF objs, Silent
<1>3. ASSUME OnStart
      PROVE  Goal
  <2>1. PICK o \in Objs : o = Head(obj_temp_)[1]
    BY <1>3, KeyParts DEF OnStart, ManagerInv, TypeOK, QueueTypes
  <2>2. Unstarted(o) /\ ~Unstarted(o)'
    BY <1>3, <2>1, StartStep DEF EventsInv
  <2>3. recv_queue_[o] = <<>> /\ o \notin connecting /\ o \notin idx_obj_map_
    BY <1>0, <2>2 DEF ObjLog, UnstartedLog
  <2>4. uv = "loop" /\ uv' = "loop" /\ UNCHANGED <<link_map_, generate_, uvs>>
    BY <1>3 DEF OnStart, Uv, uvs
  <2>5. UnstartedLog(o)'
    BY <2>2 DEF UnstartedLog
  <2>6. CASE o \in Clients /\ connecting' = connecting \cup {o} /\ UNCHANGED <<recv_queue_, idx_obj_map_>>
    <3>1. ClientLog(o)'
      BY <2>3, <2>4, <2>6 DEF ClientLog
    <3>2. ObjLog(o)'
      BY <1>0, <2>5, <2>6, <3>1 DEF ObjLog
    <3> QED BY <1>m, <2>4, <2>6, <3>2, OthersLog DEF Silent
  <2>7. CASE /\ o \in Clients /\ recv_queue_' = Posted(o, "CLI_START_FAILED", 0)
             /\ UNCHANGED <<connecting, idx_obj_map_>>
    <3>1. "CLI_START_FAILED" \in MsgTypes
      BY PostedTypes
    <3>2. \A x \in Objs : x # o => recv_queue_'[x] = recv_queue_[x]
      BY <1>0, <2>7, <3>1, PostedLog
    <3>3. ClientLog(o)'
      BY <2>3, <2>4, <2>7 DEF ClientLog
    <3>4. ObjLog(o)'
      BY <1>0, <2>5, <2>7, <3>3 DEF ObjLog
    <3>5. \A x \in Objs : ObjLog(x)'
      BY <1>m, <2>4, <2>7, <3>2, <3>4, OthersLog
    <3>6. MayPost(o, "CLI_START_FAILED", 0)
      BY <2>3, <2>7 DEF MayPost
    <3> QED BY <2>7, <3>1, <3>5, <3>6 DEF Posts
  <2>8. CASE /\ o \in Servers /\ UNCHANGED <<recv_queue_, connecting>>
             /\ idx_obj_map_' = idx_obj_map_ \cup {o}
    <3>1. ServerLog(o)'
      BY <1>0, <2>3, <2>4, <2>8, SeenEmpty DEF ObjLog, ServerLog
    <3>2. ObjLog(o)'
      BY <1>0, <2>5, <2>8, <3>1 DEF ObjLog
    <3> QED BY <1>m, <2>4, <2>8, <3>2, OthersLog DEF Silent
  <2>9. CASE /\ o \in Servers /\ recv_queue_' = Posted(o, "SVR_START_FAILED", 0)
             /\ UNCHANGED <<connecting, idx_obj_map_>>
    <3>1. "SVR_START_FAILED" \in MsgTypes
      BY PostedTypes
    <3>2. /\ \A x \in Objs : x # o => recv_queue_'[x] = recv_queue_[x]
          /\ \A ty, j : SeenIn(recv_queue_'[o], ty, j) <=>
                            SeenIn(recv_queue_[o], ty, j) \/ (ty = "SVR_START_FAILED" /\ j = 0)
      <4>1. /\ \A x \in Objs : x # o => recv_queue_'[x] = recv_queue_[x]
        BY <1>0, <2>9, <3>1, PostedLog
      <4>2. ASSUME NEW ty, NEW j
            PROVE  SeenIn(recv_queue_'[o], ty, j) <=> SeenIn(recv_queue_[o], ty, j) \/ (ty = "SVR_START_FAILED" /\ j = 0)
        BY <1>0, <2>9, <3>1, PostedSeen, ZenonT(60)
      <4> QED BY <4>1, <4>2
    <3>3. ServerLog(o)'
      BY <1>0, <2>3, <2>4, <2>9, <3>2 DEF ObjLog, ServerLog
    <3>4. ObjLog(o)'
      BY <1>0, <2>5, <2>9, <3>3 DEF ObjLog
    <3>5. \A x \in Objs : ObjLog(x)'
      BY <1>m, <2>4, <2>9, <3>2, <3>4, OthersLog
    <3>6. MayPost(o, "SVR_START_FAILED", 0)
      BY <2>3, <2>9, SeenEmpty DEF MayPost
    <3> QED BY <2>9, <3>1, <3>5, <3>6 DEF Posts
  <2>10. CASE UNCHANGED <<maps, status_, connecting, recv_queue_>>
    BY <1>s, <2>4, <2>10 DEF maps, Silent
  <2> QED BY <1>3, <2>1, <2>6, <2>7, <2>8, <2>9, <2>10 DEF OnStart, OnStart_client, OnStart_server, maps
<1>4. ASSUME NEW o \in Objs, tcp_connect_cb_failed(o)
      PROVE  Goal
  <2>1. /\ uv = "loop" /\ uv' = "loop" /\ o \in connecting /\ o \in Clients /\ o \notin idx_obj_map_
        /\ connecting' = connecting \ {o} /\ recv_queue_' = Posted(o, "CLI_CONNECT_FAILED", 0)
        /\ UNCHANGED <<idx_obj_map_, generate_, link_map_>> /\ "CLI_CONNECT_FAILED" \in MsgTypes
    BY <1>0, <1>4, PostedTypes DEF tcp_connect_cb_failed, Idle, Uv, uvs
  <2>2. recv_queue_[o] = <<>> /\ ~Unstarted(o)
    BY <1>0, <2>1 DEF ObjLog, ClientLog, UnstartedLog
  <2>3. \A x \in Objs : x # o => recv_queue_'[x] = recv_queue_[x]
    BY <1>0, <2>1, PostedLog
  <2>4. ObjLog(o)'
    <3>1. UnstartedLog(o)'
      BY <1>m, <2>2 DEF UnstartedLog
    <3>2. ClientLog(o)'
      BY <2>1 DEF ClientLog
    <3> QED BY <1>0, <2>1, <3>1, <3>2 DEF ObjLog
  <2>5. \A x \in Objs : ObjLog(x)'
    BY <1>m, <2>1, <2>3, <2>4, OthersLog
  <2>6. MayPost(o, "CLI_CONNECT_FAILED", 0)
    BY <2>1, <2>2 DEF MayPost
  <2> QED BY <2>1, <2>5, <2>6 DEF Posts
<1>5. ASSUME NEW o \in Objs, tcp_connect_cb(o)
      PROVE  Goal
  <2>1. /\ uv = "loop" /\ uv' = "connect" /\ cur' = o /\ o \in connecting /\ o \in Clients
        /\ o \notin idx_obj_map_ /\ connecting' = connecting \ {o}
        /\ UNCHANGED <<idx_obj_map_, generate_, link_map_, recv_queue_>>
    BY <1>0, <1>5 DEF tcp_connect_cb, Idle, Uv, maps
  <2>2. recv_queue_[o] = <<>> /\ ~Unstarted(o)
    BY <1>0, <2>1 DEF ObjLog, ClientLog, UnstartedLog
  <2>3. UnstartedLog(o)'
    BY <1>m, <2>2 DEF UnstartedLog
  <2>4. ClientLog(o)'
    BY <2>1, <2>2 DEF ClientLog
  <2>5. ObjLog(o)'
    BY <1>0, <2>1, <2>3, <2>4 DEF ObjLog
  <2>6. \A x \in Objs : ObjLog(x)'
    BY <1>m, <2>1, <2>5, OthersLog
  <2> QED BY <2>1, <2>6 DEF Silent
<1>6. ASSUME OnConnect_update
      PROVE  Goal
  <2>1. /\ uv = "connect" /\ uv' = "connected" /\ cur' = cur /\ cur \in Clients /\ cur \notin connecting
        /\ idx_obj_map_' = idx_obj_map_ \cup {cur}
        /\ UNCHANGED <<connecting, generate_, link_map_, recv_queue_>>
    BY <1>6 DEF OnConnect_update, Uv, ManagerInv, OnTheWay, objs
  <2>2. PICK o \in Objs : o = cur
    BY <1>0, <2>1
  <2>3. recv_queue_[o] = <<>> /\ ~Unstarted(o)
    BY <1>0, <2>1, <2>2 DEF ObjLog, ClientLog, UnstartedLog
  <2>4. UnstartedLog(o)'
    BY <1>m, <2>3 DEF UnstartedLog
  <2>5. ClientLog(o)'
    BY <2>1, <2>2, <2>3 DEF ClientLog, Busy
  <2>6. ObjLog(o)'
    BY <1>0, <2>1, <2>2, <2>4, <2>5 DEF ObjLog
  <2>7. \A x \in Objs : ObjLog(x)'
    BY <1>m, <2>1, <2>2, <2>6, OthersLog
  <2> QED BY <2>1, <2>7 DEF Silent
<1>7. ASSUME OnConnect
      PROVE  Goal
  <2>1. /\ uv = "connected" /\ uv' = "loop" /\ cur \in Clients /\ cur \notin connecting /\ cur \in idx_obj_map_
        /\ recv_queue_' = Posted(cur, "CLI_CONNECT_OK", 1)
        /\ link_map_' = [link_map_ EXCEPT ![cur] = {1}]
        /\ UNCHANGED <<idx_obj_map_, connecting, generate_>> /\ "CLI_CONNECT_OK" \in MsgTypes
    BY <1>7, PostedTypes DEF OnConnect, OnConnect_client, Uv, ManagerInv, OnTheWay, ConnectIsStarting
  <2>2. PICK o \in Objs : o = cur
    BY <1>0, <2>1
  <2>3. recv_queue_[o] = <<>> /\ ~Unstarted(o)
    BY <1>0, <2>1, <2>2 DEF ObjLog, ClientLog, UnstartedLog
  <2>4. /\ \A x \in Objs : x # o => recv_queue_'[x] = recv_queue_[x]
        /\ recv_queue_'[o] # <<>> /\ recv_queue_'[o][Len(recv_queue_'[o])] = Event("CLI_CONNECT_OK", 1)
    BY <1>0, <2>1, <2>2, PostedLog
  <2>5. UnstartedLog(o)'
    BY <1>m, <2>3 DEF UnstartedLog
  <2>6. ClientLog(o)'
    BY <2>1, <2>2, <2>4 DEF ClientLog, Carrying
  <2>7. ObjLog(o)'
    BY <1>0, <2>1, <2>2, <2>5, <2>6 DEF ObjLog
  <2>8. \A x \in Objs : x # o => link_map_'[x] = link_map_[x]
    BY <1>0, <2>1, <2>2
  <2>9. \A x \in Objs : ObjLog(x)'
    BY <1>m, <2>1, <2>2, <2>4, <2>7, <2>8, OthersLog
  <2>10. MayPost(o, "CLI_CONNECT_OK", 1)
    BY <2>1, <2>2, <2>3 DEF MayPost
  <2> QED BY <1>0, <2>1, <2>2, <2>9, <2>10 DEF Posts
\* A server that can be looked up, between two callbacks.
<1>v. ASSUME NEW o \in idx_obj_map_, o \in Servers, uv = "loop"
      PROVE  /\ o \in Objs /\ o \notin Clients /\ ~Unstarted(o) /\ ServerLog(o)
             /\ ~SeenIn(recv_queue_[o], "SVR_START_FAILED", 0) /\ ~SeenIn(recv_queue_[o], "SYSTEM_STOP", 0)
  BY <1>0, <1>v DEF ObjLog, ServerLog, UnstartedLog, Busy
<1>8. ASSUME NEW o \in Objs, tcp_accept_cb(o)
      PROVE  Goal
  <2>1. o \in idx_obj_map_ /\ o \in Servers /\ uv = "loop" /\ generate_[o] <= MaxLinks
    BY <1>8 DEF tcp_accept_cb, Idle, Uv
  <2>2. CASE recv_queue_' = Posted(None, "SVR_ACCEPT_FAILED", 0) /\ UNCHANGED <<maps, objs, uvs>>
    <3>1. Silent
      BY <1>0, <2>2 DEF Posted, Silent, LogTypes
    <3> QED BY <1>s, <2>2, <3>1 DEF maps, objs
  <2>3. CASE Crash("~TcpLink")
    BY <1>s, <2>3 DEF Crash, maps, objs, Silent
  <2>4. CASE /\ link_map_' = [link_map_ EXCEPT ![o] = @ \cup {generate_[o]}]
             /\ generate_' = [generate_ EXCEPT ![o] = @ + 1]
             /\ recv_queue_' = Posted(o, "SVR_ACCEPT_OK", generate_[o])
             /\ UNCHANGED <<maps, connecting, uvs>>
    <3>0. PICK g \in LinkIds : g = generate_[o]
      BY <1>0, <2>1 DEF LinkIds
    <3>1. g \in Int /\ generate_'[o] = g + 1 /\ link_map_'[o] = link_map_[o] \cup {g} /\ "SVR_ACCEPT_OK" \in MsgTypes
      BY <1>0, <2>4, <3>0, PostedTypes DEF LinkIds
    <3>2. \A x \in Objs : x # o => link_map_'[x] = link_map_[x] /\ generate_'[x] = generate_[x]
      BY <1>0, <2>4
    <3>3. recv_queue_' = Posted(o, "SVR_ACCEPT_OK", g)
      BY <2>4, <3>0
    <3>4. /\ \A x \in Objs : x # o => recv_queue_'[x] = recv_queue_[x]
          /\ \A ty, j : SeenIn(recv_queue_'[o], ty, j) <=>
                            SeenIn(recv_queue_[o], ty, j) \/ (ty = "SVR_ACCEPT_OK" /\ j = g)
      <4>1. /\ \A x \in Objs : x # o => recv_queue_'[x] = recv_queue_[x]
        BY <1>0, <3>1, <3>3, PostedLog
      <4>2. ASSUME NEW ty, NEW j
            PROVE  SeenIn(recv_queue_'[o], ty, j) <=> SeenIn(recv_queue_[o], ty, j) \/ (ty = "SVR_ACCEPT_OK" /\ j = g)
        <5>1. LogTypes /\ "SVR_ACCEPT_OK" \in MsgTypes /\ g \in LinkIds \cup {0}
          BY <1>0, <3>1
        <5> QED BY <3>3, <5>1, PostedSeen
      <4> QED BY <4>1, <4>2
    <3>5. ~SeenIn(recv_queue_[o], "SVR_ACCEPT_OK", g) /\ ~SeenIn(recv_queue_[o], "SYSTEM_STOP", g)
      BY <1>v, <2>1, <3>0, <3>1 DEF ServerLog
    <3>6. \A type \in {"SVR_ACCEPT_OK", "SYSTEM_STOP"}, k \in LinkIds :
             SeenIn(recv_queue_'[o], type, k) => k < generate_'[o]
      <4>1. \A k \in LinkIds : k < g => k < g + 1
        BY <3>1 DEF LinkIds
      <4>2. \A type \in {"SVR_ACCEPT_OK", "SYSTEM_STOP"}, k \in LinkIds : SeenIn(recv_queue_[o], type, k) => k < g
        BY <1>v, <2>1, <3>0 DEF ServerLog
      <4> QED BY <3>1, <3>4, <4>1, <4>2
    <3>7. \A k \in link_map_'[o] \ {0} :
             SeenIn(recv_queue_'[o], "SVR_ACCEPT_OK", k) /\ ~SeenIn(recv_queue_'[o], "SYSTEM_STOP", k)
      BY <1>v, <2>1, <3>1, <3>4, <3>5 DEF ServerLog
    <3>8. ServerLog(o)'
      BY <1>v, <2>1, <2>4, <3>4, <3>6, <3>7 DEF ServerLog, maps, uvs, Busy
    <3>9. UnstartedLog(o)'
      BY <1>m, <1>v, <2>1 DEF UnstartedLog
    <3>10. ObjLog(o)'
      BY <1>v, <2>1, <3>8, <3>9 DEF ObjLog
    <3>11. \A x \in Objs : ObjLog(x)'
      BY <1>m, <2>1, <2>4, <3>2, <3>4, <3>10, OthersLog DEF maps, uvs
    <3>12. MayPost(o, "SVR_ACCEPT_OK", g)
      BY <1>v, <2>1, <3>1, <3>5 DEF MayPost
    <3> QED BY <3>1, <3>3, <3>11, <3>12 DEF Posts
  <2> QED BY <1>8, <2>2, <2>3, <2>4 DEF tcp_accept_cb, OnAccept
<1>9. ASSUME NEW o \in idx_obj_map_, o \in Servers, uv = "loop", NEW k \in LinkIds \cup {0}, OnStopLink(o, k)
      PROVE  Goal
  <2>1. CASE Crash("null link") \/ UNCHANGED <<maps, objs, uvs, recv_queue_, crashed>>
    BY <1>s, <2>1 DEF Crash, maps, objs, Silent
  <2>2. CASE /\ k # 0 /\ k \in link_map_[o]
             /\ link_map_' = [link_map_ EXCEPT ![o] = @ \ {k}]
             /\ recv_queue_' = Posted(o, "SYSTEM_STOP", k)
             /\ UNCHANGED <<maps, status_, generate_, connecting, uvs, crashed>>
    <3>1. k \in LinkIds /\ "SYSTEM_STOP" \in MsgTypes /\ o \in Objs /\ link_map_'[o] = link_map_[o] \ {k}
      BY <1>0, <2>2, PostedTypes
    <3>2. \A x \in Objs : x # o => link_map_'[x] = link_map_[x]
      BY <1>0, <2>2
    <3>3. /\ \A x \in Objs : x # o => recv_queue_'[x] = recv_queue_[x]
          /\ \A ty, j : SeenIn(recv_queue_'[o], ty, j) <=>
                            SeenIn(recv_queue_[o], ty, j) \/ (ty = "SYSTEM_STOP" /\ j = k)
      <4>1. /\ \A x \in Objs : x # o => recv_queue_'[x] = recv_queue_[x]
        BY <1>0, <2>2, <3>1, PostedLog
      <4>2. ASSUME NEW ty, NEW j
            PROVE  SeenIn(recv_queue_'[o], ty, j) <=> SeenIn(recv_queue_[o], ty, j) \/ (ty = "SYSTEM_STOP" /\ j = k)
        BY <1>0, <2>2, <3>1, PostedSeen
      <4> QED BY <4>1, <4>2
    <3>4. SeenIn(recv_queue_[o], "SVR_ACCEPT_OK", k) /\ ~SeenIn(recv_queue_[o], "SYSTEM_STOP", k)
      BY <1>v, <1>9, <2>2 DEF ServerLog
    <3>5. \A type \in {"SVR_ACCEPT_OK", "SYSTEM_STOP"}, j \in LinkIds :
             SeenIn(recv_queue_'[o], type, j) => j < generate_[o]
      BY <1>v, <1>9, <3>1, <3>3, <3>4 DEF ServerLog
    <3>6. \A j \in link_map_'[o] \ {0} :
             SeenIn(recv_queue_'[o], "SVR_ACCEPT_OK", j) /\ ~SeenIn(recv_queue_'[o], "SYSTEM_STOP", j)
      BY <1>v, <1>9, <3>1, <3>3 DEF ServerLog
    <3>7. ServerLog(o)'
      BY <1>v, <1>9, <2>2, <3>3, <3>5, <3>6 DEF ServerLog, maps, uvs, Busy
    <3>8. UnstartedLog(o)'
      BY <1>m, <1>v, <1>9 DEF UnstartedLog
    <3>9. ObjLog(o)'
      BY <1>v, <1>9, <3>7, <3>8 DEF ObjLog
    <3>10. \A x \in Objs : ObjLog(x)'
      BY <1>m, <1>9, <2>2, <3>1, <3>2, <3>3, <3>9, OthersLog DEF maps, uvs
    <3>11. MayPost(o, "SYSTEM_STOP", k)
      BY <1>v, <1>9, <3>1, <3>4 DEF MayPost
    <3> QED BY <2>2, <3>1, <3>10, <3>11 DEF Posts
  <2> QED BY <1>9, <2>1, <2>2 DEF OnStopLink
\* A client that can be looked up, between two callbacks.
<1>c. ASSUME NEW o \in idx_obj_map_, o \in Clients, uv = "loop"
      PROVE  /\ o \in Objs /\ o \notin Servers /\ ~Unstarted(o) /\ o \notin connecting
             /\ Carrying(recv_queue_[o]) /\ link_map_[o] = {1}
  BY <1>0, <1>c DEF ObjLog, ClientLog, UnstartedLog, Busy, ManagerInv, OnTheWay, Runs
<1>10. ASSUME NEW o \in idx_obj_map_, o \in Clients, uv = "loop", NEW s, StopClient(o, s),
              NEW type, ThenRemove(o, type), UNCHANGED <<maps, generate_, connecting>>
       PROVE  Goal
  <2>1. /\ recv_queue_' = Posted(o, "SYSTEM_STOP", 1) /\ "SYSTEM_STOP" \in MsgTypes /\ o \in Objs
        /\ uv' = "remove" /\ cur' = o /\ link_map_' = [link_map_ EXCEPT ![o] = {}] /\ UNCHANGED idx_obj_map_
    BY <1>0, <1>10, PostedTypes DEF StopClient, ThenRemove, maps
  <2>2. /\ \A x \in Objs : x # o => recv_queue_'[x] = recv_queue_[x]
        /\ recv_queue_'[o] # <<>> /\ recv_queue_'[o][Len(recv_queue_'[o])] = Event("SYSTEM_STOP", 1)
    BY <1>0, <2>1, PostedLog
  <2>3. \A x \in Objs : x # o => link_map_'[x] = link_map_[x]
    BY <1>0, <2>1
  <2>4. ClientLog(o)'
    BY <1>c, <1>10, <2>1, <2>2 DEF ClientLog, Ended, Busy
  <2>5. UnstartedLog(o)'
    BY <1>c, <1>m, <1>10 DEF UnstartedLog
  <2>6. ObjLog(o)'
    BY <1>c, <1>10, <2>4, <2>5 DEF ObjLog
  <2>7. \A x \in Objs : ObjLog(x)'
    BY <1>m, <1>10, <2>1, <2>2, <2>3, <2>6, OthersLog
  <2>8. MayPost(o, "SYSTEM_STOP", 1)
    BY <1>c, <1>10 DEF MayPost
  <2> QED BY <1>0, <2>1, <2>7, <2>8 DEF Posts
<1>11. ASSUME NEW o \in idx_obj_map_, o \in Servers, uv = "loop", StopServer(o),
              UNCHANGED <<maps, generate_, connecting>>
       PROVE  Goal
  <2> DEFINE n == Cardinality(link_map_[o] \ {0})
  <2>1. n \in 0..MaxLinks
    <3>1. link_map_[o] \ {0} \subseteq 1..MaxLinks
      BY <1>0 DEF LinkIds
    <3>2. IsFiniteSet(1..MaxLinks) /\ Cardinality(1..MaxLinks) = MaxLinks
      BY <1>0, FS_Interval
    <3>3. IsFiniteSet(link_map_[o] \ {0}) /\ n <= Cardinality(1..MaxLinks)
      BY <3>1, <3>2, FS_Subset
    <3>4. n \in Nat
      BY <3>3, FS_CardinalityType
    <3> HIDE DEF n
    <3> QED BY <1>0, <3>2, <3>3, <3>4
  <2>2. /\ recv_queue_' = [recv_queue_ EXCEPT ![o] = @ \o Stops(n)]
        /\ uv' = "remove" /\ cur' = o /\ why' = "SYSTEM_STOP"
        /\ link_map_' = [link_map_ EXCEPT ![o] = {}] /\ UNCHANGED idx_obj_map_
    BY <1>11 DEF StopServer, ThenRemove, Stops, maps
  <2> HIDE DEF n
  <2>3. n \in Nat /\ o \in Objs /\ link_map_'[o] = {} /\ \A x \in Objs : x # o => link_map_'[x] = link_map_[x]
    BY <1>0, <2>1, <2>2
  <2>4. /\ recv_queue_'[o] = recv_queue_[o] \o Stops(n)
        /\ \A x \in Objs : x # o => recv_queue_'[x] = recv_queue_[x]
    BY <1>0, <2>2, <2>3 DEF LogTypes
  <2>5. \A type, k : (type # "SYSTEM_STOP" \/ k # 0) =>
           (SeenIn(recv_queue_'[o], type, k) <=> SeenIn(recv_queue_[o], type, k))
    BY <1>0, <2>3, <2>4, SeenStops
  <2>6. ServerLog(o)'
    BY <1>0, <1>v, <1>11, <2>2, <2>3, <2>5 DEF ServerLog, Busy
  <2>7. UnstartedLog(o)'
    BY <1>m, <1>v, <1>11 DEF UnstartedLog
  <2>8. ObjLog(o)'
    BY <1>v, <1>11, <2>6, <2>7 DEF ObjLog
  <2>9. \A x \in Objs : ObjLog(x)'
    BY <1>m, <1>11, <2>2, <2>3, <2>4, <2>8, OthersLog
  <2>10. CASE n = 0
    <3>1. Stops(0) = <<>>
      BY DEF Stops
    <3>2. recv_queue_'[o] = recv_queue_[o]
      BY <1>0, <2>3, <2>4, <2>10, <3>1
    <3> QED BY <2>4, <2>9, <3>2 DEF Silent
  <2>11. CASE n # 0
    <3>1. n \in 1..(MaxLinks + 1)
      BY <1>0, <2>1, <2>11
    <3>2. Posts(o)
      BY <1>v, <1>11, <2>2, <3>1 DEF Posts
    <3> QED BY <2>3, <2>9, <3>2
  <2> QED BY <2>10, <2>11
<1>12. ASSUME NEW o \in Objs, NEW k \in LinkIds \cup {0}, OnError(o, k)
       PROVE  Goal
  <2>1. o \in idx_obj_map_ /\ uv = "loop"
    BY <1>12 DEF OnError, Idle, Uv
  <2>2. CASE o \in Servers /\ OnStopLink(o, k)
    BY <1>9, <2>1, <2>2
  <2>3. CASE Crash("null link")
    BY <1>s, <2>3 DEF Crash, maps, objs, Silent
  <2>4. CASE /\ o \in Clients /\ StopClient(o, "LINKSTOPED") /\ ThenRemove(o, "CLI_ERROR")
             /\ UNCHANGED <<maps, generate_, connecting, crashed>>
    BY <1>10, <2>1, <2>4
  <2> QED BY <1>12, <2>2, <2>3, <2>4 DEF OnError, OnError_client
<1>13. ASSUME NEW o \in Objs, NEW k \in LinkIds, tcp_read_cb(o, k)
       PROVE  Goal
  <2>1. /\ uv = "loop" /\ uv' = "loop" /\ o \in idx_obj_map_ /\ k \in link_map_[o] \ {0}
        /\ recv_queue_' = Posted(o, "NET_DATA", k) /\ "NET_DATA" \in MsgTypes
        /\ UNCHANGED <<idx_obj_map_, connecting, generate_, link_map_>>
    BY <1>13, PostedTypes DEF tcp_read_cb, Idle, Uv, maps, objs, uvs
  <2>2. /\ \A x \in Objs : x # o => recv_queue_'[x] = recv_queue_[x]
        /\ recv_queue_'[o] # <<>> /\ recv_queue_'[o][Len(recv_queue_'[o])] = Event("NET_DATA", k)
        /\ \A ty, j : SeenIn(recv_queue_'[o], ty, j) <=>
                          SeenIn(recv_queue_[o], ty, j) \/ (ty = "NET_DATA" /\ j = k)
    <3>1. /\ \A x \in Objs : x # o => recv_queue_'[x] = recv_queue_[x]
          /\ recv_queue_'[o] # <<>> /\ recv_queue_'[o][Len(recv_queue_'[o])] = Event("NET_DATA", k)
      BY <1>0, <2>1, PostedLog
    <3>2. ASSUME NEW ty, NEW j
          PROVE  SeenIn(recv_queue_'[o], ty, j) <=> SeenIn(recv_queue_[o], ty, j) \/ (ty = "NET_DATA" /\ j = k)
      BY <1>0, <2>1, PostedSeen
    <3> QED BY <3>1, <3>2
  <2>3. ~Unstarted(o)
    BY <1>0, <2>1 DEF ObjLog, UnstartedLog
  <2>4. UnstartedLog(o)'
    BY <1>m, <2>3 DEF UnstartedLog
  <2>5. o \in Clients => ClientLog(o)' /\ MayPost(o, "NET_DATA", k)
    BY <1>c, <2>1, <2>2 DEF ClientLog, Carrying, MayPost
  <2>6. o \in Servers => ServerLog(o)' /\ MayPost(o, "NET_DATA", k)
    <3> SUFFICES ASSUME o \in Servers PROVE ServerLog(o)' /\ MayPost(o, "NET_DATA", k)
      OBVIOUS
    <3>1. \A ty, j : ty # "NET_DATA" => (SeenIn(recv_queue_'[o], ty, j) <=> SeenIn(recv_queue_[o], ty, j))
      BY <2>2
    <3>2. ServerLog(o)'
      BY <1>v, <2>1, <3>1 DEF ServerLog, Busy
    <3>3. MayPost(o, "NET_DATA", k)
      BY <1>v, <2>1 DEF MayPost, ServerLog
    <3> QED BY <3>2, <3>3
  <2>7. ObjLog(o)'
    BY <2>4, <2>5, <2>6 DEF ObjLog
  <2>8. \A x \in Objs : ObjLog(x)'
    BY <1>m, <2>1, <2>2, <2>7, OthersLog
  <2>9. MayPost(o, "NET_DATA", k)
    BY <1>0, <2>5, <2>6
  <2> QED BY <2>1, <2>8, <2>9 DEF Posts
<1>14. ASSUME OnClose
       PROVE  Goal
  <2>1. PICK o \in Objs, k \in LinkIds \cup {0} : o = Head(close_temp_)[1] /\ k = Head(close_temp_)[2]
    BY <1>14, KeyParts DEF OnClose, ManagerInv, TypeOK, QueueTypes
  <2>2. uv = "loop"
    BY <1>14 DEF OnClose, Uv
  <2>3. CASE /\ o \in idx_obj_map_ \cap Clients
             /\ IF link_map_[o] = {} THEN UNCHANGED <<status_, link_map_, recv_queue_>>
                ELSE StopClient(o, IF k = 0 THEN "CLOSED" ELSE "LINKSTOPED")
             /\ ThenRemove(o, "SYSTEM_STOP")
             /\ UNCHANGED <<maps, generate_, connecting, crashed>>
    <3>1. link_map_[o] # {}
      BY <1>c, <2>2, <2>3
    <3> QED BY <1>10, <2>2, <2>3, <3>1
  <2>4. CASE o \in idx_obj_map_ \cap Servers /\ StopServer(o) /\ UNCHANGED <<maps, generate_, connecting, crashed>>
    BY <1>11, <2>2, <2>4
  <2>5. CASE o \in idx_obj_map_ \cap Servers /\ OnStopLink(o, k)
    BY <1>9, <2>2, <2>5
  <2>6. CASE UNCHANGED <<maps, objs, uvs, recv_queue_, crashed>>
    BY <1>s, <2>6 DEF maps, objs, Silent
  <2> QED BY <1>14, <2>1, <2>3, <2>4, <2>5, <2>6 DEF OnClose
<1>15. ASSUME RemoveObj
       PROVE  Goal
  <2>1. /\ uv = "remove" /\ uv' = "loop" /\ idx_obj_map_' = idx_obj_map_ \ {cur} /\ cur \in idx_obj_map_
        /\ recv_queue_' = Posted(cur, why, 0) /\ UNCHANGED <<connecting, generate_, link_map_>>
        /\ why \in {"CLI_ERROR", "SYSTEM_STOP"}
    BY <1>15 DEF RemoveObj, Uv, ManagerInv, OnTheWay, objs, TypeOK, UvTypes
  <2>2. PICK o \in Objs, type \in MsgTypes : o = cur /\ type = why
    BY <1>0, <2>1, PostedTypes
  <2>3. o \notin connecting /\ ~Unstarted(o)
    BY <1>0, <2>1, <2>2 DEF ObjLog, UnstartedLog, ManagerInv, OnTheWay
  <2>4. /\ \A x \in Objs : x # o => recv_queue_'[x] = recv_queue_[x]
        /\ \A ty, j : SeenIn(recv_queue_'[o], ty, j) <=> SeenIn(recv_queue_[o], ty, j) \/ (ty = type /\ j = 0)
    <3>1. /\ \A x \in Objs : x # o => recv_queue_'[x] = recv_queue_[x]
      BY <1>0, <2>1, <2>2, PostedLog
    <3>2. ASSUME NEW ty, NEW j
          PROVE  SeenIn(recv_queue_'[o], ty, j) <=> SeenIn(recv_queue_[o], ty, j) \/ (ty = type /\ j = 0)
      BY <1>0, <2>1, <2>2, PostedSeen, ZenonT(60)
    <3> QED BY <3>1, <3>2
  <2>5. UnstartedLog(o)'
    BY <1>m, <2>3 DEF UnstartedLog
  <2>6. o \in Clients => ClientLog(o)'
    BY <2>1, <2>2, <2>3 DEF ClientLog
  <2>7. o \in Servers => ServerLog(o)'
    <3> SUFFICES ASSUME o \in Servers PROVE ServerLog(o)'
      OBVIOUS
    <3>1. ServerLog(o)
      BY <1>0 DEF ObjLog
    <3>2. \A ty, j : j # 0 => (SeenIn(recv_queue_'[o], ty, j) <=> SeenIn(recv_queue_[o], ty, j))
      BY <2>4
    <3>3. \A j \in LinkIds : j # 0
      BY <1>0
    <3> QED BY <2>1, <2>2, <3>1, <3>2, <3>3 DEF ServerLog
  <2>8. ObjLog(o)'
    BY <2>5, <2>6, <2>7 DEF ObjLog
  <2>9. \A x \in Objs : ObjLog(x)'
    BY <1>m, <2>1, <2>2, <2>4, <2>8, OthersLog
  <2>10. o \in Clients => Posts(o)
    <3> SUFFICES ASSUME o \in Clients PROVE Posts(o)
      OBVIOUS
    <3>1. Ended(recv_queue_[o])
      BY <1>0, <2>1, <2>2 DEF ObjLog, ClientLog
    <3>2. MayPost(o, type, 0)
      BY <2>1, <2>2, <3>1 DEF MayPost
    <3> QED BY <2>1, <2>2, <3>2 DEF Posts
  <2>11. o \in Servers => Posts(o)
    <3> SUFFICES ASSUME o \in Servers PROVE Posts(o)
      OBVIOUS
    <3>1. type = "SYSTEM_STOP" /\ ~SeenIn(recv_queue_[o], "SVR_START_FAILED", 0)
      BY <1>0, <2>1, <2>2 DEF ObjLog, ServerLog
    <3>2. Append(recv_queue_[o], Event("SYSTEM_STOP", 0)) = recv_queue_[o] \o Stops(1)
      <4> DEFINE e == Event("SYSTEM_STOP", 0)
      <4>1. Stops(1) = <<e>>
        BY DEF Stops
      <4> HIDE DEF e
      <4>2. e \in Msg
        BY DEF e, Event, Msg, MsgTypes
      <4>3. Append(recv_queue_[o], e) = recv_queue_[o] \o <<e>>
        BY <1>0, <4>2
      <4> QED BY <4>1, <4>3 DEF e
    <3>3. recv_queue_' = [recv_queue_ EXCEPT ![o] = @ \o Stops(1)]
      BY <1>0, <2>1, <2>2, <3>1, <3>2 DEF Posted, LogTypes
    <3>4. 1 \in 1..(MaxLinks + 1)
      BY <1>0
    <3> QED BY <3>1, <3>3, <3>4 DEF Posts
  <2> QED BY <1>0, <2>9, <2>10, <2>11
<1>16. ASSUME \E o \in Objs : tcp_accept_cb_failed(o) \/ \E k \in LinkIds : link_failed(o, k)
       PROVE  Goal
  BY <1>12, <1>16 DEF tcp_accept_cb_failed, link_failed
<1> QED BY <1>1, <1>2, <1>3, <1>4, <1>5, <1>6, <1>7, <1>8, <1>13, <1>14, <1>15, <1>16
        DEF Next, UvStep, Connected

-----------------------------------------------------------------------------
(* Theorems.                                                                *)

\* ManagerInv holds in every state TcpManager can reach.
THEOREM ManagerInvariant == Spec => []ManagerInv
<1>1. ManagerInv /\ [Next]_vars => ManagerInv'
  <2> SUFFICES ASSUME ManagerInv, [Next]_vars PROVE ManagerInv'
    OBVIOUS
  <2>1. TypeOK'
    BY TypeStep
  <2>2. OnePlace' /\ OnTheWay' /\ FoundIsAlive' /\ RemoveFinds' /\ ConnectIsStarting'
    <3>1. CASE UNCHANGED vars
      BY <3>1, Stays DEF vars, objs, app
    <3> QED BY <3>1, AppPlaceStep, UvPlaceStep DEF Next
  <2> QED BY <2>1, <2>2 DEF ManagerInv
<1> QED BY ManagerInit, <1>1, PTL DEF Spec

\* The variables of TcpManager keep their types.
THEOREM ManagerTypeCorrect == Spec => []TypeOK
BY ManagerInvariant, PTL DEF ManagerInv

\* Whoever finds an object in idx_obj_map_ gets a live one: none of the assertions on the
\* locked weak pointer can fail.
THEOREM ManagerFindsAlive == Spec => []FoundIsAlive
BY ManagerInvariant, PTL DEF ManagerInv

\* A client found between two callbacks has its link_, and a server found then is running:
\* TcpClient::OnError never uses a null link_, and no assertion on status_ fails.
THEOREM ManagerFindsRunning == Spec => []FoundIsRunning
<1>1. ManagerInv => FoundIsRunning
  BY DEF ManagerInv, OnTheWay, FoundIsRunning
<1> QED BY ManagerInvariant, <1>1, PTL

\* RemoveObj's assert(0) is never reached.
THEOREM ManagerRemoveFinds == Spec => []RemoveFinds
BY ManagerInvariant, PTL DEF ManagerInv

\* Every lookup and every removal finds what it is for, whatever competes for the object.
THEOREM ManagerLookupsHold == Spec => []LookupsHold
  BY ManagerFindsAlive, ManagerFindsRunning, ManagerRemoveFinds, PTL DEF LookupsHold

\* OnConnect finds its client in CS_STARTTING, so its error branch is dead code.
THEOREM ManagerConnectIsStarting == Spec => []ConnectIsStarting
BY ManagerInvariant, PTL DEF ManagerInv

\* EventsInv holds in every state TcpManager can reach.
THEOREM ManagerEventsInvariant == Spec => []EventsInv
<1>1. Init => EventsInv
  <2> SUFFICES ASSUME Init PROVE EventsInv
    OBVIOUS
  <2>1. \A o \in Objs : recv_queue_[o] = <<>>
    BY DEF Init
  <2>2. StartedOnce
    BY DEF Init, StartedOnce, Starting, KeyObjs, Once
  <2>3. \A o \in Objs : ObjLog(o)
    BY <2>1, SeenEmpty, Distinct DEF Init, ObjLog, UnstartedLog, ClientLog, ServerLog, Objs, LinkIds
  <2> QED BY <2>2, <2>3 DEF EventsInv
<1>2. ManagerInv /\ EventsInv /\ [Next]_vars => EventsInv'
  <2> SUFFICES ASSUME ManagerInv, EventsInv, [Next]_vars PROVE EventsInv'
    OBVIOUS
  <2>1. StartedOnce'
    BY StartStep DEF EventsInv
  <2> QED BY <2>1, LogStep DEF EventsInv
<1> QED BY <1>1, <1>2, ManagerInvariant, PTL DEF Spec

\* The messages about each object come in the order LinkEvents promises, whatever the threads,
\* the peers and the libuv thread do: TcpManager implements LinkEvents.
THEOREM ManagerImplementsEvents == Spec => ImplementsEvents
<1>1. Init => Events!Init
  BY Distinct DEF Init, Events!Init, Objs
<1>2. ManagerInv /\ EventsInv /\ [Next]_vars => [Events!Next]_ObjLogs
  <2> SUFFICES ASSUME ManagerInv, EventsInv, [Next]_vars PROVE Events!Next \/ ObjLogs' = ObjLogs
    OBVIOUS
  <2>1. CASE Silent
    BY <2>1 DEF Silent, ObjLogs
  <2>2. ASSUME NEW o \in Objs, Posts(o) PROVE Events!Next
    BY <2>2, PostsImplement DEF ManagerInv, TypeOK
  <2> QED BY <2>1, <2>2, LogStep
<1> QED BY <1>1, <1>2, ManagerInvariant, ManagerEventsInvariant, PTL DEF Spec, ImplementsEvents, Events!Spec, ObjLogs
=============================================================================
