------------------------------- MODULE LinkKeys -------------------------------
(***************************************************************************)
(* How TcpManager numbers objects and TcpServer numbers links.             *)
(*                                                                         *)
(* A LinkKey is a uint64_t: the object id in its upper half, the link id   *)
(* in its lower half.  Here a key is the pair of its halves.  An object id *)
(* is its type and a 16-bit counter; a link id comes from a 32-bit counter *)
(* of its server and passes through an int32_t.                            *)
(***************************************************************************)
EXTENDS Integers, FiniteSets

CONSTANTS
    Half,       \* 2^31: an int32_t below this is not negative
    Counters,   \* 2^16: values of obj_idx_indx_
    MaxLinks    \* bound: links of a server at the same time

ASSUME KeyConstants ==
    /\ Half \in Nat /\ Half > 1
    /\ Counters \in Nat /\ Counters > 1
    /\ MaxLinks \in Nat /\ MaxLinks < 2 * Half - 1

Types == {"client", "server"}
ObjIds == Types \X (0..(Counters - 1))

\* The upper half with all its bits set: GETOBJECTID of such a key is -1.
Ones == <<"none", -1>>
LinkKey == (ObjIds \cup {Ones}) \X (0..(2 * Half - 1))

VARIABLES
    obj_idx_indx_, \* counter of object ids
    objs,          \* ids in prepare_ or idx_obj_map_
    added,         \* number of objects added and not removed
    generate_,     \* counter of link ids, per server
    link_map_,     \* keys in TcpServer::link_map_
    links          \* number of links accepted and not stopped, per server

keyVars == <<obj_idx_indx_, objs, added, generate_, link_map_, links>>

SETLINKKEY(objid, id) == <<objid, id>>
GETOBJECTID(key) == key[1]

\* A fresh server's generate_, link_map_ and number of links.
InitKeys ==
    /\ obj_idx_indx_ = 0
    /\ objs = {}
    /\ added = 0
    /\ generate_ = [o \in ObjIds |-> 1]
    /\ link_map_ = [o \in ObjIds |-> {}]
    /\ links = [o \in ObjIds |-> 0]

\* linkid_ | id: a negative id is sign-extended to 64 bits, over the object id.
Or(linkid, id) == <<IF id < Half THEN linkid[1] ELSE Ones, id>>

\* Mutant: the first id is taken whether or not it is in use.
FirstFree_any(new, used) == new[1]

\* The loops of GetNextObjId and GetNextLinkId: the first of the next values that is not in use
\* (new[k] is the k-th next value).
FirstFree(new, used) ==
    new[CHOOSE k \in DOMAIN new : new[k] \notin used /\ \A j \in 1..(k - 1) : new[j] \in used]

\* AddClient and AddServer: GetNextObjId, and the new object.  The loop does not end when all ids
\* of the type are in use.
AddObj(type) ==
    LET next(k) == (obj_idx_indx_ + k) % Counters
        id == FirstFree([k \in 1..Counters |-> <<type, next(k)>>], objs)
    IN
    /\ \E n \in 0..(Counters - 1) : <<type, n>> \notin objs
    /\ obj_idx_indx_' = id[2]
    /\ objs' = objs \cup {id}
    /\ added' = added + 1
    /\ generate_' = [generate_ EXCEPT ![id] = 1]
    /\ link_map_' = [link_map_ EXCEPT ![id] = IF type = "server" THEN {SETLINKKEY(id, 0)} ELSE {}]
    /\ links' = [links EXCEPT ![id] = 0]

\* RemoveObj, or OnError for a client in prepare_.
RemoveObj(o) ==
    /\ o \in objs
    /\ objs' = objs \ {o}
    /\ added' = added - 1
    /\ link_map_' = [link_map_ EXCEPT ![o] = {}]
    /\ links' = [links EXCEPT ![o] = 0]
    /\ UNCHANGED <<obj_idx_indx_, generate_>>

\* TcpServer::OnAccept: GetNextLinkId (fetch_add returns the new value), and the new link.
OnAccept(o) ==
    LET next(k) == (generate_[o] + k) % (2 * Half)
        key == FirstFree([k \in 1..(2 * Half) |-> Or(SETLINKKEY(o, 0), next(k))], link_map_[o])
    IN
    /\ o \in objs /\ o[1] = "server"
    /\ links[o] < MaxLinks
    /\ generate_' = [generate_ EXCEPT ![o] = key[2]]
    /\ link_map_' = [link_map_ EXCEPT ![o] = @ \cup {key}]
    /\ links' = [links EXCEPT ![o] = @ + 1]
    /\ UNCHANGED <<obj_idx_indx_, objs, added>>

\* TcpServer::OnStopLink for a link: OnError and OnClose find the server by GETOBJECTID(key).
OnStopLink(o, key) ==
    /\ key \in link_map_[o] \ {SETLINKKEY(o, 0)}
    /\ GETOBJECTID(key) = o
    /\ link_map_' = [link_map_ EXCEPT ![o] = @ \ {key}]
    /\ links' = [links EXCEPT ![o] = @ - 1]
    /\ UNCHANGED <<obj_idx_indx_, objs, added, generate_>>

NextKeys ==
    \/ \E type \in Types : AddObj(type)
    \/ \E o \in objs : RemoveObj(o) \/ OnAccept(o) \/ \E key \in link_map_[o] : OnStopLink(o, key)

SpecKeys == InitKeys /\ [][NextKeys]_keyVars

-----------------------------------------------------------------------------
(* Properties.                                                              *)

\* However often the counters wrap around, a new object or link never takes the number of a live
\* one (the map would refuse it, and what was just made would be destroyed or never found): each
\* of them has an entry of its own, besides the server's own key.
NumberedApart ==
    /\ Cardinality(objs) = added
    /\ \A o \in objs : o[1] = "server" =>
          /\ SETLINKKEY(o, 0) \in link_map_[o]
          /\ Cardinality(link_map_[o]) = links[o] + 1

\* "0 is the TcpServer's, so there can be no problem" (tcp_server.cpp, GetNextLinkId): a link's
\* key leads back to its server, which is how every later call and callback finds the link.
KeyNamesServer == \A o \in objs : \A key \in link_map_[o] : GETOBJECTID(key) = o
=============================================================================
