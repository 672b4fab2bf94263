------------------------------- MODULE LogicObj -------------------------------
(***************************************************************************)
(* LogicObj and LogicObjManager: how the application sends commands on a   *)
(* link.  SendCmdDelay collects them in cache_, which is sent when it      *)
(* holds SERVER_CACHE_SEND_SIZE bytes or when FlushCache says so; SendCmd  *)
(* sends its command at once, past the cache.  A send fails when           *)
(* TcpManager does not have the link any more.                             *)
(*                                                                         *)
(* Commands are numbered in the order in which a link's are given.  Their  *)
(* sizes are those of the encoded packet; NoSize stands for a command that *)
(* encodeMessage refuses.                                                  *)
(***************************************************************************)
EXTENDS Integers, Sequences, SequencesExt

CONSTANTS
    Links,      \* links with, or without, a logic object
    Sizes,      \* sizes of encoded commands
    SendSize,   \* SERVER_CACHE_SEND_SIZE
    MaxCmds     \* bound: commands given for one link

NoSize == 0

VARIABLES
    has_logic_, \* links that have a logic object (logic_obj_map_)
    cache_,         \* commands in the cache of each link's object
    given,          \* number of commands given for each link
    wire,           \* the commands handed to TcpManager, per link
    gone            \* the commands that will never be sent, per link

cmdVars == <<has_logic_, cache_, given, wire, gone>>

InitCmds ==
    /\ has_logic_ = {}
    /\ cache_ = [l \in Links |-> <<>>]
    /\ given = [l \in Links |-> 0]
    /\ wire = [l \in Links |-> <<>>]
    /\ gone = [l \in Links |-> {}]

size(cache) == FoldLeft(LAMBDA n, c : n + c.size, 0, cache)
Numbers(cmds) == {cmds[i].n : i \in DOMAIN cmds}

\* Mutant: what could not be sent stays in the cache behind the others' backs, and is counted lost.
SendCache_keep(l, cache, sent) ==
    /\ cache_' = [cache_ EXCEPT ![l] = IF sent THEN <<>> ELSE cache]
    /\ wire' = [wire EXCEPT ![l] = IF sent THEN @ \o cache ELSE @]
    /\ gone' = [gone EXCEPT ![l] = IF sent THEN @ ELSE @ \cup Numbers(cache)]

\* SendCache with cache in cache_: whether the send succeeds or not, the cache is empty after it.
SendCache(l, cache, sent) ==
    /\ cache_' = [cache_ EXCEPT ![l] = <<>>]
    /\ wire' = [wire EXCEPT ![l] = IF sent THEN @ \o cache ELSE @]
    /\ gone' = [gone EXCEPT ![l] = IF sent THEN @ ELSE @ \cup Numbers(cache)]

\* The next command for link l, of that encoded size.
Cmd(l, s, delay) == [n |-> given[l] + 1, size |-> s, delay |-> delay]

\* LogicObjManager::SendCmd with delay: nothing happens to a command that cannot be encoded.
SendCmdDelay(l, s, sent) ==
    /\ l \in has_logic_ /\ given[l] < MaxCmds
    /\ given' = [given EXCEPT ![l] = @ + 1]
    /\ LET cache == Append(cache_[l], Cmd(l, s, TRUE)) IN
       CASE s = NoSize -> UNCHANGED <<cache_, wire>> /\ gone' = [gone EXCEPT ![l] = @ \cup {given'[l]}]
         [] s # NoSize /\ size(cache) >= SendSize -> SendCache(l, cache, sent)
         [] OTHER -> cache_' = [cache_ EXCEPT ![l] = cache] /\ UNCHANGED <<wire, gone>>
    /\ UNCHANGED has_logic_

\* LogicObjManager::SendCmd without delay, and OnCheckSignal: the message goes out even when
\* encodeMessage refused the command, and is then empty.
SendCmd(l, s, sent) ==
    /\ l \in has_logic_ /\ given[l] < MaxCmds
    /\ given' = [given EXCEPT ![l] = @ + 1]
    /\ wire' = [wire EXCEPT ![l] = IF sent THEN Append(@, Cmd(l, s, FALSE)) ELSE @]
    /\ gone' = [gone EXCEPT ![l] = IF sent THEN @ ELSE @ \cup {given'[l]}]
    /\ UNCHANGED <<has_logic_, cache_>>

\* FlushCache: SendCache of every object; the links in failing do not take theirs.
FlushCache(failing) ==
    /\ failing \subseteq {l \in has_logic_ : cache_[l] # <<>>}
    /\ cache_' = [l \in Links |-> IF l \in has_logic_ THEN <<>> ELSE cache_[l]]
    /\ wire' = [l \in Links |->
                  IF l \in has_logic_ \ failing THEN wire[l] \o cache_[l] ELSE wire[l]]
    /\ gone' = [l \in Links |-> IF l \in failing THEN gone[l] \cup Numbers(cache_[l]) ELSE gone[l]]
    /\ UNCHANGED <<has_logic_, given>>

\* AddLogic of a new object, whose cache is empty.
AddLogic(l) ==
    /\ l \notin has_logic_
    /\ has_logic_' = has_logic_ \cup {l}
    /\ UNCHANGED <<cache_, given, wire, gone>>

\* DelLogic: the object goes, and its cache with it.
DelLogic(l) ==
    /\ l \in has_logic_
    /\ has_logic_' = has_logic_ \ {l}
    /\ gone' = [gone EXCEPT ![l] = @ \cup Numbers(cache_[l])]
    /\ cache_' = [cache_ EXCEPT ![l] = <<>>]
    /\ UNCHANGED <<given, wire>>

NextCmds ==
    \/ \E l \in Links, s \in Sizes \cup {NoSize}, sent \in BOOLEAN :
         SendCmdDelay(l, s, sent) \/ SendCmd(l, s, sent)
    \/ \E failing \in SUBSET Links : FlushCache(failing)
    \/ \E l \in Links : AddLogic(l) \/ DelLogic(l)

SpecCmds == InitCmds /\ [][NextCmds]_cmdVars

-----------------------------------------------------------------------------
(* Properties.                                                              *)

\* Each command given is in exactly one place, the cache, the wire or among those given up, through
\* every failed send, flush and removal: none is forgotten, sent twice, or sent and given up.
OncePlaced(w, g, x) ==
    /\ \A n \in 1..g : n \in x \/ \E i \in DOMAIN w : w[i].n = n
    /\ \A i \in DOMAIN w : w[i].n \notin x /\ \A j \in DOMAIN w : w[j].n = w[i].n => j = i

\* A command sent at once may overtake delayed ones that wait in the cache; no other command is
\* ever overtaken, and what is in the cache is younger than the delayed commands sent.
OnlyTheCacheIsOvertaken(w) ==
    \A i, j \in DOMAIN w : i < j /\ w[i].n > w[j].n => ~w[i].delay /\ w[j].delay

\* Through failed sends, flushes and removals a command is in one place, and commands
\* overtake only those that wait in the cache (SendCmd, SendCmdDelay, SendCache, FlushCache).
CommandsKept ==
    \A l \in Links :
        /\ OncePlaced(wire[l] \o cache_[l], given[l], gone[l])
        /\ OnlyTheCacheIsOvertaken(wire[l] \o cache_[l])
=============================================================================
