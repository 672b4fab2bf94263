---------------------------- MODULE MCRecvQueue ----------------------------
(* How messages get to the application: the queue it takes them from, the     *)
(* numbers that name their objects and links, the threads that work on them,  *)
(* and the commands cut out of the bytes they carry.  A behaviour is one of   *)
(* these, chosen by part.                                                     *)
(*   RecvQueue   one thread that fetches as Service does or with a timeout,   *)
(*               and one that waits for messages                              *)
(*   LinkKeys    two objects of each type and link ids of three bits: every   *)
(*               counter wraps around, past the links whose negative ids keep *)
(*               them for ever                                                *)
(*   Threads     two objects started and joined by one thread, with a table   *)
(*               of three slots and three ids that are used again             *)
(*   MsgPack     12 bytes, growing by fours up to 24; two encrypted packets,  *)
(*               the second of any of five kinds (one block, two, compressed, *)
(*               and two the command buffer does not hold), in pieces of 1, 3 *)
(*               and 8 bytes                                                  *)
(*   LoopStop    three keys queued for two sockets while the thread stops     *)
EXTENDS RecvQueue, LinkKeys, Threads, MsgPack, LoopStop

CONSTANTS t1, t2
VARIABLE part

MCFetchers == {t1, t2}
MCCalls == [t \in MCFetchers |-> IF t = t1 THEN {"FetchRecvQueue", "timed"} ELSE {"wait"}]
MCKinds == {[size |-> 2, packed |-> 0], [size |-> 9, packed |-> 0], [size |-> 9, packed |-> 5],
            [size |-> 12, packed |-> 0], [size |-> 12, packed |-> 5]}

mcVars == <<part, vars, keyVars, threadVars, packVars, stopVars>>

MCInit ==
    /\ part \in {"RecvQueue", "LinkKeys", "Threads", "MsgPack", "LoopStop"}
    /\ Init /\ InitKeys /\ InitThreads /\ InitMsg /\ InitLoop
    /\ part # "MsgPack" => Commands[1].packed = 0 /\ Commands[1].size = 2 /\ Commands[2] = Commands[1]

MCNext ==
    /\ UNCHANGED part
    /\ \/ /\ part = "RecvQueue" /\ Next
          /\ UNCHANGED <<keyVars, threadVars, packVars, stopVars>>
       \/ /\ part = "LinkKeys" /\ NextKeys
          /\ UNCHANGED <<vars, threadVars, packVars, stopVars>>
       \/ /\ part = "Threads" /\ NextThreads
          /\ UNCHANGED <<vars, keyVars, packVars, stopVars>>
       \/ /\ part = "MsgPack" /\ NextMsg
          /\ UNCHANGED <<vars, keyVars, threadVars, stopVars>>
       \/ /\ part = "LoopStop" /\ NextLoop
          /\ UNCHANGED <<vars, keyVars, threadVars, packVars>>

MCSpec ==
    /\ MCInit /\ [][MCNext]_mcVars
    /\ \A t \in Fetchers : WF_mcVars(part = "RecvQueue" /\ FetchStep(t)
            /\ UNCHANGED <<part, keyVars, threadVars, packVars, stopVars>>)
    /\ WF_mcVars(part = "MsgPack" /\ MCNext)
    /\ WF_mcVars(part = "LoopStop" /\ LoopStep /\ UNCHANGED <<part, vars, keyVars, threadVars, packVars>>)
    /\ WF_mcVars(part = "LoopStop" /\ StopStep /\ UNCHANGED <<part, vars, keyVars, threadVars, packVars>>)

-----------------------------------------------------------------------------
(* What is promised under the fairness of one part only.                     *)

\* All the commands of a stream come out, and Stop returns.
PartsEnd == (part = "MsgPack" => AllHandedOut) /\ (part = "LoopStop" => StopReturns)
=============================================================================
