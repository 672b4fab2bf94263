------------------------------ MODULE MCService ------------------------------
(* The logic side of a server: one connector and one listener of Service, or  *)
(* the commands a link's logic object sends.  The two share no state: a       *)
(* behaviour is one of either, chosen by part.                                *)
EXTENDS Service, LogicObj

VARIABLE part

MCInit == part \in {"Service", "LogicObj"} /\ Init /\ InitCmds

MCNext ==
    \/ part = "Service" /\ Next /\ UNCHANGED <<part, cmdVars>>
    \/ part = "LogicObj" /\ NextCmds /\ UNCHANGED <<part, vars>>

MCSpec == MCInit /\ [][MCNext]_<<vars, part, cmdVars>> /\ Fairness
=============================================================================
