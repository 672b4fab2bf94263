----------------------------- MODULE MCSqlPool -----------------------------
(* Two handles, rings of two statements and lists of two, three statements *)
(* of which the last asks for a result, and one outage of the database.    *)
EXTENDS SqlPool

CONSTANTS w1, w2
MCWorkers == {w1, w2}
MCHashOf == <<0, 0, 1>>
=============================================================================
