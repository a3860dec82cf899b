------------------------------- MODULE MCService -------------------------------
(* Values for model-checking Service: a client of this code and one that may *)
(* stall, with room for one connection in each of the two queues.            *)
EXTENDS Service

CONSTANTS o1, f1

MCOwn == {o1}
MCForeign == {f1}
=============================================================================
