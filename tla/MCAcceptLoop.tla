----------------------------- MODULE MCAcceptLoop -----------------------------
(* Values for model-checking AcceptLoop: enough connections to fill connCh, *)
(* Run's hands and the listener's queue at once.                            *)
EXTENDS AcceptLoop

CONSTANTS c1, c2, c3, c4

MCConns == {c1, c2, c3, c4}
=============================================================================
