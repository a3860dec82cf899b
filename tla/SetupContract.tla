---------------------------- MODULE SetupContract ----------------------------
(***************************************************************************)
(* What the setup of a session promises when both ends run this code: the  *)
(* server takes the client's proposal first, the client takes the server's *)
(* after it, each end's session is the mirror image of the other's, and a  *)
(* session once taken stays.  No messages, streams, timers or failures:    *)
(* those are Handshake, which is shown to implement this.                  *)
(***************************************************************************)
CONSTANTS
    Proposals,  \* what an end may propose
    Session,    \* Session[mine][theirs]: the session of an end
    NoView      \* an end without session

VARIABLE view   \* the session each end holds

Init == view = [s \in {"client", "server"} |-> NoView]

ServerTakes(mine, theirs) ==
    /\ view["server"] = NoView
    /\ view["client"] = NoView
    /\ view' = [view EXCEPT !["server"] = Session[mine][theirs]]

ClientTakes(mine, theirs) ==
    /\ view["client"] = NoView
    /\ view["server"] = Session[theirs][mine]
    /\ view' = [view EXCEPT !["client"] = Session[mine][theirs]]

Next == \E mine, theirs \in Proposals :
            ServerTakes(mine, theirs) \/ ClientTakes(mine, theirs)

Spec == Init /\ [][Next]_view
=============================================================================
