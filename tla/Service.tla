------------------------------- MODULE Service -------------------------------
(***************************************************************************)
(* One server and its clients: Client.Connect and InitiateSession at one   *)
(* end of each connection, Server.Run, its caller's loop and the handler   *)
(* goroutines at the other.  The loop is AcceptLoop over the same          *)
(* variables.  The setup on a connection is a reduction of Handshake: one  *)
(* attempt, parameters that every encoder takes, and a client of another   *)
(* implementation that can do no more than stall or be refused.            *)
(***************************************************************************)
EXTENDS Naturals, Sequences, SequencesExt

CONSTANTS
    Own,        \* clients of this implementation, one connection each
    Foreign,    \* clients that may stop talking and keep the connection alive
    ChanCap,    \* capacity of connCh
    BacklogCap  \* connections the QUIC library queues for Accept

ASSUME ClientsAssumption == Own \cap Foreign = {}
ASSUME CapsAssumption == ChanCap \in Nat \ {0} /\ BacklogCap \in Nat \ {0}

VARIABLES
    run, ctxDone, listening, dialed, backlog, held, connCh, started,
                \* as in AcceptLoop
    client,     \* where each client is
    sent,       \* what it has put on its control stream
    handler,    \* where the handler of its connection is
    replied,    \* whether SERVER_SETUP was put on the stream for it
    over,       \* the ends for which the connection is over
    alive       \* the server's process runs

Clients == Own \cup Foreign
Loop == INSTANCE AcceptLoop WITH Conns <- Clients

loopVars == <<run, ctxDone, listening, dialed, backlog, held, connCh, started>>
endVars == <<client, sent, handler, replied, over, alive>>
vars == <<loopVars, endVars>>

Ends == {"client", "server"}

Init ==
    /\ Loop!Init
    /\ client = [c \in Clients |-> "idle"]
    /\ sent = [c \in Clients |-> "nothing"]
    /\ handler = [c \in Clients |-> "none"]
    /\ replied = [c \in Clients |-> FALSE]
    /\ over = [c \in Clients |-> {}]
    /\ alive = TRUE

Connected == {"connected", "waiting", "established", "failed"}

Goto(c, l) == client' = [client EXCEPT ![c] = l]
Handle(c, l) == handler' = [handler EXCEPT ![c] = l]

-----------------------------------------------------------------------------
(* Client.Connect *)

\* An unparsable URI, an unknown scheme, or nobody answers for 30 seconds.
ConnectFails(c) ==
    /\ client[c] = "idle"
    /\ Goto(c, "unconnected")
    /\ UNCHANGED <<loopVars, sent, handler, replied, over, alive>>

\* For https there is neither a connection nor an error ...
ConnectNothing(c) ==
    /\ client[c] = "idle"
    /\ Goto(c, "nothing")
    /\ UNCHANGED <<loopVars, sent, handler, replied, over, alive>>

\* ... so the caller goes on, and OpenStreamSync of nil panics.
InitiateOnNothing(c) ==
    /\ client[c] = "nothing"
    /\ Goto(c, "crashed")
    /\ UNCHANGED <<loopVars, sent, handler, replied, over, alive>>

Connect(c) ==
    /\ alive
    /\ client[c] = "idle"
    /\ Len(backlog) < BacklogCap
    /\ Loop!Dial(c)
    /\ Goto(c, "connected")
    /\ UNCHANGED <<sent, handler, replied, over, alive>>

\* The dial succeeds, then the library finds its queue full and closes.
ConnectRefused(c) ==
    /\ alive
    /\ client[c] = "idle"
    /\ listening
    /\ Len(backlog) >= BacklogCap
    /\ Goto(c, "connected")
    /\ over' = [over EXCEPT ![c] = {"server"}]
    /\ UNCHANGED <<loopVars, sent, handler, replied, alive>>

-----------------------------------------------------------------------------
(* Client.InitiateSession *)

SendClientSetup(c) ==
    /\ client[c] = "connected"
    /\ "client" \notin over[c]
    /\ Goto(c, "waiting")
    /\ sent' = [sent EXCEPT ![c] = "whole"]
    /\ UNCHANGED <<loopVars, handler, replied, over, alive>>

ReadServerSetup(c) ==
    /\ client[c] = "waiting"
    /\ "client" \notin over[c]
    /\ replied[c]
    /\ Goto(c, "established")
    /\ UNCHANGED <<loopVars, sent, handler, replied, over, alive>>

ClientFails(c) ==
    /\ client[c] \in {"connected", "waiting"}
    /\ "client" \in over[c]
    /\ Goto(c, "failed")
    /\ UNCHANGED <<loopVars, sent, handler, replied, over, alive>>

\* Another implementation opens its stream with part of a message, or with one
\* the server refuses.
ForeignSends(c) ==
    /\ c \in Foreign
    /\ client[c] = "connected"
    /\ "client" \notin over[c]
    /\ Goto(c, "waiting")
    /\ \E what \in {"part", "bad"} : sent' = [sent EXCEPT ![c] = what]
    /\ UNCHANGED <<loopVars, handler, replied, over, alive>>

-----------------------------------------------------------------------------
(* The server: Run, its caller's loop, the handlers *)

Accepting == alive /\ Loop!Loop /\ UNCHANGED endVars
ListenFails == alive /\ Loop!ListenFails /\ UNCHANGED endVars

\* Mutant: the caller's loop sets the session up itself, one after another.
StartHandlerInline ==
    /\ alive
    /\ \A c \in Clients : handler[c] \notin {"accept", "read"}
    /\ Loop!StartHandler
    /\ Handle(Head(connCh), "accept")
    /\ UNCHANGED <<client, sent, replied, over, alive>>

StartHandler ==
    /\ alive
    /\ Loop!StartHandler
    /\ Handle(Head(connCh), "accept")
    /\ UNCHANGED <<client, sent, replied, over, alive>>

AcceptStream(c) ==
    /\ alive
    /\ handler[c] = "accept"
    /\ "server" \notin over[c]
    /\ sent[c] # "nothing"
    /\ Handle(c, "read")
    /\ UNCHANGED <<loopVars, client, sent, replied, over, alive>>

\* Reads CLIENT_SETUP and puts SERVER_SETUP on the stream, a few bytes that quic-go
\* takes at once whatever the client does (an answer that blocks is in Handshake).
Answer(c) ==
    /\ alive
    /\ handler[c] = "read"
    /\ "server" \notin over[c]
    /\ sent[c] = "whole"
    /\ Handle(c, "sent")
    /\ replied' = [replied EXCEPT ![c] = TRUE]
    /\ UNCHANGED <<loopVars, client, sent, over, alive>>

\* InitateSession returns the session; the handler then ends and the session remains.
AnswerReturns(c) ==
    /\ alive
    /\ handler[c] = "sent"
    /\ Handle(c, "established")
    /\ UNCHANGED <<loopVars, client, sent, replied, over, alive>>

\* Mutant: the handler closes the connection whether or not there was an error.
HandlerAlwaysCloses(c) ==
    /\ alive
    /\ handler[c] \in {"accept", "read", "established"}
    /\ handler[c] = "read" => "server" \in over[c] \/ sent[c] = "bad"
    /\ Handle(c, "closed")
    /\ over' = [over EXCEPT ![c] = @ \cup {"server"}]
    /\ UNCHANGED <<loopVars, client, sent, replied, alive>>

\* Mutant: AcceptStream is given the caller's context, without a deadline.
HandlerFailsUntimed(c) ==
    /\ alive
    /\ handler[c] \in {"accept", "read"}
    /\ "server" \in over[c] \/ (handler[c] = "read" /\ sent[c] = "bad")
    /\ Handle(c, "closed")
    /\ over' = [over EXCEPT ![c] = @ \cup {"server"}]
    /\ UNCHANGED <<loopVars, client, sent, replied, alive>>

\* The wait for the stream times out, the connection is over, or the message
\* is refused: InitateSession returns an error and the handler closes.
HandlerFails(c) ==
    /\ alive
    /\ handler[c] \in {"accept", "read"}
    /\ handler[c] = "read" => "server" \in over[c] \/ sent[c] = "bad"
    /\ Handle(c, "closed")
    /\ over' = [over EXCEPT ![c] = @ \cup {"server"}]
    /\ UNCHANGED <<loopVars, client, sent, replied, alive>>

\* The process ends, with every handler and every session: it is killed, or one of
\* its goroutines panics (the encoder, on a parameter that no varint carries).
ServerDies ==
    /\ alive
    /\ alive' = FALSE
    /\ handler' = [c \in Clients |->
                     IF handler[c] \in {"none", "closed"} THEN handler[c] ELSE "dead"]
    /\ over' = [c \in Clients |-> IF client[c] \in Connected
                                  THEN over[c] \cup {"server"} ELSE over[c]]
    /\ UNCHANGED <<loopVars, client, sent, replied>>

-----------------------------------------------------------------------------
(* The environment *)

\* What becomes of a connection matters to an end until it has its session.
InSetup(c, e) ==
    IF e = "client" THEN client[c] \in {"connected", "waiting"}
    ELSE client[c] \in Connected /\ handler[c] \in {"none", "accept", "read"}

\* Mutant: both configurations set KeepAlivePeriod.
ConnectionLostIfLearnt(c, e) ==
    /\ InSetup(c, e)
    /\ over[c] = Ends \ {e}
    /\ over' = [over EXCEPT ![c] = Ends]
    /\ UNCHANGED <<loopVars, client, sent, handler, replied, alive>>

\* The connection idles out, also in a queue, is lost, or its other end closed.
ConnectionLost(c, e) ==
    /\ InSetup(c, e)
    /\ e \notin over[c]
    /\ over' = [over EXCEPT ![c] = @ \cup {e}]
    /\ UNCHANGED <<loopVars, client, sent, handler, replied, alive>>

Learns(c) == over[c] # {} /\ \E e \in Ends : ConnectionLost(c, e)

Outside == alive /\ (Loop!Cancel \/ Loop!ListenerCloses) /\ UNCHANGED endVars

-----------------------------------------------------------------------------
ClientStep(c) == SendClientSetup(c) \/ ReadServerSetup(c) \/ ClientFails(c)
HandlerStep(c) ==
    AcceptStream(c) \/ Answer(c) \/ AnswerReturns(c) \/ HandlerFails(c)

Next ==
    \/ Accepting \/ ListenFails \/ StartHandler \/ ServerDies \/ Outside
    \/ \E c \in Clients :
        \/ ConnectFails(c) \/ ConnectNothing(c) \/ InitiateOnNothing(c)
        \/ Connect(c) \/ ConnectRefused(c)
        \/ ClientStep(c) \/ ForeignSends(c)
        \/ HandlerStep(c)
        \/ \E e \in Ends : ConnectionLost(c, e)

Fairness ==
    /\ WF_vars(Accepting)
    /\ SF_vars(alive /\ Loop!Accept /\ UNCHANGED endVars)
    /\ SF_vars(alive /\ Loop!HandOver /\ UNCHANGED endVars)
    /\ WF_vars(StartHandler)
    /\ \A c \in Clients : WF_vars(HandlerStep(c)) /\ WF_vars(Learns(c))
    /\ \A c \in Own : /\ WF_vars(ClientStep(c))
                      /\ WF_vars(\E e \in Ends : ConnectionLost(c, e))

Spec == Init /\ [][Next]_vars /\ Fairness

-----------------------------------------------------------------------------
TypeOK ==
    /\ Loop!TypeOK
    /\ client \in [Clients -> {"idle", "unconnected", "nothing", "crashed",
                               "connected", "waiting", "established", "failed"}]
    /\ sent \in [Clients -> {"nothing", "part", "bad", "whole"}]
    /\ handler \in [Clients -> {"none", "accept", "read", "sent", "established",
                                "closed", "dead"}]
    /\ replied \in [Clients -> BOOLEAN]
    /\ over \in [Clients -> SUBSET Ends]
    /\ alive \in BOOLEAN
    /\ Len(backlog) <= BacklogCap

\* The handlers that hold the session their client was answered with.
InSession == IF alive THEN {"sent", "established"} ELSE {"dead"}

\* The sessions keep step with the loop: a connection is dialed once, has a
\* handler from the moment it leaves the channel, and a client with a session has
\* a handler that holds it for as long as the process lives: no error, timeout or
\* loss takes a session from the server once its answer is on the stream.
InStep ==
    /\ \A i, j \in DOMAIN dialed : dialed[i] = dialed[j] => i = j
    /\ \A c \in Clients :
        /\ handler[c] # "none" <=> Contains(started, c)
        /\ client[c] = "established" => handler[c] \in InSession

\* What it rests on: a client has its session from an answer, an answer from a handler.
Answered ==
    \A c \in Clients : /\ client[c] = "established" => replied[c]
                       /\ replied[c] => handler[c] \in InSession

\* The inductive invariant.
SInv == TypeOK /\ Loop!InLine /\ InStep /\ Answered

\* A client that talks gets its session, or a closed connection, while Run and
\* the process live, whatever a client that stalls its own setup does.
ServedDespiteOthers ==
    \A c \in Own :
        Contains(dialed, c) ~> \/ handler[c] \in {"established", "closed"}
                               \/ ctxDone \/ ~listening \/ ~alive

\* A connected client always learns how its setup ended, also when its connection
\* is refused, stays in a queue nobody reads any more (Run returns without closing
\* the listener, server.go:79) or loses its server.
ClientsLearn ==
    \A c \in Own : client[c] = "connected" ~> client[c] \in {"established", "failed"}

\* A handler ends, unless its client keeps alive a connection on which the rest
\* of a message never comes, or the process ends first.
HandlersEnd ==
    \A c \in Clients :
        handler[c] = "accept" ~> \/ handler[c] \in {"established", "closed"} \/ ~alive
                                \/ [](sent[c] = "part" /\ handler[c] = "read")
=============================================================================
