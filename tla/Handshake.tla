------------------------------ MODULE Handshake ------------------------------
(***************************************************************************)
(* The setup of one MOQT session over one established connection:          *)
(* Client.InitiateSession at one end, Server.InitateSession and the        *)
(* handler that calls it at the other, and the SessionState each builds.   *)
(*                                                                         *)
(* A message reaches the transport in one step, which ControlStream        *)
(* justifies: it implements MessageChannel, whose steps are whole messages *)
(* in order.  Its write returns in another, since the peer may have read   *)
(* it by then.  Either end may instead be another implementation, which    *)
(* sends what it likes and takes what it likes.                            *)
(***************************************************************************)
EXTENDS Integers, Sequences, FiniteSets, FiniteSetsExt

CONSTANTS
    Offers,             \* setupParams a caller may pass, in their order
    DefaultMaxIncoming, \* defaultMaxIncomingRequestId of both ends
    VarintMax,          \* the largest integer a varint can carry
    MaxAttempts,        \* bound on InitiateSession calls on the connection
    NoView              \* an end without session, for the contract

Sides == {"client", "server"}
Peer(s) == IF s = "client" THEN "server" ELSE "client"

ParamTypes == {"path", "authority", "maxRequestID", "tokenCache", "impl"}
Param == [type : ParamTypes, value : Nat]

\* Byte strings, like integers, are told apart by number; 0 is the empty one.
SessionState == [path : Nat, authority : Nat, maxIn : Nat, maxOut : Nat,
                 localCache : Nat, peerCache : Nat, peerImpl : Nat]

ASSUME OffersAssumption == Offers \subseteq Seq(Param)
ASSUME DefaultAssumption == DefaultMaxIncoming \in Nat /\ VarintMax \in Nat
ASSUME NoViewAssumption == NoView \notin SessionState
ASSUME AttemptsAssumption == MaxAttempts \in Nat \ {0}

\* On the wire: a setup message, something the reader refuses, or the
\* beginning of a frame whose rest never comes.
SetupKinds == {"CLIENT_SETUP", "SERVER_SETUP"}
BadKinds == {"unsupported", "malformed", "oversized", "missized", "cut"}
Message == [kind : SetupKinds \cup BadKinds, params : Seq(Param)]
OtherMessage == [kind : SetupKinds, params : Offers]
                \cup [kind : BadKinds, params : {<<>>}]

VARIABLES
    other,      \* the end that is another implementation, if any
    keepAlive,  \* whether that implementation keeps the connection from idling
    wt,         \* IsWebTransport
    pc,         \* where each end is
    err,        \* the error its latest call returned
    offer,      \* the setupParams of its latest call
    sess,       \* the SessionState it builds or built
    chan,       \* messages on their way to each end
    streams,    \* bidirectional streams the client has opened
    attempts,   \* InitiateSession calls so far
    down,       \* whether the connection is over for each end
    closeCode   \* the code the server's handler closed it with

confVars == <<other, keepAlive, wt>>
vars == <<confVars, pc, err, offer, sess, chan, streams, attempts, down, closeCode>>

-----------------------------------------------------------------------------
(* SessionState *)

Positions(ps, types) == {i \in DOMAIN ps : ps[i].type \in types}

\* The loops assign at every parameter of the type, so the last one counts.
LastValue(ps, t, default) ==
    IF Positions(ps, {t}) = {} THEN default ELSE ps[Max(Positions(ps, {t}))].value

NewSessionState ==
    [path |-> 0, authority |-> 0, maxIn |-> DefaultMaxIncoming, maxOut |-> 0,
     localCache |-> 0, peerCache |-> 0, peerImpl |-> 0]

WithLocal(st, ps) ==
    [st EXCEPT !.path       = LastValue(ps, "path", @),
               !.authority  = LastValue(ps, "authority", @),
               !.maxIn      = LastValue(ps, "maxRequestID", @),
               !.localCache = LastValue(ps, "tokenCache", @)]

\* Mutant: the first MAX_REQUEST_ID counts instead of the last.
FromParamsFirst(st, ps) ==
    [st EXCEPT !.peerImpl  = LastValue(ps, "impl", @),
               !.path      = LastValue(ps, "path", @),
               !.authority = LastValue(ps, "authority", @),
               !.maxOut    = IF Positions(ps, {"maxRequestID"}) = {} THEN @
                             ELSE ps[Min(Positions(ps, {"maxRequestID"}))].value,
               !.peerCache = LastValue(ps, "tokenCache", @)]

FromParams(st, ps) ==
    [st EXCEPT !.peerImpl  = LastValue(ps, "impl", @),
               !.path      = LastValue(ps, "path", @),
               !.authority = LastValue(ps, "authority", @),
               !.maxOut    = LastValue(ps, "maxRequestID", @),
               !.peerCache = LastValue(ps, "tokenCache", @)]

\* The session of an end that gives mine and is given theirs.
SessionOf == [mine \in Offers |-> [theirs \in Offers |->
                 FromParams(WithLocal(NewSessionState, mine), theirs)]]

HasPathOrAuthority(ps) == Positions(ps, {"path", "authority"}) # {}

\* EncodeMoqtKeyValuePair panics on a value that no varint carries.
Encodable(ps) == \A i \in DOMAIN ps : ps[i].value <= VarintMax

\* How reading m ends for an end that wants a message of the given kind.  A payload
\* that does not decode is a general error, unless a value in it is too long.
ReadVerdict(m, want) ==
    IF m.kind = want THEN "none"
    ELSE IF m.kind = "malformed" THEN "error" ELSE "PROTOCOL_VIOLATION"

\* The client refuses a SERVER_SETUP at its first Path or Authority.
ServerParamsVerdict(ps) ==
    IF ~HasPathOrAuthority(ps) THEN "none"
    ELSE IF ps[Min(Positions(ps, {"path", "authority"}))].type = "path"
         THEN "INVALID_PATH" ELSE "INVALID_AUTHORITY"

Errors == {"none", "error", "timeout", "PROTOCOL_VIOLATION", "INVALID_PATH",
           "INVALID_AUTHORITY"}

-----------------------------------------------------------------------------
Init ==
    /\ other \in {{}, {"client"}, {"server"}}
    /\ keepAlive \in (IF other = {} THEN {FALSE} ELSE BOOLEAN)
    /\ wt \in BOOLEAN
    /\ pc = [s \in Sides |-> IF s \in other THEN "other" ELSE "idle"]
    /\ err = [s \in Sides |-> "none"]
    /\ offer = [s \in Sides |-> <<>>]
    /\ sess = [s \in Sides |-> NewSessionState]
    /\ chan = [s \in Sides |-> <<>>]
    /\ streams = 0
    /\ attempts = 0
    /\ down = [s \in Sides |-> FALSE]
    /\ closeCode = "none"

Calling == {"open", "accept", "read", "write", "sent"}

Goto(s, l) == pc' = [pc EXCEPT ![s] = l]

\* The call of s returns the error e.
Fail(s, e) == Goto(s, "failed") /\ err' = [err EXCEPT ![s] = e]

Send(s, kind, ps) ==
    chan' = [chan EXCEPT ![Peer(s)] = Append(@, [kind |-> kind, params |-> ps])]

Receive(s) == chan' = [chan EXCEPT ![s] = Tail(@)]

\* The next message of s has arrived whole.
Ready(s) == ~down[s] /\ chan[s] # <<>> /\ Head(chan[s]).kind # "cut"

\* A blocked or starting transport operation finds the connection gone.  A Write
\* whose last byte was taken returns nil all the same.
TransportFails(s) ==
    /\ pc[s] \in Calling \ {"sent"}
    /\ pc[s] = "write" => Encodable(offer[s])
    /\ down[s]
    /\ Fail(s, "error")
    /\ UNCHANGED <<confVars, offer, sess, chan, streams, attempts, down, closeCode>>

\* WriteControlMessage returns nil, at some time after its last byte was taken and
\* perhaps after the peer has read and answered it.
WriteReturns(s) ==
    /\ pc[s] = "sent"
    /\ Goto(s, IF s = "client" THEN "read" ELSE "established")
    /\ UNCHANGED <<confVars, err, offer, sess, chan, streams, attempts, down, closeCode>>

\* A panic of the encoder ends the whole process, and the connection with it.
EncoderPanics(s) ==
    /\ pc[s] = "write"
    /\ ~Encodable(offer[s])
    /\ Goto(s, "crashed")
    /\ down' = [down EXCEPT ![s] = TRUE]
    /\ UNCHANGED <<confVars, err, offer, sess, chan, streams, attempts, closeCode>>

-----------------------------------------------------------------------------
(* Client.InitiateSession *)

ClientCall(ps) ==
    /\ pc["client"] = "idle"
    /\ attempts < MaxAttempts
    /\ attempts' = attempts + 1
    /\ Goto("client", "open")
    /\ offer' = [offer EXCEPT !["client"] = ps]
    /\ err' = [err EXCEPT !["client"] = "none"]
    /\ UNCHANGED <<confVars, sess, chan, streams, down, closeCode>>

\* Mutant: the server's configuration leaves MaxIncomingStreams at its default.
MayOpenMany == TRUE

\* This server allows one bidirectional stream (MaxIncomingStreams: 1) and the
\* credit never comes back, since no code closes the control stream; another
\* server may grant any number.
MayOpen == streams < 1 \/ "server" \in other
MayStarve == streams >= 1 \/ "server" \in other

\* Mutant: the parameters are not checked against the transport.
OpenControlStreamUnchecked ==
    /\ pc["client"] = "open"
    /\ ~down["client"]
    /\ MayOpen
    /\ streams' = streams + 1
    /\ chan' = [chan EXCEPT !["client"] = <<>>]
    /\ sess' = [sess EXCEPT !["client"] = WithLocal(NewSessionState, offer["client"])]
    /\ Goto("client", "write")
    /\ UNCHANGED <<confVars, err, offer, attempts, down, closeCode>>

\* Opens the stream, builds the session, checks and applies the parameters.
\* Nothing sent on an earlier stream is read on the new one.
OpenControlStream ==
    /\ pc["client"] = "open"
    /\ ~down["client"]
    /\ MayOpen
    /\ streams' = streams + 1
    /\ chan' = [chan EXCEPT !["client"] = <<>>]
    /\ sess' = [sess EXCEPT !["client"] = WithLocal(NewSessionState, offer["client"])]
    /\ IF wt /\ HasPathOrAuthority(offer["client"])
       THEN Fail("client", "error")
       ELSE Goto("client", "write") /\ UNCHANGED err
    /\ UNCHANGED <<confVars, offer, attempts, down, closeCode>>

\* Mutant: OpenStreamSync is given a context without a deadline.
OpenTimeoutNever == FALSE /\ UNCHANGED vars

\* Without credit OpenStreamSync blocks until its 10 seconds are over.
OpenTimeout ==
    /\ pc["client"] = "open"
    /\ MayStarve
    /\ Fail("client", "timeout")
    /\ UNCHANGED <<confVars, offer, sess, chan, streams, attempts, down, closeCode>>

\* The last byte of the message is taken; until then the call is blocked in Flush.
SendClientSetup ==
    /\ pc["client"] = "write"
    /\ ~down["client"]
    /\ Encodable(offer["client"])
    /\ Send("client", "CLIENT_SETUP", offer["client"])
    /\ Goto("client", "sent")
    /\ UNCHANGED <<confVars, err, offer, sess, streams, attempts, down, closeCode>>

\* Mutant: the peer's values are put in a fresh session state.
ReadServerSetupAfresh ==
    /\ pc["client"] = "read"
    /\ Ready("client")
    /\ Receive("client")
    /\ LET m == Head(chan["client"])
       IN  IF m.kind # "SERVER_SETUP" \/ HasPathOrAuthority(m.params)
           THEN Fail("client", "error") /\ UNCHANGED sess
           ELSE /\ sess' = [sess EXCEPT !["client"] =
                               FromParams(NewSessionState, m.params)]
                /\ Goto("client", "established")
                /\ UNCHANGED err
    /\ UNCHANGED <<confVars, offer, streams, attempts, down, closeCode>>

ReadServerSetup ==
    /\ pc["client"] = "read"
    /\ Ready("client")
    /\ Receive("client")
    /\ LET m == Head(chan["client"])
           verdict == IF ReadVerdict(m, "SERVER_SETUP") # "none"
                      THEN ReadVerdict(m, "SERVER_SETUP")
                      ELSE ServerParamsVerdict(m.params)
       IN  IF verdict # "none"
           THEN Fail("client", verdict) /\ UNCHANGED sess
           ELSE /\ sess' = [sess EXCEPT !["client"] = FromParams(@, m.params)]
                /\ Goto("client", "established")
                /\ UNCHANGED err
    /\ UNCHANGED <<confVars, offer, streams, attempts, down, closeCode>>

\* The caller that got an error tries again on the same connection ...
ClientRetry ==
    /\ pc["client"] = "failed"
    /\ Goto("client", "idle")
    /\ UNCHANGED <<confVars, err, offer, sess, chan, streams, attempts, down, closeCode>>

\* ... or panics, as the example does, without closing anything.
ClientExit ==
    /\ pc["client"] = "failed"
    /\ Goto("client", "exited")
    /\ down' = [down EXCEPT !["client"] = TRUE]
    /\ UNCHANGED <<confVars, err, offer, sess, chan, streams, attempts, closeCode>>

-----------------------------------------------------------------------------
(* Server.InitateSession and its handler *)

ServerCall(ps) ==
    /\ pc["server"] = "idle"
    /\ Goto("server", "accept")
    /\ offer' = [offer EXCEPT !["server"] = ps]
    /\ UNCHANGED <<confVars, err, sess, chan, streams, attempts, down, closeCode>>

\* Mutant: the server answers as soon as it accepts the stream.
AcceptAndAnswer ==
    /\ pc["server"] = "accept"
    /\ ~down["server"]
    /\ chan["server"] # <<>>
    /\ Encodable(offer["server"])
    /\ sess' = [sess EXCEPT !["server"] = WithLocal(NewSessionState, offer["server"])]
    /\ Send("server", "SERVER_SETUP", offer["server"])
    /\ Goto("server", "read")
    /\ UNCHANGED <<confVars, err, offer, streams, attempts, down, closeCode>>

\* A stream is there to be accepted once its first bytes have arrived.
AcceptControlStream ==
    /\ pc["server"] = "accept"
    /\ ~down["server"]
    /\ chan["server"] # <<>>
    /\ sess' = [sess EXCEPT !["server"] = WithLocal(NewSessionState, offer["server"])]
    /\ IF wt /\ HasPathOrAuthority(offer["server"])
       THEN Fail("server", "error")
       ELSE Goto("server", "read") /\ UNCHANGED err
    /\ UNCHANGED <<confVars, offer, chan, streams, attempts, down, closeCode>>

\* WaitForControlStreamTimeout may be over just as the stream arrives.
AcceptTimeout ==
    /\ pc["server"] = "accept"
    /\ Fail("server", "timeout")
    /\ UNCHANGED <<confVars, offer, sess, chan, streams, attempts, down, closeCode>>

ReadClientSetup ==
    /\ pc["server"] = "read"
    /\ Ready("server")
    /\ Receive("server")
    /\ LET m == Head(chan["server"])
           verdict == ReadVerdict(m, "CLIENT_SETUP")
       IN  IF verdict # "none"
           THEN Fail("server", verdict) /\ UNCHANGED sess
           ELSE /\ sess' = [sess EXCEPT !["server"] = FromParams(@, m.params)]
                /\ Goto("server", "write")
                /\ UNCHANGED err
    /\ UNCHANGED <<confVars, offer, streams, attempts, down, closeCode>>

\* Mutant: the answer carries the type of the other setup message.
SendServerSetupMistyped ==
    /\ pc["server"] = "write"
    /\ ~down["server"]
    /\ Encodable(offer["server"])
    /\ Send("server", "CLIENT_SETUP", offer["server"])
    /\ Goto("server", "sent")
    /\ UNCHANGED <<confVars, err, offer, sess, streams, attempts, down, closeCode>>

SendServerSetup ==
    /\ pc["server"] = "write"
    /\ ~down["server"]
    /\ Encodable(offer["server"])
    /\ Send("server", "SERVER_SETUP", offer["server"])
    /\ Goto("server", "sent")
    /\ UNCHANGED <<confVars, err, offer, sess, streams, attempts, down, closeCode>>

\* The handler closes the connection with code 0x0 whatever the error was.
HandlerCloses ==
    /\ pc["server"] = "failed"
    /\ Goto("server", "closed")
    /\ down' = [down EXCEPT !["server"] = TRUE]
    /\ closeCode' = IF down["server"] THEN closeCode ELSE "0x0"
    /\ UNCHANGED <<confVars, err, offer, sess, chan, streams, attempts>>

-----------------------------------------------------------------------------
(* The other implementation and the transport *)

OtherSends(s, m) ==
    /\ pc[s] = "other"
    /\ ~down[s]
    /\ IF s = "client" THEN streams' = streams + 1
                       ELSE chan[s] # <<>> /\ UNCHANGED streams
    /\ Send(s, m.kind, m.params)
    /\ Goto(s, "spoken")
    /\ UNCHANGED <<confVars, err, offer, sess, attempts, down, closeCode>>

\* The connection is lost, closed by the other implementation, or idles out.
ConnectionLost(s) ==
    /\ ~down[s]
    /\ down' = [down EXCEPT ![s] = TRUE]
    /\ UNCHANGED <<confVars, pc, err, offer, sess, chan, streams, attempts, closeCode>>

Learns(s) == down[Peer(s)] /\ ConnectionLost(s)

-----------------------------------------------------------------------------
ClientStep ==
    \/ OpenControlStream \/ OpenTimeout \/ SendClientSetup \/ WriteReturns("client")
    \/ ReadServerSetup

ServerStep ==
    \/ AcceptControlStream \/ AcceptTimeout \/ ReadClientSetup \/ SendServerSetup
    \/ WriteReturns("server") \/ HandlerCloses

Next ==
    \/ \E ps \in Offers : ClientCall(ps) \/ ServerCall(ps)
    \/ ClientStep \/ ServerStep
    \/ ClientRetry \/ ClientExit
    \/ \E s \in Sides : \/ TransportFails(s) \/ EncoderPanics(s)
                        \/ ConnectionLost(s)
                        \/ \E m \in OtherMessage : OtherSends(s, m)

\* What the calls are sure to do.  The transport takes a whole setup message for a
\* peer of this code: it fits the window a quic-go receiver grants before anyone
\* reads.  Another implementation owes no stream, no window and no message.
ClientDue ==
    \/ "server" \notin other /\ (OpenControlStream \/ SendClientSetup)
    \/ OpenTimeout \/ WriteReturns("client") \/ ReadServerSetup

ServerDue ==
    \/ "client" \notin other /\ SendServerSetup
    \/ AcceptControlStream \/ AcceptTimeout \/ ReadClientSetup
    \/ WriteReturns("server") \/ HandlerCloses

\* The code of a call runs on, its timers fire, the end of a connection is
\* noticed, and an idle one times out since nothing here keeps it alive; the
\* callers owe no call.
Fairness ==
    /\ WF_vars(ClientDue)
    /\ WF_vars(ServerDue)
    /\ \A s \in Sides : /\ WF_vars(TransportFails(s))
                        /\ WF_vars(EncoderPanics(s))
                        /\ WF_vars(Learns(s))
                        /\ WF_vars(~keepAlive /\ ConnectionLost(s))

Spec == Init /\ [][Next]_vars /\ Fairness

-----------------------------------------------------------------------------
(* Properties *)

Labels == {"idle", "open", "accept", "read", "write", "sent", "established",
           "failed", "crashed", "exited", "closed", "other", "spoken"}

TypeOK ==
    /\ other \in SUBSET Sides
    /\ keepAlive \in BOOLEAN
    /\ wt \in BOOLEAN
    /\ pc \in [Sides -> Labels]
    /\ err \in [Sides -> Errors]
    /\ offer \in [Sides -> Seq(Param)]
    /\ sess \in [Sides -> SessionState]
    /\ chan \in [Sides -> Seq(Message)]
    /\ streams \in Nat /\ ("server" \notin other => streams <= 1)
    /\ attempts \in 0..MaxAttempts
    /\ down \in [Sides -> BOOLEAN]
    /\ closeCode \in {"none", "0x0"}

Established(s) == pc[s] = "established"
BothEstablished == \A s \in Sides : Established(s)

\* Nothing can keep the end from its session any more: the client's call has
\* returned it, the server's answer is with the transport.
HasSession(s) == Established(s) \/ (s = "server" /\ pc[s] = "sent")

\* Two ends of this implementation that both hold a session never let a side
\* use more request IDs, or store more tokens at its peer, than the peer has set
\* itself to take, whatever parameters were given, repeated or left out.
NeverOverLicensed ==
    BothEstablished =>
        \A s \in Sides : /\ sess[s].maxOut <= sess[Peer(s)].maxIn
                         /\ sess[s].peerCache <= sess[Peer(s)].localCache

\* A client of this implementation holds a session with a server of this
\* implementation only if that server holds it too, or is about to return it: a
\* server that failed, timed out or crashed never leaves a client believing in a
\* session, also when the client has it before the server's write returns.
ClientImpliesServer ==
    other = {} /\ Established("client") => HasSession("server")

\* Two ends of this implementation never take each other for protocol violators,
\* whatever fails or is retried.
NoFalseAccusation ==
    other = {} => \A s \in Sides : err[s] # "PROTOCOL_VIOLATION"

\* A connection to this server whose first InitiateSession failed never carries
\* a session: its one stream is spent, and no later attempt opens a second or
\* picks up what the first left.
RetryNeverEstablishes ==
    other = {} /\ attempts > 1 => ~Established("client")

\* Over WebTransport neither end of this implementation gives the other a Path
\* or an Authority.
PathlessWebTransport ==
    wt /\ other = {} =>
        \A s \in Sides : Established(s) => sess[s].path = 0 /\ sess[s].authority = 0

(* The inductive invariant behind them, between two ends of this code: the  *)
(* one stream is used in one direction, then in the other, and once the     *)
(* client has written, what the server holds came from that call.           *)

Waiting == {"idle", "accept", "failed", "closed"}
Spent == {"idle", "open", "failed", "crashed", "exited"}

\* Parameters that the transport does not forbid.
Admissible(ps) == wt => ~HasPathOrAuthority(ps)

\* What the two ends are doing fits the one stream there can be.
Stages ==
    /\ streams <= 1
    /\ attempts = 0 => pc["client"] = "idle"
    /\ streams = 0 => /\ chan["server"] = <<>> /\ pc["server"] \in Waiting
                      /\ pc["client"] \in {"idle", "open", "failed", "exited"}
    /\ streams = 0 => \/ attempts = 0 \/ down["client"]
                      \/ attempts = 1 /\ pc["client"] = "open"
    /\ streams = 0 \/ pc["client"] \in Spent \/ attempts = 1
    /\ pc["client"] = "write" => chan["server"] = <<>> /\ pc["server"] \in Waiting
    /\ pc["client"] \in Spent \cup {"write", "sent", "read", "established"}
    /\ pc["server"] \in Waiting \cup {"read", "write", "sent", "crashed", "established"}
    /\ Established("client") => HasSession("server")

\* At most one message is on its way in each direction, the one its sender's
\* call was given the parameters of.
InTransit ==
    /\ chan["client"] # <<>> =>
        /\ HasSession("server")
        /\ chan["client"] = <<[kind |-> "SERVER_SETUP", params |-> offer["server"]]>>
    /\ chan["server"] # <<>> => \E ps \in Offers :
        /\ Admissible(ps)
        /\ chan["server"] = <<[kind |-> "CLIENT_SETUP", params |-> ps]>>
        /\ pc["client"] \in {"sent", "read"} => ps = offer["client"]

\* What the session under construction has been filled with.
Filled ==
    /\ pc["client"] \in {"write", "sent", "read"} =>
        sess["client"] = WithLocal(NewSessionState, offer["client"])
    /\ Established("client") => sess["client"] = SessionOf[offer["client"]][offer["server"]]
    /\ pc["server"] = "read" =>
        sess["server"] = WithLocal(NewSessionState, offer["server"])
    /\ pc["server"] \in {"write", "sent", "established"} => \E ps \in Offers :
        /\ Admissible(ps)
        /\ sess["server"] = SessionOf[offer["server"]][ps]
        /\ pc["client"] \in {"sent", "read", "established"} => ps = offer["client"]

\* A call has the parameters it was given, checked by the time it writes them.
Given ==
    \A s \in Sides :
        /\ s \in other <=> pc[s] \in {"other", "spoken"}
        /\ pc[s] \in Calling \cup {"established"} => offer[s] \in Offers
        /\ pc[s] \in {"read", "write", "sent", "established"} => Admissible(offer[s])

HInv ==
    /\ TypeOK
    /\ pc["client"] = "other" => streams = 0
    /\ Given
    /\ other = {} => Stages /\ InTransit /\ Filled /\ NoFalseAccusation

\* Two ends of this implementation implement the abstract agreement: sessions
\* are mirror images, the client's comes after the server's and both stay.  The
\* server's comes with its answer, which commits it.
Contract == INSTANCE SetupContract WITH
    Proposals <- Offers,
    Session <- SessionOf,
    view <- [s \in Sides |-> IF other = {} /\ HasSession(s) THEN sess[s] ELSE NoView]

ContractSpec == Contract!Spec

\* Every call of InitiateSession and InitateSession returns (or takes its process
\* with it), unless another implementation keeps the connection alive and either
\* never takes the rest of the message the call writes, or never finishes the one
\* it reads: neither the writes nor the reads of the handshake have a deadline.
CallsReturn ==
    \A s \in Sides :
        pc[s] \in Calling ~> \/ pc[s] \notin Calling
                            \/ [](keepAlive /\ pc[s] \in {"write", "read"})

-----------------------------------------------------------------------------
(* What the comments say and the code does not do *)

\* "MaxIncomingRequestID is the limit WE have imposed on the PEER" and
\* "MaxOutgoingRequestID is the limit the PEER has imposed on US"
\* (session.go:47-54): once both hold the session these are the same numbers.
LimitsAgree ==
    BothEstablished => \A s \in Sides : sess[s].maxOut = sess[Peer(s)].maxIn

\* "Path received in CLIENT_SETUP (Server-side only)" (session.go:30): a server's
\* session holds no path but the one its client sent.
PathIsReceived ==
    other = {} /\ Established("server") =>
        sess["server"].path = LastValue(offer["client"], "path", 0)

\* "If they do, the peer MUST close the Session with a Protocol Violation"
\* (server.go:122-123): a protocol violation the server found is the code it
\* closes the connection with.
ViolationClosesSession ==
    err["server"] = "PROTOCOL_VIOLATION" /\ closeCode # "none" =>
        closeCode = "PROTOCOL_VIOLATION"
=============================================================================
