---------------------------- MODULE ControlStream ----------------------------
(***************************************************************************)
(* One direction of a MOQT control stream: the goroutines that call        *)
(* ControlMessageFactory.WriteControlMessage at one end, the goroutine     *)
(* that calls ReadControlMessage at the other, and between them the        *)
(* bufio.Writer of the factory and the transport's stream.                 *)
(*                                                                         *)
(* A message is framed as a type, a length and Size[m] pieces of payload.  *)
(* Everything ever put in the bufio.Writer is one sequence of such pieces, *)
(* "stream", with two cursors: the transport has accepted the first        *)
(* "accepted" pieces, so the rest is what the writer still buffers, and    *)
(* the reader has consumed the first "read" of them.                       *)
(***************************************************************************)
EXTENDS Integers, Sequences, Positions

CONSTANTS
    Writers,    \* goroutines that share the factory
    Messages,   \* the messages they may send
    Size,       \* pieces of payload of each message
    Kind,       \* what Encode and the reader make of each message
    BufSize,    \* pieces the bufio.Writer holds
    Window,     \* pieces the transport accepts beyond what was read
    Transient,  \* whether a stream that refused a Write may take a later one
    MaxCalls,   \* bound on the calls of WriteControlMessage
    NoWriter    \* the lock's holder while it is free

Kinds == {"setup", "unsupported", "malformed", "missized", "unencodable"}

ASSUME NoWriterAssumption == NoWriter \notin Writers
ASSUME MessagesAssumption == Messages # {}
ASSUME SizeAssumption == Size \in [Messages -> Nat]
ASSUME KindAssumption == Kind \in [Messages -> Kinds]
ASSUME BufSizeAssumption == BufSize \in Nat /\ BufSize >= 2
ASSUME WindowAssumption == Window \in Nat \ {0}
ASSUME TransientAssumption == Transient \in BOOLEAN
ASSUME MaxCallsAssumption == MaxCalls \in Nat

VARIABLES
    pc,         \* where each writer is in WriteControlMessage
    msg,        \* the message of its latest call
    todo,       \* pieces of that message's payload not yet in the bufio.Writer
    lock,       \* writeLock
    calls,      \* calls made so far
    acked,      \* the messages whose call returned nil, oldest first
    stream,     \* every piece put in the bufio.Writer
    accepted,   \* how many of them the transport took
    werr,       \* the bufio.Writer's sticky error
    sendDown,   \* the transport refuses writes
    recvDown,   \* the transport refuses reads at the other end
    rpc,        \* the reader: idle, in ReadControlMessage, or broken
    read,       \* how many pieces it has consumed
    start,      \* how many it had consumed when its call began
    got         \* what its calls returned, oldest first

callVars   == <<pc, msg, todo, lock, calls, acked>>
senderVars == <<callVars, stream, accepted, werr>>
readerVars == <<rpc, read, start, got>>
netVars    == <<sendDown, recvDown>>
vars       == <<senderVars, readerVars, netVars>>

-----------------------------------------------------------------------------
(* Frames *)

Piece == [msg : Messages, part : Nat \ {0}]

FrameLen(m) == 2 + Size[m]              \* type, length, payload
PieceOf(m, p) == [msg |-> m, part |-> p]
Frame(m) == [p \in 1..FrameLen(m) |-> PieceOf(m, p)]

Buffered == Len(stream) - accepted

Init ==
    /\ pc = [w \in Writers |-> "idle"]
    /\ msg = [w \in Writers |-> CHOOSE m \in Messages : TRUE]
    /\ todo = [w \in Writers |-> 0]
    /\ lock = NoWriter
    /\ calls = 0
    /\ acked = <<>>
    /\ stream = <<>>
    /\ accepted = 0
    /\ werr = FALSE
    /\ sendDown = FALSE
    /\ recvDown = FALSE
    /\ rpc = "idle"
    /\ read = 0
    /\ start = 0
    /\ got = <<>>

-----------------------------------------------------------------------------
(* WriteControlMessage *)

Call(w, m) ==
    /\ pc[w] = "idle"
    /\ calls < MaxCalls
    /\ calls' = calls + 1
    /\ pc' = [pc EXCEPT ![w] = "lock"]
    /\ msg' = [msg EXCEPT ![w] = m]
    /\ todo' = [todo EXCEPT ![w] = Size[m]]
    /\ UNCHANGED <<lock, acked, stream, accepted, werr, readerVars, netVars>>

\* Mutant: writeLock is not taken exclusively.
LockShared(w) ==
    /\ pc[w] = "lock"
    /\ lock' = w
    /\ pc' = [pc EXCEPT ![w] = "encode"]
    /\ UNCHANGED <<msg, todo, calls, acked, stream, accepted, werr,
                   readerVars, netVars>>

Lock(w) ==
    /\ pc[w] = "lock"
    /\ lock = NoWriter
    /\ lock' = w
    /\ pc' = [pc EXCEPT ![w] = "encode"]
    /\ UNCHANGED <<msg, todo, calls, acked, stream, accepted, werr,
                   readerVars, netVars>>

\* Leaves the function: the deferred Unlock runs whatever it returns.
Return(w) ==
    /\ pc' = [pc EXCEPT ![w] = "idle"]
    /\ lock' = NoWriter
    /\ UNCHANGED <<msg, todo, calls>>

\* Mutant: the early return after a failed Encode forgets to unlock.
EncodeKeepsLock(w) ==
    /\ pc[w] = "encode"
    /\ pc' = [pc EXCEPT ![w] = IF Kind[msg[w]] = "unencodable"
                               THEN "idle" ELSE "header"]
    /\ UNCHANGED <<msg, todo, lock, calls, acked, stream, accepted, werr,
                   readerVars, netVars>>

\* Encode runs before anything is buffered, so its failure (or its panic, which
\* the deferred Unlock survives) leaves the stream as it was.
Encode(w) ==
    /\ pc[w] = "encode"
    /\ \/ /\ Kind[msg[w]] = "unencodable"
          /\ Return(w)
       \/ /\ Kind[msg[w]] # "unencodable"
          /\ pc' = [pc EXCEPT ![w] = "header"]
          /\ UNCHANGED <<msg, todo, lock, calls>>
    /\ UNCHANGED <<acked, stream, accepted, werr, readerVars, netVars>>

\* The bufio.Writer refuses everything once a write has failed.
HeaderFails(w) ==
    /\ pc[w] = "header"
    /\ werr
    /\ Return(w)
    /\ UNCHANGED <<acked, stream, accepted, werr, readerVars, netVars>>

\* Mutant: the buffered writer forgets that a write failed.
WriteHeaderUnchecked(w) ==
    /\ pc[w] = "header"
    /\ stream' = Append(Append(stream, PieceOf(msg[w], 1)), PieceOf(msg[w], 2))
    /\ pc' = [pc EXCEPT ![w] = IF todo[w] = 0 THEN "flush" ELSE "payload"]
    /\ UNCHANGED <<msg, todo, lock, calls, acked, accepted, werr,
                   readerVars, netVars>>

\* The buffer is empty here, so the header always fits; a message without
\* payload goes straight to Flush.
WriteHeader(w) ==
    /\ pc[w] = "header"
    /\ ~werr
    /\ stream' = Append(Append(stream, PieceOf(msg[w], 1)), PieceOf(msg[w], 2))
    /\ pc' = [pc EXCEPT ![w] = IF todo[w] = 0 THEN "flush" ELSE "payload"]
    /\ UNCHANGED <<msg, todo, lock, calls, acked, accepted, werr,
                   readerVars, netVars>>

\* bufio copies what fits; a full buffer is drained before more is copied.
WritePayload(w) ==
    /\ pc[w] = "payload"
    /\ IF Buffered < BufSize
       THEN /\ stream' = Append(stream,
                           PieceOf(msg[w], FrameLen(msg[w]) + 1 - todo[w]))
            /\ todo' = [todo EXCEPT ![w] = @ - 1]
            /\ pc' = [pc EXCEPT ![w] = IF todo[w] = 1 THEN "flush" ELSE "payload"]
       ELSE /\ pc' = [pc EXCEPT ![w] = "drain"]
            /\ UNCHANGED <<stream, todo>>
    /\ UNCHANGED <<msg, lock, calls, acked, accepted, werr, readerVars, netVars>>

\* The transport takes one more piece of the writer's blocked Write.
Transmit(w) ==
    /\ pc[w] \in {"drain", "flush"}
    /\ Buffered > 0
    /\ ~sendDown
    /\ accepted - read < Window
    /\ accepted' = accepted + 1
    /\ UNCHANGED <<callVars, stream, werr, readerVars, netVars>>

\* Mutant: the error of the final Flush is dropped and nil returned.
WriteFailsSilently(w) ==
    /\ pc[w] \in {"drain", "flush"}
    /\ Buffered > 0
    /\ sendDown
    /\ werr' = TRUE
    /\ acked' = IF pc[w] = "flush" THEN Append(acked, msg[w]) ELSE acked
    /\ Return(w)
    /\ UNCHANGED <<stream, accepted, readerVars, netVars>>

\* The blocked Write fails part-way: the error sticks and the call returns it.  A
\* Write of quic-go that has handed over its last byte returns nil, so no error
\* comes once nothing is buffered.
WriteFails(w) ==
    /\ pc[w] \in {"drain", "flush"}
    /\ Buffered > 0
    /\ sendDown
    /\ werr' = TRUE
    /\ Return(w)
    /\ UNCHANGED <<acked, stream, accepted, readerVars, netVars>>

Drained(w) ==
    /\ pc[w] = "drain"
    /\ Buffered = 0
    /\ pc' = [pc EXCEPT ![w] = "payload"]
    /\ UNCHANGED <<msg, todo, lock, calls, acked, stream, accepted, werr,
                   readerVars, netVars>>

\* Mutant: the call returns without Flush.
FlushedWithoutFlush(w) ==
    /\ pc[w] = "flush"
    /\ acked' = Append(acked, msg[w])
    /\ Return(w)
    /\ UNCHANGED <<stream, accepted, werr, readerVars, netVars>>

Flushed(w) ==
    /\ pc[w] = "flush"
    /\ Buffered = 0
    /\ acked' = Append(acked, msg[w])
    /\ Return(w)
    /\ UNCHANGED <<stream, accepted, werr, readerVars, netVars>>

Progress(w) ==
    \/ Encode(w) \/ HeaderFails(w) \/ WriteHeader(w) \/ WritePayload(w)
    \/ Transmit(w) \/ WriteFails(w) \/ Drained(w) \/ Flushed(w)

-----------------------------------------------------------------------------
(* ReadControlMessage *)

\* Mutant: the type switch comes before the payload is read, so the payload of
\* an unsupported message stays on the stream.
LengthInSupported(u) ==
    IF u.part = 2 /\ Kind[u.msg] # "unsupported" THEN Size[u.msg] ELSE 0

\* What the reader takes for a length: the second piece of a frame holds one.
LengthIn(u) == IF u.part = 2 THEN Size[u.msg] ELSE 0

Consumed == read - start

WholeMessage ==
    /\ Consumed >= 2
    /\ Consumed = 2 + LengthIn(stream[start + 2])

AnswerOf == [setup       |-> "message",
             unsupported |-> "PROTOCOL_VIOLATION",
             malformed   |-> "decode error",
             missized    |-> "PROTOCOL_VIOLATION",
             unencodable |-> "never sent"]

Verdicts == {"message", "PROTOCOL_VIOLATION", "decode error", "never sent", "garbled"}

Answer == [m \in Messages |-> <<AnswerOf[Kind[m]], m>>]

\* The type switch, Decode and the check of the decoded length; pieces that
\* are not one frame make a message nobody sent.
Decide(pieces) ==
    IF pieces = Frame(pieces[1].msg)
    THEN Answer[pieces[1].msg]
    ELSE <<"garbled", pieces[1].msg>>

ReadCall ==
    /\ rpc = "idle"
    /\ rpc' = "reading"
    /\ start' = read
    /\ UNCHANGED <<read, got, senderVars, netVars>>

\* Mutant: the reader goes on past what has arrived.
ReadPieceEarly ==
    /\ rpc = "reading"
    /\ ~WholeMessage
    /\ read' = read + 1
    /\ UNCHANGED <<rpc, start, got, senderVars, netVars>>

ReadPiece ==
    /\ rpc = "reading"
    /\ ~WholeMessage
    /\ read < accepted
    /\ read' = read + 1
    /\ UNCHANGED <<rpc, start, got, senderVars, netVars>>

ReadReturns ==
    /\ rpc = "reading"
    /\ WholeMessage
    /\ got' = Append(got, Decide(SubSeq(stream, start + 1, read)))
    /\ rpc' = "idle"
    /\ UNCHANGED <<read, start, senderVars, netVars>>

\* Mutant: a failed read is tried again instead of returned.
ReadFailsAgain ==
    /\ rpc = "reading"
    /\ ~WholeMessage
    /\ recvDown
    /\ UNCHANGED vars

\* Any of the three reads fails; the stream gives nothing more.
ReadFails ==
    /\ rpc = "reading"
    /\ ~WholeMessage
    /\ recvDown
    /\ rpc' = "failed"
    /\ UNCHANGED <<read, start, got, senderVars, netVars>>

Reader == ReadPiece \/ ReadReturns \/ ReadFails

-----------------------------------------------------------------------------
(* The transport, from what quic.Stream promises: a direction breaks at     *)
(* either end, and the other end learns of it.                              *)

SendStops ==
    /\ ~sendDown
    /\ sendDown' = TRUE
    /\ UNCHANGED <<recvDown, senderVars, readerVars>>

SendRecovers ==
    /\ Transient
    /\ sendDown
    /\ ~recvDown
    /\ sendDown' = FALSE
    /\ UNCHANGED <<recvDown, senderVars, readerVars>>

RecvStops ==
    /\ ~recvDown
    /\ recvDown' = TRUE
    /\ UNCHANGED <<sendDown, senderVars, readerVars>>

SenderLearns ==
    /\ recvDown
    /\ ~sendDown
    /\ sendDown' = TRUE
    /\ UNCHANGED <<recvDown, senderVars, readerVars>>

-----------------------------------------------------------------------------
Next ==
    \/ \E w \in Writers : \/ \E m \in Messages : Call(w, m)
                          \/ Lock(w)
                          \/ Progress(w)
    \/ ReadCall \/ Reader
    \/ SendStops \/ SendRecovers \/ RecvStops \/ SenderLearns

\* A call that has begun goes on: sync.Mutex starves nobody, the transport
\* moves what it may move and tells the sender of a lost receiver.  Nobody
\* owes a call, so Call and ReadCall are not fair; nor is a failure.
Fairness ==
    /\ \A w \in Writers : SF_vars(Lock(w)) /\ WF_vars(Progress(w))
    /\ WF_vars(Reader)
    /\ WF_vars(SenderLearns)

Spec == Init /\ [][Next]_vars /\ Fairness

-----------------------------------------------------------------------------
(* Properties *)

TypeOK ==
    /\ pc \in [Writers -> {"idle", "lock", "encode", "header", "payload",
                           "drain", "flush"}]
    /\ msg \in [Writers -> Messages]
    /\ todo \in [Writers -> Nat]
    /\ lock \in Writers \cup {NoWriter}
    /\ calls \in Nat
    /\ acked \in Seq(Messages)
    /\ stream \in Seq(Piece)
    /\ accepted \in Nat
    /\ werr \in BOOLEAN
    /\ sendDown \in BOOLEAN
    /\ recvDown \in BOOLEAN
    /\ rpc \in {"idle", "reading", "failed"}
    /\ read \in Nat
    /\ start \in Nat
    /\ got \in Seq(Verdicts \X Messages)
    /\ start <= read /\ read <= accepted /\ accepted <= Len(stream)

\* The piece that may follow u: the next of its frame, or the first of any
\* frame when u was the last of its own.
Continues(u, v) ==
    IF u.part = FrameLen(u.msg)
    THEN v.part = 1
    ELSE v = PieceOf(u.msg, u.part + 1)

Seam(s, i) == IF i = 1 THEN s[i].part = 1 ELSE Continues(s[i - 1], s[i])

\* Whatever the interleaving of the writers, whichever of their calls fail and
\* wherever the transport stops, the bytes on the stream are whole frames one
\* after the other and at most a prefix of one more ("safe for concurrent use",
\* control_message.go:151).
FramesIntact == \A i \in 1..accepted : Seam(stream, i)

\* The messages whole on the wire, and the one a call has put there whole
\* without having returned yet.
FrameEnds == {i \in 1..accepted : stream[i].part = FrameLen(stream[i].msg)}
OnWire == LET ends == InOrder(FrameEnds)
          IN  [k \in DOMAIN ends |-> stream[ends[k]].msg]

InFlight == \E w \in Writers : pc[w] = "flush" /\ Buffered = 0
Carried == IF InFlight THEN Append(acked, msg[lock]) ELSE acked

\* WriteControlMessage returns nil exactly for the messages that reached the
\* stream whole, in the order they are there: no nil for a message that was cut or
\* still lies in the buffer (control_message.go:183-187).  That no error is returned
\* for a message that went out whole rests on the transport, whose Write does not
\* fail after its last byte.
NilMeansSent == OnWire = Carried

\* Once a Write has failed in the middle of a frame no byte follows it, even on
\* a transport that would take more: the torn frame stays the last thing sent.
TornIsLast == [][werr => accepted' = accepted]_vars

\* While nobody holds the lock nothing waits in the bufio.Writer, unless it is
\* broken: a call never leaves bytes that a later call would send as its own.
\* (That the lock is given back at all is WriteReturns.)
NothingLeftBehind == lock = NoWriter /\ ~werr => Buffered = 0

(* The inductive invariant behind the two: who holds the lock, where the    *)
(* holder is in its frame, and that nobody left a frame unfinished.         *)

InFrame(w) == pc[w] \in {"payload", "drain", "flush"}
Holding(w) == pc[w] \in {"encode", "header"} \/ InFrame(w)

LockHeld == \A w \in Writers : Holding(w) <=> lock = w

PlaceInFrame(w) ==
    /\ pc[w] \in {"lock", "encode", "header"} => todo[w] = Size[msg[w]]
    /\ InFrame(w) =>
        /\ ~werr
        /\ stream # <<>>
        /\ todo[w] <= Size[msg[w]]
        /\ todo[w] = 0 <=> pc[w] = "flush"
        /\ stream[Len(stream)] = PieceOf(msg[w], FrameLen(msg[w]) - todo[w])

Settled ==
    (\A w \in Writers : ~InFrame(w)) /\ ~werr =>
        /\ accepted = Len(stream)
        /\ stream # <<>> =>
            stream[Len(stream)].part = FrameLen(stream[Len(stream)].msg)

Seamless == \A i \in 1..Len(stream) : Seam(stream, i)

IInv ==
    /\ TypeOK /\ LockHeld /\ Settled /\ Seamless
    /\ \A w \in Writers : PlaceInFrame(w)

\* The stream implements the abstract channel: the reader is answered once for
\* each message, in order, and nothing is sent after the direction closed.
Channel == INSTANCE MessageChannel WITH
    sent <- Carried, got <- got, open <- ~werr

ChannelSpec == Channel!Spec

\* A call of WriteControlMessage returns, or the peer has stopped reading with
\* the window full: there is no other way to be stuck under the lock.
WriteReturns ==
    \A w \in Writers :
        pc[w] # "idle" ~> \/ pc[w] = "idle"
                          \/ [](rpc = "idle" /\ accepted - read = Window)

\* A call of ReadControlMessage returns, or it waits for ever for bytes that do
\* not come: unsupported, malformed and missized messages do not wedge it.
ReadCompletes ==
    rpc = "reading" ~> \/ rpc # "reading"
                       \/ [](read = accepted /\ ~recvDown)
=============================================================================
