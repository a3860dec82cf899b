# TLA+ models of go-moqt

go-moqt is the beginning of a Media-over-QUIC transport (draft 15): a client and
a server that set up a session over a QUIC connection, the framing of control
messages on the session's control stream, and the wire format of object
datagrams. This directory models those parts, and the service of one server and
several clients they make up, checks them with TLC and proves the main safety
properties with TLAPS. File names below are relative to the
repository; `PROJECT.json` gives, for each definition, the lines it models.

## 1. Inventory

| Component | State | Operations | Interacts with |
|---|---|---|---|
| `ControlMessageFactory` (`pkg/session/control/control_message.go`) | bufio reader and writer, `writeLock` | `WriteControlMessage` (any goroutine), `ReadControlMessage` (one reader) | both `performHandshake`, the stream |
| Client setup (`client.go`) | the `Session` it builds | `InitiateSession`, `performHandshake` | server over the control stream; its caller, which may retry or exit |
| Server setup (`server.go`) | the `Session` it builds | `InitateSession`, `performHandshake` | client; the handler goroutine, which closes on an error |
| `SessionState` (`pkg/session/session.go`) | limits, path, authority, peer values | `NewSessionState`, `FromParams` | both setups |
| Accept loop (`server.go`) | listener queue, the connection in hand, `connCh` | `Run`, the caller's loop | handlers; context owner |
| Object datagram (`pkg/message/object_datagram.go`) | the datagram and its type | six options, `NewObjectDatagram`, `ToUInt64`, `NewObjectDatagramType` | encoder, decoder |
| Wire codec (`pkg/message/wire_*.go`) | none | encode and decode of locations, pairs, extensions, datagrams | setup messages, datagrams |
| Track names (`pkg/model/track.go`) | none | `StringToMoqtFullTrackName`, `ToString`, `GetLength`, `IsValid` | callers outside the repository |
| Locations (`pkg/model/location.go`) | none | `LessThan`, `Equal`, `GreaterThan` | callers outside the repository |
| Objects, pairs, reason phrases (`pkg/model`) | none | constructors with their rules | datagrams, setup messages, errors |
| Transport adapters (`pkg/transport`) | none | forward to quic-go | all of the above |
| `Client.Connect` (`client.go`) | none | dial: a connection, an error, or neither | `InitiateSession`, the server's queue |
| Examples, `Must` | the handler goroutines | react to errors, start handlers, panic | all of the above |

What is hard, by component (the full list, each at its line, is under `hazards`
in `PROJECT.json`):

* *Control stream*: several writers share one buffered writer, whose automatic
  flushes put part of a frame on the wire; a write can fail with a frame half
  sent; every early return happens under the lock; the reader must stay aligned
  with the frames even after a message it refuses.
* *Setup*: two processes, timeouts that race the answer, a second attempt on a
  connection whose single stream is spent, a panic of the encoder half-way,
  connections lost at any point; limits that are set on one end and used on the
  other, through lists in which a parameter may be missing or repeated.
* *Accept loop*: cancellation and a closed listener against a blocked hand-over.
* *Service*: a client that stalls its own setup against everybody else's; a
  server whose `Run` has returned, with a listener still open; a process that
  dies between any two steps; a connection refused after `Connect` returned it.
* *Datagrams*: options in any order against a bit mask with inverted bits and
  forbidden combinations; a decoder whose every field moves a shared cursor;
  rules for objects that the datagram does not repeat.
* *Track names*: limits that are looked at field by field; slashes that are both
  separator and content.

## 2. Modules

| Module | What it is |
|---|---|
| `MessageChannel` | abstract: whole messages in order, each answered once, until the direction closes |
| `ControlStream` | one direction of a control stream, in detail; implements `MessageChannel` |
| `SetupContract` | abstract: the sessions of two ends are mirror images, the server's first, and stay |
| `Handshake` | both setups over one connection; implements `SetupContract` |
| `AcceptLoop` | `Server.Run` and its caller's loop |
| `Service` | a server and its clients: `Connect`, the accept loop, a handler and a reduced setup for each connection |
| `ObjectDatagram` | construction, encoding and decoding of one datagram |
| `TrackNames` | rendering and parsing of full track names |
| `Locations` | the order of locations |
| `Positions` | the elements of a set of positions in increasing order |
| `DataLemmas` | lemmas on natural numbers, on sequences and on their concatenation |
| `...Proofs` | the theorems about the module of that name; `ChannelProofs` those on `ControlStream` and `MessageChannel`, `TrackProofs` those on `TrackNames` and `Locations` |
| `MC...` | values for TLC |

The modules compose by levels. `Handshake` sends whole messages, which is what
`ControlStream` implementing `MessageChannel` justifies for safety; that a write
may last for ever is said again in `Handshake`, by its fairness. `Service` is
`AcceptLoop` by INSTANCE over its own variables, with `Handshake` reduced to what
matters between connections: one attempt, parameters that can be encoded, and a
client of another implementation that can only stall or be refused. The reduction
is not shown as a refinement; what it has to keep, that a client with a session
has a handler with one, is an invariant of both (`ClientImpliesServer`, `InStep`).

### ControlStream

A message is a type, a length and `Size[m]` pieces of payload. Everything ever
put in the bufio.Writer is the sequence `stream`; the cursors `accepted` (taken
by the transport) and `read` (consumed by the reader) cut it into what is
buffered, on the way and read. The steps of `WriteControlMessage` are `Lock`,
`Encode`, `WriteHeader`, `WritePayload` with its drains, and the final flush;
`Return` is the deferred unlock, part of every step that leaves the function.
`werr` is the sticky error of bufio. A write fails while something of it is still
buffered: the Write of a quic-go stream returns nil once it has handed over its
last byte, whatever becomes of that byte. `ReadControlMessage` is `ReadCall`, one
`ReadPiece` for each piece and `ReadReturns`, whose verdict depends on what the
pieces are; pieces that are not one frame give "garbled". What the reader takes
for a length depends on which piece it happens to read there, so a misaligned
reader stays misaligned in the model as in the code. Read-ahead of bufio.Reader
is not visible to a caller and only enlarges `Window`. `Transient` lets a
transport that failed a write take a later one: wider than QUIC, but the factory
takes any `io.ReadWriter`.

The model has one reader: `ReadControlMessage` takes no lock, and nothing in
the repository calls it from two goroutines.

### Handshake

`other` says which end, if any, is another implementation; it may send any
setup or refused message, or part of a frame, or nothing. The steps of the
client are opening the stream (with the session built, the parameters checked
and applied, and all of that one step, since nobody else sees it), the write and
the read; those of the server mirror them. A write has two steps: the transport
takes the message, and `WriteReturns` some time later. In between (`pc` is "sent")
the peer may read the message and answer it, so a client can have its session
while the server is still in the write that gave it to it (`HasSession`). `TransportFails`, `OpenTimeout`,
`AcceptTimeout` and `EncoderPanics` are the ways out. The server's handler and
the client's exit follow the two example programs, the only callers there are;
`ClientRetry` is a caller that tries again on the same connection, which the
comment at `client.go:170` expects. Byte strings are numbers, 0 the empty one.

A second stream is not granted (`MaxIncomingStreams: 1`, and no code closes the
control stream, so the credit never returns). The comment at `client.go:170`
expects a session termination error then; what the caller sees is the timeout.

### AcceptLoop

`backlog` is the listener's queue, `held` the connection between Accept and the
select, `connCh` the channel. `AcceptFails` changes nothing: the loop goes round.

### Service

`client[c]` is where the client is in `Connect` and `InitiateSession`, called one
after the other as the example does; `handler[c]` is the goroutine the caller's
loop starts for its connection. `Connect` dials into the listener's queue if it
has room; if it has none the dial still succeeds and the library closes the
connection (`ConnectRefused`). For https `Connect` returns neither a connection
nor an error (`ConnectNothing`), and `InitiateSession` then panics on it. `sent[c]`
says whether what the client put on its stream is a whole CLIENT_SETUP, part of
one, or a message that is refused; only `Foreign` clients send the last two.
`replied[c]` says that SERVER_SETUP was put on the stream for it, which is what the
client reads.
`over[c]` is the set of ends for which the connection is over: it goes from one
end to the other by `Learns`. `ServerDies` is the end of the process, killed or by
a panic of one goroutine (the encoder's, over the server's own parameters), and
of every handler in it, which is "dead" then. The panic of the example when `Run`
returns an error is not one of these: its context is never cancelled, and the
other errors of `Run` come before there is a connection.

`Answer` reads CLIENT_SETUP and puts SERVER_SETUP on the stream in one step, and
`AnswerReturns` is the rest of the handler. `Handshake` separates the read from
the write and lets the write fail or block after the server's state was filled: a
server whose write fails has no session, and its client cannot tell the
difference from a server that never read; the example's answer is a few bytes,
which quic-go takes at once. It supposes that connCh is buffered, as in the
example. A server may be left with a session whose client gave up: the code has
no third message.

### ObjectDatagram

One action for each option, `Build` for the rules at the end of
`NewObjectDatagram`, `Encode`, and one action for each field the decoder reads.
The wire is bytes, and `Encode` hands the decoder any prefix of it. A varint has
one, two or four bytes here. `DecodeMoqtLocation` is `DecodeGroup` and `DecodeObject`;
`DecodeExtensions` is `DecodeCount` and the actions on pairs, which are also the
payload of both setup messages. `Extensions` are built by `NewMoqtKeyValuePair`, an
assumption that TLC evaluates. Beside `Encode` there is `EncodeInTwo`, the header
of `EncodeObjectDatagramHeader` with the payload sent after it, and the decoder
must read both.
`NewMoqtObjectAccepts` is the rule of `NewMoqtObject`, which the run
`status_with_extensions` holds against what the decoder returns.

### TrackNames

A string is a sequence of bytes of which only the slash matters. `Begin` is the
split and the check on the number of fields, `TakeField` one turn of the loop, with
the check of the running total after each field and nowhere else. `Render` is
`ToString` (its operator is `Rendering`, since module TLC takes the name). The
names rendered are any a caller can build, also ones `IsValid` refuses: `ToString`
does not look.

### Locations

The three comparisons, as operators; they have no state, so there is nothing to
run, and two theorems in `TrackProofs` are about all locations.

## 3. Runs

All runs check deadlock off: a finished call, a full bound or a lost connection
legitimately stops each system.

| Run | Instance | Shows |
|---|---|---|
| `control_stream` | 2 writers, one message of each of 5 kinds, payloads of 0 to 3 pieces, a buffer of 3, a window of 2, 2 calls | frames stay whole, nil means sent, torn frames stay last, nothing is left in the buffer, the abstract channel is implemented, calls return except for a peer that stops |
| `handshake` | 6 lists of parameters, 2 attempts, QUIC and WebTransport, either end foreign | limits, mirror images, agreement on who holds a session, no false accusation, no session from a retry, calls return |
| `accept_loop` | 4 connections, channel of 2 | no connection doubled or overtaken, none lost while `Run` runs; each served |
| `service` | 1 client of this code, 1 that may stall, channel of 1, queue of 1 | handlers and sessions keep step, a talking client is served despite the other, clients learn how their setup ended, handlers end |
| `object_datagram` | up to 6 options from 12, every prefix of the encoding | type IDs tell the truth, round trip, cuts are never misread |
| `track_names` | every string of up to 6 bytes, 2800 names with fields of up to 2 | the limits are exact, and which names survive `ToString` and back |
| six `violation` runs | the same instances | the disagreements of section 6 |

Why the bounds are enough:

* `control_stream`: the frame of the largest message (5 pieces) exceeds the
  buffer, so it is flushed in the middle; the window is smaller than any buffer
  full, so the sender blocks with part of a buffer sent; one message has no
  payload, which skips the payload write; two calls in all, of one writer
  or of both, give every overlap of a call with another and a call after one that
  failed part-way; the safety theorems of section 4 hold for any number of calls. `BufSize >= 2` is an assumption: a
  real header takes at most 16 of bufio's 4096 bytes and always fits.
* `handshake`: `MaxAttempts` 2 reaches the retry; the offers include no
  parameter, a repeated one, one above the varint limit (here 4000 in place of
  2^62-1), and those forbidden to a server or on WebTransport.
* `accept_loop`: 4 connections are 2 in the channel, 1 in hand and 1 waiting, so
  the loop blocks.
* `service`: the two clients compete for one place in each queue, which makes the
  loop block, refuses a dial and leaves a connection in hand; more connections
  than places are what `accept_loop` has. Each client is one connection, as
  `Connect` makes one. Liveness is why the instance is this small: 68 000 states.
* `track_names`: limits of 1 to 2 fields and 3 bytes in place of 1 to 32 and 4096;
  strings go to twice the limit of bytes and past that of slashes, so each limit
  is met, passed by one and passed by more, alone and together, by a name alone,
  and by fields. Two letters tell a swap of fields from a copy.
* `object_datagram`: every option once, or one twice; numbers of one, two and
  four bytes; pairs of both kinds with empty and non-empty values; empty lists and
  payloads. `MaxValueLength` is 2 instead of 65535, reached by one value.

### Fairness

* `ControlStream`: a call under way goes on (weak fairness of `Progress` and
  `Reader`); `Lock` is strongly fair because sync.Mutex in its starvation mode
  hands itself to a waiter. Nobody owes a call, and no failure is fair, except
  that a lost receiver is reported to the sender, as QUIC does.
* `Handshake`: the code of a call runs (`ClientDue`, `ServerDue`), timers fire (`OpenTimeout`,
  `AcceptTimeout` are enabled from the start of the wait, a wider choice than
  the clock makes), a lost connection is noticed at the other end. A connection
  on which nothing happens idles out, because neither configuration sets
  `KeepAlivePeriod`; if the other end is another implementation it may keep the
  connection alive (`keepAlive`), and then a read can wait for ever. A write is
  sure to be taken only by an end of this code, whose transport grants more room
  than the setup messages of these two programs need before anyone reads; another
  implementation owes no window. That is why `CallsReturn` has its exception:
  neither the reads nor the writes of the handshake have a deadline
  (`client.go:115`, `server.go:175`).
* `AcceptLoop`: both goroutines go on; a select with two ready cases picks
  at random, so strong fairness of `HandOver`. `HandedOverIsServed` assumes a
  caller that keeps ranging over connCh after `Run` returned; the example's own
  goroutine panics on an error of `Run` instead, which ends the process.
* `Service`: the loop as above; handlers run on, and the wait for a stream times
  out. A connection between two ends of this code idles out if nothing happens on
  it, in a queue too, for the reason given under `Handshake`; a foreign client may
  keep its own alive, and then only the end of the process ends a handler that
  has part of a message, which `HandlersEnd` excepts. A client that is connected
  goes on to `InitiateSession`, as the example does; nobody owes a `Connect`.
* `ObjectDatagram` and `TrackNames` have no liveness: their calls are loops over
  finite lists.

## 4. Proofs

For every value of the constants that meets the named assumptions:

| Module | Theorems |
|---|---|
| `ControlStreamProofs` | `TypeCorrect`, `Invariance`, `Framing`, `CleanHandover`, `Torn` |
| `ChannelProofs` | `ImplementsChannel`, `NilIsTruthful` |
| `HandshakeProofs` | `TypeCorrect`, `HInvariance`, `ClientNeverAlone`, `NoneAccused`, `OneAttemptOnly`, `Pathless`, `Licensed`, `ImplementsContract` |
| `AcceptLoopProofs` | `TypeCorrect`, `NoneLost` |
| `ServiceProofs` | `TypeCorrect`, `SessionsInStep` |
| `ObjectDatagramProofs` | `TypeCorrect`, `TypeIsTruthful`, `RoundTripping`, `NeverMisread` |
| `TrackProofs` | `TypeCorrect`, `LimitsKept`, `RoundTripping`; `Trichotomy`, `Transitivity` |

*ControlStream.* `FramesIntact` speaks of what the transport took; to prove it
one must know the whole of `stream` (`Seamless`), who may append to it
(`LockHeld`), where the holder is in its frame (`PlaceInFrame`), and that with
nobody in a frame and no error everything ends at a frame's end (`Settled`).
`IInv` is their conjunction with `TypeOK`. A torn frame is what `Settled`
excepts by `werr`; that the error sticks is what makes `Torn` hold.

*MessageChannel.* That the stream is seamless does not say which messages it
holds. `CInv` does: there is a function `at` with `at[k]` the end of the frame of
the k-th message of `Carried`, each frame lies between two of these ends
(`Layout`), what follows the last is the beginning of one frame that is not whole
on the wire (`Ragged`) and belongs to the call that is in its frame (`Owner`). The
reader's calls begin at `at[Len(got)]` (`Place`). A transmitted piece either leaves
`Carried` as it is or is the last of a frame, and then `at` grows by one place and
the channel takes `Send`; for the reader, a message that looks whole behind the
last end would announce more bytes than there are (`WholeIsFrame`), so a call that
returns has read exactly the next frame, and the channel takes `Receive`.

`NilIsTruthful` says the same of what the runs evaluate, `OnWire`, which lists the
frame ends of the stream in order (`Positions`). By `Layout` and `Ragged` the
places where a frame ends are `at[1]` to `at[N]` and no other, and a function that
grows and hits exactly the members of a set is the list of the set (`Listing`).

*Handshake.* Between two ends of this code, `Stages` says that the one stream is
used in one direction and then in the other: before a stream there is nothing
anywhere, a second attempt never gets past opening, and the client is
established only when the server's answer is with the transport. The abstract
server has its view from then on (`HasSession`), not from the return of its call,
which may come after the client's. `InTransit` says that what travels was
offered by its sender's call, `Filled` what each session has been filled with at
each stage, `Given` that parameters were checked before they are written. From
these, with the lemmas on `LastValue` (for which `DataLemmas` shows that the
greatest position exists), follow the agreement of limits (`Licensed`) and the
step simulation of `SetupContract` (`ImplementsContract`).

*AcceptLoop.* The invariant is `InLine` with what `held` is at each stage; the
proof is mostly how concatenation regroups when an element moves on. The
connection that a cancelled `Run` returned with still counts as held, though nobody
has it any more; that it is dropped is what the code does, and no property says
otherwise.

*Service.* `AcceptLoopProofs` is taken by INSTANCE: every step of `Service` is a step
of the loop or leaves it alone (`LoopStep`), so its invariant holds here. What is
added is `InStep`: a connection occurs in the line once, so a handler is started
once. `StartHandler` takes the head of the channel, which by the positions in the
line is not among those started (`HeadIsNew`). That a client with a session has a
handler with it rests on `Answered`: an answer on the stream comes from a handler
that has gone past every error return (`AnswersStep`), and only the end of the
process takes it away.

*ObjectDatagram.* While options are applied the type tells of each optional
field whether it has been set, but for the status bit, which `WithPayload`
clears whatever was set before; the rules of `Build` close that gap. `Bits` is the
lemma that `NewObjectDatagramType` inverts `ToUInt64`.

That the decoder inverts the encoder needs `RInv`. The encoding is written from each
field on (`FromType`, `FromAlias`, ..., `Closing`), each of them one field and the
next of them. `Place` says, stage by stage, that what the decoder holds is a front
of the encoding from that field on, cut where the wire was (`At`), and that `out` is
the object's first fields (`Known`), in the list of pairs its first `k` pairs
(`PairInv`). A step reads one varint (`VarintRead`) or a counted run of bytes
(`BytesRead`): if the cut is behind it, it comes out as it was written and the cursor
is at the next field (`Moves`); if not, the step is refused, and `Rejected` keeps the
reason, that something was missing. `Forms` is why a varint can be read at all: the
first byte of each of the three forms tells its length. `RoundTripping` is the case
with no cut, `NeverMisread` the one where the cut is in the payload, the only field
that is read to the end of what is there.

*TrackNames.* `Cuts` gives a string the positions of its slashes as a function `e`,
with an end on either side, and `Splitting` shows that the parts between them are
what `Split` returns and hold no slash (`Parts`). `TInv` is, inside the loop, that
`j` fields have been read and `ftnLen` is the bytes of those and of the name
(`Progress`): since the parts lie end to end, that total is `e[j]` less `j` slashes
with the name added, and after the last field `Len(str)` less all of them, which is
`LimitsKept`. The total only grows, so a refusal in the middle is one of the whole.
`ReadBack`, from the last field down, shows that the fields written back are the
string from `e[j]` on. For a name that was rendered first, `WrittenAlike` shows that
two names with no slash in a field and the same rendering are the same name: the
first slash ends the first field of both (`FirstField`), and so on.

*Sequences.* What folds and recursive functions compute is not left to the
library's induction theorems, which take an operator. `DataLemmas` does induction
with sets: a set of naturals that is not empty has a least element, from the
library's fact that `<` is well-founded (`LeastNatural`), so a set that holds 0 and
with each number the next holds all up to n (`UpTo`, and `DownFrom` for the other
direction). That a recursive function exists at all is `Recursion`; with it
`Joining` and `FlattenFront` unroll the fold in `FlattenSeq` by one part, which is
the only thing the codec and the track names need of it.

Assumptions: those named in each module (for instance that the offers are lists
of parameters and `NoView` is no session). No fact is taken on trust.

Only model-checked: all liveness (`WriteReturns`, `ReadCompletes`, `CallsReturn`,
`EveryConnectionServed`, `HandedOverIsServed`, `ServedDespiteOthers`, `ClientsLearn`,
`HandlersEnd`), since TLAPS does not do fairness and ENABLED. Every invariant and
every action property of a passing run is stated by a theorem.

## 5. Mutants

Each property of a passing run has a mutant in `PROJECT.json`: a definition
changed as a plausible bug would change it (an unlock forgotten on an early
return, a flush left out, the first of repeated parameters taken, a full channel
skipped, a length not checked ...), under which TLC finds the property violated.
The mutated definitions stand next to the originals and are used nowhere else.

## 6. Where code and comments disagree

Each of these is a run that TLC finds violated, quoted in full in `findings`:

* `LimitsAgree`: the default limit of 1000 is set locally and announced to
  nobody. The numbers then differ in the harmless direction, which the theorem
  `Licensed` pins down: the user of a limit never holds more than its setter.
* `PathIsReceived`: a server's own Path parameter ends up in the field
  documented as received from the client.
* `ViolationClosesSession`: the code of a violation does not reach the close.
* `ReturnsWhenListenerCloses`: `Run` spins on a closed listener.
* `DecodedIsAnObject`: the decoder returns a datagram with a status that is not
  Normal and extensions beside it, which `object.go:32` forbids an object to have
  and `NewMoqtObject` refuses.
* `PrefixCountsBytes`: extensions are prefixed by a count, not a byte length.

Noticed and not given a run: `FromParams` stores Path and Authority on any
transport, although `session.go:31` says they must be ignored on WebTransport
(between two ends of this code `PathlessWebTransport` holds, by the sender's
check); `ReadControlMessage` and `DecodeExtensions` allocate from an announced
size before anything of that size has arrived; the object ID is always written,
although `object_datagram.go:27` lets a type omit it and `:75` has it encoded as 0
then; the parser of track names takes an empty name, which `IsValid` refuses, and `ToString`
escapes no slash; `Connect` returns nil twice for https.

## 7. Not modelled

Unidirectional streams, request IDs and their mutex, track aliases (no code uses
them); authorization tokens (marked TODO in the source); reason phrases (a length
and UTF-8 check on texts that are all literals of the source, or made from a
number); the dynamic type of the argument of `NewMoqtKeyValuePair`; the fields of
an object that its constructor copies; the forwarding methods of the transport
adapters, of which what quic-go promises is in the external actions; memory, and
varints of eight bytes. More than one reader of a control stream is not
modelled, because nothing has one.

## 8. Plan

Done: the abstract channel and contract, the control stream and its refinement,
the handshake, the accept loop, the service that composes them, the datagram, track names and locations, with the theorems of section 4.

Next, in this order:

1. Two control streams under one `Handshake`, so that the message-sized steps are
   replaced by the frames of `ControlStream` in a run.
2. Safety lemmas behind the liveness properties: that a call under way is never in a
   state from which no step of its own or of its peer leads on.
3. Varints of eight bytes, for which `Forms` has room.
4. Request IDs, with the concurrency their mutex is for, once the code uses them.
