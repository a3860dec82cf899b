------------------------------ MODULE AcceptLoop ------------------------------
(***************************************************************************)
(* Server.Run and the loop of its caller: connections leave the listener's *)
(* queue one at a time, are handed over through connCh, and each is given  *)
(* a handler goroutine.  What a handler does with its connection is the    *)
(* server side of Handshake.                                               *)
(***************************************************************************)
EXTENDS Naturals, Sequences, SequencesExt

CONSTANTS
    Conns,      \* connections that may be dialed
    ChanCap     \* capacity of connCh

ASSUME ChanCapAssumption == ChanCap \in Nat \ {0}

VARIABLES
    run,        \* where Server.Run is
    ctxDone,    \* its context has been cancelled
    listening,  \* the QUIC listener works
    dialed,     \* connections the listener has completed, oldest first
    backlog,    \* those not yet accepted
    held,       \* the accepted one Run has in hand, if any
    connCh,     \* those handed over and not yet received
    started     \* those whose handler was started, oldest first

vars == <<run, ctxDone, listening, dialed, backlog, held, connCh, started>>

Init ==
    /\ run = "start"
    /\ ctxDone = FALSE
    /\ listening = FALSE
    /\ dialed = <<>>
    /\ backlog = <<>>
    /\ held = <<>>
    /\ connCh = <<>>
    /\ started = <<>>

-----------------------------------------------------------------------------
(* Server.Run *)

Listen ==
    /\ run = "start"
    /\ run' = "accept"
    /\ listening' = TRUE
    /\ UNCHANGED <<ctxDone, dialed, backlog, held, connCh, started>>

\* A bad URI, another scheme, no certificate, no socket: Run ends at once.
ListenFails ==
    /\ run = "start"
    /\ run' = "refused"
    /\ UNCHANGED <<ctxDone, listening, dialed, backlog, held, connCh, started>>

\* Mutant: the loop accepts again before it has handed over.
AcceptAhead ==
    /\ run \in {"accept", "handoff"}
    /\ backlog # <<>>
    /\ held' = Append(held, Head(backlog))
    /\ backlog' = Tail(backlog)
    /\ run' = "handoff"
    /\ UNCHANGED <<ctxDone, listening, dialed, connCh, started>>

Accept ==
    /\ run = "accept"
    /\ backlog # <<>>
    /\ held' = <<Head(backlog)>>
    /\ backlog' = Tail(backlog)
    /\ run' = "handoff"
    /\ UNCHANGED <<ctxDone, listening, dialed, connCh, started>>

\* Any error of Accept is logged and the loop goes round: nothing changes.
AcceptFails ==
    /\ run = "accept"
    /\ ctxDone \/ ~listening
    /\ UNCHANGED vars

\* Mutant: a full channel makes the loop go on with the next connection.
HandOverOrSkip ==
    /\ run = "handoff"
    /\ connCh' = IF Len(connCh) < ChanCap THEN connCh \o held ELSE connCh
    /\ held' = <<>>
    /\ run' = "accept"
    /\ UNCHANGED <<ctxDone, listening, dialed, backlog, started>>

HandOver ==
    /\ run = "handoff"
    /\ Len(connCh) < ChanCap
    /\ connCh' = connCh \o held
    /\ held' = <<>>
    /\ run' = "accept"
    /\ UNCHANGED <<ctxDone, listening, dialed, backlog, started>>

\* The select takes ctx.Done: Run returns with the connection still in hand.
Cancelled ==
    /\ run = "handoff"
    /\ ctxDone
    /\ run' = "returned"
    /\ UNCHANGED <<ctxDone, listening, dialed, backlog, held, connCh, started>>

Loop == Listen \/ Accept \/ AcceptFails \/ HandOver \/ Cancelled

-----------------------------------------------------------------------------
(* The caller's loop over connCh *)

\* Mutant: one handler serves everything that is waiting.
StartHandlerForAll ==
    /\ connCh # <<>>
    /\ started' = Append(started, Last(connCh))
    /\ connCh' = <<>>
    /\ UNCHANGED <<run, ctxDone, listening, dialed, backlog, held>>

StartHandler ==
    /\ connCh # <<>>
    /\ started' = Append(started, Head(connCh))
    /\ connCh' = Tail(connCh)
    /\ UNCHANGED <<run, ctxDone, listening, dialed, backlog, held>>

-----------------------------------------------------------------------------
(* Outside: clients that dial, the context's owner, the socket *)

Dial(c) ==
    /\ listening
    /\ ~Contains(dialed, c)
    /\ dialed' = Append(dialed, c)
    /\ backlog' = Append(backlog, c)
    /\ UNCHANGED <<run, ctxDone, listening, held, connCh, started>>

Cancel ==
    /\ ~ctxDone
    /\ ctxDone' = TRUE
    /\ UNCHANGED <<run, listening, dialed, backlog, held, connCh, started>>

ListenerCloses ==
    /\ listening
    /\ listening' = FALSE
    /\ UNCHANGED <<run, ctxDone, dialed, backlog, held, connCh, started>>

Next ==
    \/ Loop \/ ListenFails
    \/ StartHandler
    \/ Cancel \/ ListenerCloses
    \/ \E c \in Conns : Dial(c)

\* Run's goroutine and its caller's go on when they can; a select whose two
\* cases stay ready does not pass over either for ever.
Fairness ==
    /\ WF_vars(Loop)
    /\ SF_vars(Accept) /\ SF_vars(HandOver)
    /\ WF_vars(StartHandler)

Spec == Init /\ [][Next]_vars /\ Fairness

-----------------------------------------------------------------------------
(* Properties *)

TypeOK ==
    /\ run \in {"start", "refused", "accept", "handoff", "returned"}
    /\ ctxDone \in BOOLEAN
    /\ listening \in BOOLEAN
    /\ {dialed, backlog, held, connCh, started} \subseteq Seq(Conns)
    /\ Len(held) <= 1 /\ Len(connCh) <= ChanCap

\* Every connection is in one place only and keeps its place in the line: its
\* handler, the channel, Run's hands or the listener, in the order of arrival.
\* None is handled twice or overtaken, whatever is cancelled or closed, and none
\* lost while Run runs; the one a cancelled Run returned with still counts as held,
\* though nobody has it any more.
InLine == dialed = started \o connCh \o held \o backlog

\* While the listener works and the context lives every connection gets its
\* handler: a full channel delays the loop and drops nothing.
EveryConnectionServed ==
    \A c \in Conns :
        Contains(dialed, c) ~> Contains(started, c) \/ ctxDone \/ ~listening

\* A connection that was handed over is served whatever becomes of Run.
HandedOverIsServed ==
    \A c \in Conns : Contains(connCh, c) ~> Contains(started, c)

\* "It blocks until the listener closes or a fatal error occurs" (server.go:28).
ReturnsWhenListenerCloses ==
    run = "accept" /\ ~listening ~> run = "returned"
=============================================================================
