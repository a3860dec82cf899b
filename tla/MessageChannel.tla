--------------------------- MODULE MessageChannel ---------------------------
(***************************************************************************)
(* What one direction of a MOQT control stream promises the code above it: *)
(* whole messages, in the order they were sent, each answered exactly once *)
(* to the reader, until the direction closes.  No frames, no buffer, no    *)
(* lock: those are ControlStream, which is shown to implement this.        *)
(***************************************************************************)
EXTENDS Naturals, Sequences

CONSTANTS
    Messages,   \* the control messages that may be sent
    Answer      \* what ReadControlMessage returns for each of them

VARIABLES
    sent,       \* the messages the direction carries, oldest first
    got,        \* what the reader's calls have returned, oldest first
    open        \* whether the direction still takes messages

vars == <<sent, got, open>>

Init == sent = <<>> /\ got = <<>> /\ open = TRUE

Send(m) ==
    /\ open
    /\ sent' = Append(sent, m)
    /\ UNCHANGED <<got, open>>

Receive ==
    /\ Len(got) < Len(sent)
    /\ got' = Append(got, Answer[sent[Len(got) + 1]])
    /\ UNCHANGED <<sent, open>>

Close ==
    /\ open' = FALSE
    /\ UNCHANGED <<sent, got>>

Next == Receive \/ Close \/ \E m \in Messages : Send(m)

Spec == Init /\ [][Next]_vars
=============================================================================
