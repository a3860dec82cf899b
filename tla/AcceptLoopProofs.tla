--------------------------- MODULE AcceptLoopProofs ---------------------------
(***************************************************************************)
(* Proofs about AcceptLoop, for any number of connections and any capacity *)
(* of the channel.                                                         *)
(***************************************************************************)
EXTENDS AcceptLoop, SequenceTheorems, TLAPS

\* Run has a connection in hand while it hands over and when it gives up.
Holding ==
    /\ run \in {"handoff", "returned"} <=> held # <<>>
    /\ run = "returned" => ctxDone

LInv == TypeOK /\ InLine /\ Holding

LEMMA Split ==
  ASSUME NEW s \in Seq(Conns), s # <<>>
  PROVE  /\ Head(s) \in Conns /\ Tail(s) \in Seq(Conns)
         /\ s = <<Head(s)>> \o Tail(s)
  OBVIOUS

LEMMA Appended ==
  ASSUME NEW s \in Seq(Conns), NEW c \in Conns
  PROVE  /\ <<c>> \in Seq(Conns) /\ Append(s, c) \in Seq(Conns)
         /\ Append(s, c) = s \o <<c>>
  <1>1. Append(s, c) = s \o <<c>>
    BY AppendIsConcat
  <1> QED
    BY <1>1

Regroups(a, b, c) == (a \o b) \o c = a \o (b \o c) /\ a \o b \in Seq(Conns)

LEMMA Regroup ==
  ASSUME NEW a \in Seq(Conns), NEW b \in Seq(Conns), NEW c \in Seq(Conns)
  PROVE  Regroups(a, b, c)
  <1>1. \A S : \A s, t, u \in Seq(S) : (s \o t) \o u = s \o (t \o u)
    BY ConcatAssociative
  <1>2. a \o b \in Seq(Conns)
    OBVIOUS
  <1> QED
    BY <1>1, <1>2 DEF Regroups

LEMMA LInit == Init => LInv
  <1> SUFFICES ASSUME Init PROVE LInv
    OBVIOUS
  <1>1. <<>> \in Seq(Conns) /\ <<>> \o <<>> \o <<>> \o <<>> = <<>>
    OBVIOUS
  <1>2. InLine
    BY <1>1 DEF Init, InLine
  <1>3. TypeOK
    <2>1. /\ dialed = <<>> /\ backlog = <<>> /\ held = <<>> /\ connCh = <<>>
          /\ started = <<>> /\ run = "start" /\ ctxDone = FALSE /\ listening = FALSE
      BY DEF Init
    <2>2. Len(<<>>) = 0 /\ 0 <= ChanCap /\ 0 <= 1
      BY ChanCapAssumption
    <2>3. {dialed, backlog, held, connCh, started} \subseteq Seq(Conns)
      BY <1>1, <2>1
    <2> QED
      BY <2>1, <2>2, <2>3 DEF TypeOK
  <1>4. Holding
    BY DEF Init, Holding
  <1> QED
    BY <1>2, <1>3, <1>4 DEF LInv

LEMMA LStep == LInv /\ [Next]_vars => LInv'
  <1> SUFFICES ASSUME LInv, [Next]_vars PROVE LInv'
    OBVIOUS
  <1> USE ChanCapAssumption
  <1>0. /\ dialed \in Seq(Conns) /\ backlog \in Seq(Conns) /\ held \in Seq(Conns)
        /\ connCh \in Seq(Conns) /\ started \in Seq(Conns)
        /\ Len(held) <= 1 /\ Len(connCh) <= ChanCap
        /\ dialed = started \o connCh \o held \o backlog
    BY DEF LInv, TypeOK, InLine
  <1>1. CASE UNCHANGED vars \/ Listen \/ ListenFails \/ AcceptFails \/ Cancelled
             \/ Cancel \/ ListenerCloses
    BY <1>1 DEF vars, Listen, ListenFails, AcceptFails, Cancelled, Cancel, ListenerCloses,
                LInv, TypeOK, InLine, Holding
  <1>2. CASE Accept
    <2>1. held = <<>> /\ held' = <<Head(backlog)>> /\ backlog' = Tail(backlog)
      BY <1>2 DEF Accept, LInv, Holding
    <2>2. /\ Head(backlog) \in Conns /\ Tail(backlog) \in Seq(Conns)
          /\ backlog = <<Head(backlog)>> \o Tail(backlog)
      BY <1>0, <1>2, Split DEF Accept
    <2>3. dialed = started \o connCh \o held' \o backlog'
      <3>1. PICK h, t, front : /\ h = <<Head(backlog)>> /\ t = Tail(backlog)
                               /\ front = started \o connCh
        OBVIOUS
      <3>2. front \in Seq(Conns) /\ h \in Seq(Conns) /\ t \in Seq(Conns)
        BY <1>0, <2>2, <3>1
      <3>3. Regroups(front, h, t)
        BY <3>2, Regroup
      <3>4. front \o <<>> = front
        BY <3>2
      <3>5. dialed = front \o held \o backlog /\ backlog = h \o t
        BY <1>0, <2>2, <3>1
      <3>6. dialed = front \o h \o t
        BY <2>1, <3>3, <3>4, <3>5 DEF Regroups
      <3> QED
        BY <2>1, <3>1, <3>6
    <2>5. TypeOK'
      BY <1>0, <1>2, <2>1, <2>2, <2>3 DEF Accept, LInv, TypeOK
    <2>6. InLine'
      BY <1>0, <1>2, <2>1, <2>2, <2>3 DEF Accept, InLine
    <2>7. Holding'
      BY <1>0, <1>2, <2>1, <2>2, <2>3 DEF Accept, LInv, Holding
    <2> QED
      BY <2>5, <2>6, <2>7 DEF LInv
  <1>3. CASE HandOver
    <2>1. /\ connCh' = connCh \o held /\ held' = <<>> /\ backlog' = backlog
          /\ started' = started /\ dialed' = dialed /\ Len(connCh) < ChanCap
      BY <1>3 DEF HandOver
    <2>2. connCh' \in Seq(Conns) /\ Len(connCh') = Len(connCh) + Len(held)
      BY <1>0, <2>1
    <2>3. dialed = started \o connCh' \o held' \o backlog
      <3>1. Regroups(started, connCh, held) /\ connCh \o held \in Seq(Conns)
        BY <1>0, <2>1, <2>2, Regroup
      <3>2. PICK next \in Seq(Conns) : next = connCh'
        BY <2>2
      <3>5. PICK front \in Seq(Conns) : front = started \o next
        <4>1. Regroups(started, next, held)
          BY <1>0, Regroup
        <4> QED
          BY <4>1 DEF Regroups
      <3>3. dialed = front \o backlog
        BY <1>0, <2>1, <3>1, <3>2, <3>5 DEF Regroups
      <3>4. front \o <<>> = front
        BY <3>5
      <3> QED
        BY <2>1, <3>2, <3>3, <3>4, <3>5
    <2>5. TypeOK'
      BY <1>0, <1>3, <2>1, <2>2, <2>3 DEF HandOver, LInv, TypeOK
    <2>6. InLine'
      BY <1>0, <1>3, <2>1, <2>2, <2>3 DEF HandOver, InLine
    <2>7. Holding'
      BY <1>0, <1>3, <2>1, <2>2, <2>3 DEF HandOver, LInv, Holding
    <2> QED
      BY <2>5, <2>6, <2>7 DEF LInv
  <1>4. CASE StartHandler
    <2>1. /\ started' = started \o <<Head(connCh)>> /\ connCh' = Tail(connCh)
          /\ connCh # <<>> /\ held' = held /\ backlog' = backlog /\ dialed' = dialed
      BY <1>0, <1>4, Split, Appended DEF StartHandler
    <2>2. /\ Head(connCh) \in Conns /\ Tail(connCh) \in Seq(Conns)
          /\ connCh = <<Head(connCh)>> \o Tail(connCh) /\ Len(Tail(connCh)) <= ChanCap
      BY <1>0, <2>1, Split
    <2>3. started' \in Seq(Conns)
      BY <1>0, <1>4, <2>2, Appended DEF StartHandler
    <2>4. dialed = started' \o connCh' \o held \o backlog
      <3>1. started \o connCh = started' \o connCh'
        <4> DEFINE h == Head(connCh)
                   t == Tail(connCh)
        <4>1. connCh = <<h>> \o t /\ started' = started \o <<h>> /\ connCh' = t
          BY <2>1, <2>2
        <4>2. h \in Conns /\ t \in Seq(Conns) /\ <<h>> \in Seq(Conns)
          BY <2>2
        <4> HIDE DEF h, t
        <4>3. started \in Seq(Conns) /\ <<h>> \in Seq(Conns) /\ t \in Seq(Conns)
          BY <1>0, <4>2
        <4>4. Regroups(started, <<h>>, t)
          BY <4>3, Regroup
        <4> QED
          BY <4>1, <4>4 DEF Regroups
      <3> QED
        BY <1>0, <3>1
    <2>5. TypeOK'
      BY <1>0, <1>4, <2>1, <2>2, <2>3, <2>4 DEF StartHandler, LInv, TypeOK
    <2>6. InLine'
      BY <1>0, <1>4, <2>1, <2>2, <2>3, <2>4 DEF StartHandler, InLine
    <2>7. Holding'
      BY <1>0, <1>4, <2>1, <2>2, <2>3, <2>4 DEF StartHandler, LInv, Holding
    <2> QED
      BY <2>5, <2>6, <2>7 DEF LInv
  <1>5. ASSUME NEW c \in Conns, Dial(c) PROVE LInv'
    <2>1. /\ dialed' = dialed \o <<c>> /\ backlog' = backlog \o <<c>>
          /\ UNCHANGED <<connCh, held, started>>
      BY <1>0, <1>5, Appended DEF Dial
    <2>2. dialed' \in Seq(Conns) /\ backlog' \in Seq(Conns)
      BY <1>0, <2>1
    <2>3. dialed' = started \o connCh \o held \o backlog'
      <3>1. started \o connCh \o held \in Seq(Conns) /\ <<c>> \in Seq(Conns)
        <4>1. Regroups(started, connCh, held)
          BY <1>0, Regroup
        <4>2. started \o connCh \in Seq(Conns)
          BY <4>1 DEF Regroups
        <4>3. Regroups(started \o connCh, held, backlog)
          BY <1>0, <4>2, Regroup
        <4>4. <<c>> \in Seq(Conns)
          OBVIOUS
        <4> QED
          BY <4>3, <4>4 DEF Regroups
      <3>2. (started \o connCh \o held) \o (backlog \o <<c>>)
                = (started \o connCh \o held \o backlog) \o <<c>>
        <4> DEFINE front == started \o connCh \o held
        <4>1. front \in Seq(Conns) /\ <<c>> \in Seq(Conns) /\ backlog \in Seq(Conns)
          BY <1>0, <3>1
        <4> HIDE DEF front
        <4>2. Regroups(front, backlog, <<c>>)
          BY <4>1, Regroup
        <4> QED
          BY <4>2 DEF front, Regroups
      <3> QED
        BY <1>0, <2>1, <3>2
    <2>5. TypeOK'
      BY <1>0, <1>5, <2>1, <2>2, <2>3 DEF Dial, LInv, TypeOK
    <2>6. InLine'
      BY <1>0, <1>5, <2>1, <2>2, <2>3 DEF Dial, InLine
    <2>7. Holding'
      BY <1>0, <1>5, <2>1, <2>2, <2>3 DEF Dial, LInv, Holding
    <2> QED
      BY <2>5, <2>6, <2>7 DEF LInv
  <1> QED
    BY <1>1, <1>2, <1>3, <1>4, <1>5 DEF Next, Loop

\* The variables keep their types, Run holds one connection at most and the
\* channel no more than its capacity.
THEOREM TypeCorrect == Spec => []TypeOK
  <1>1. LInv => TypeOK
    BY DEF LInv
  <1> QED
    BY <1>1, LInit, LStep, PTL DEF Spec

\* No connection is handled twice or overtaken, or lost but in the hands of a Run
\* that has returned.
THEOREM NoneLost == Spec => []InLine
  <1>1. LInv => InLine
    BY DEF LInv
  <1> QED
    BY <1>1, LInit, LStep, PTL DEF Spec
=============================================================================
