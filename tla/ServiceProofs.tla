---------------------------- MODULE ServiceProofs ----------------------------
(***************************************************************************)
(* Proofs about Service, for any number of clients of either kind and any  *)
(* capacities of the channel and of the library's queue.                   *)
(***************************************************************************)
EXTENDS Service, SequenceTheorems, TLAPS

\* What AcceptLoopProofs shows of the loop holds of the loop in here.
LP == INSTANCE AcceptLoopProofs WITH Conns <- Clients

PInv == SInv /\ LP!Holding

-----------------------------------------------------------------------------
(* Every step is one of the loop, or leaves the loop alone *)

LEMMA SameLoop == Loop!Next => LP!Next
  BY DEF Loop!Next, LP!Next, Loop!Loop, LP!Loop, Loop!Listen, LP!Listen,
         Loop!Accept, LP!Accept, Loop!AcceptFails, LP!AcceptFails,
         Loop!HandOver, LP!HandOver, Loop!Cancelled, LP!Cancelled,
         Loop!StartHandler, LP!StartHandler, Loop!ListenFails, LP!ListenFails,
         Loop!Dial, LP!Dial, Loop!Cancel, LP!Cancel,
         Loop!ListenerCloses, LP!ListenerCloses, Loop!vars, LP!vars,
         LP!Contains, Loop!Contains

\* The actions of a client, a handler and a connection that the loop never sees.
Aside(c) ==
    \/ ConnectFails(c) \/ ConnectNothing(c) \/ InitiateOnNothing(c)
    \/ ConnectRefused(c) \/ ClientStep(c) \/ ForeignSends(c) \/ HandlerStep(c)
    \/ \E e \in Ends : ConnectionLost(c, e)

LEMMA AsideOfLoop ==
  ASSUME NEW c \in Clients, Aside(c)
  PROVE  UNCHANGED loopVars
  BY DEF Aside, ConnectFails, ConnectNothing, InitiateOnNothing, ConnectRefused,
         ClientStep, SendClientSetup, ReadServerSetup, ClientFails, ForeignSends,
         HandlerStep, AcceptStream, Answer, AnswerReturns, HandlerFails, ConnectionLost

LEMMA LoopStep == [Next]_vars => [LP!Next]_LP!vars
  <1> SUFFICES ASSUME [Next]_vars PROVE [LP!Next]_LP!vars
    OBVIOUS
  <1>1. CASE UNCHANGED vars \/ ServerDies
    BY <1>1 DEF vars, loopVars, ServerDies, LP!vars
  <1>2. CASE Accepting \/ ListenFails \/ StartHandler \/ Outside
    <2>1. Loop!Next
      BY <1>2 DEF Accepting, ListenFails, StartHandler, Outside, Loop!Next
    <2> QED
      BY <2>1, SameLoop
  <1>3. ASSUME NEW c \in Clients, Connect(c) PROVE LP!Next
    <2>1. Loop!Next
      BY <1>3 DEF Connect, Loop!Next
    <2> QED
      BY <2>1, SameLoop
  <1>4. ASSUME NEW c \in Clients, Aside(c) PROVE UNCHANGED LP!vars
    BY <1>4, AsideOfLoop DEF loopVars, LP!vars
  <1> QED
    BY <1>1, <1>2, <1>3, <1>4 DEF Next, Aside

-----------------------------------------------------------------------------
(* The line of the loop, by positions *)

LEMMA Line ==
  ASSUME SInv
  PROVE  /\ started \in Seq(Clients) /\ connCh \in Seq(Clients) /\ dialed \in Seq(Clients)
         /\ Len(started) + Len(connCh) <= Len(dialed)
         /\ \A i \in 1..Len(started) : dialed[i] = started[i]
         /\ connCh # <<>> => dialed[Len(started) + 1] = Head(connCh)
  <1>1. /\ dialed \in Seq(Clients) /\ backlog \in Seq(Clients) /\ held \in Seq(Clients)
        /\ connCh \in Seq(Clients) /\ started \in Seq(Clients)
        /\ dialed = started \o connCh \o held \o backlog
    BY DEF SInv, TypeOK, Loop!TypeOK, Loop!InLine
  <1> DEFINE front == started \o connCh
             most == front \o held
  <1>2. /\ front \in Seq(Clients) /\ Len(front) = Len(started) + Len(connCh)
        /\ \A i \in 1..Len(started) : front[i] = started[i]
        /\ connCh # <<>> => front[Len(started) + 1] = Head(connCh)
    BY <1>1
  <1> HIDE DEF front
  <1>3. /\ most \in Seq(Clients) /\ Len(front) <= Len(most)
        /\ \A i \in 1..Len(front) : most[i] = front[i]
    BY <1>1, <1>2
  <1>4. dialed = most \o backlog
    BY <1>1 DEF front
  <1> HIDE DEF most
  <1>5. Len(most) <= Len(dialed) /\ \A i \in 1..Len(most) : dialed[i] = most[i]
    BY <1>1, <1>3, <1>4
  <1>6. Len(started) \in Nat /\ Len(connCh) \in Nat /\ Len(front) \in Nat
        /\ Len(most) \in Nat /\ Len(dialed) \in Nat
    BY <1>1, <1>2, <1>3
  <1>7. Len(started) + Len(connCh) <= Len(dialed)
    BY <1>2, <1>3, <1>5, <1>6
  <1>8. ASSUME NEW i \in 1..Len(front) PROVE dialed[i] = front[i]
    <2>1. i \in 1..Len(most)
      BY <1>3, <1>6
    <2> QED
      BY <2>1, <1>3, <1>5
  <1>9. ASSUME NEW i \in 1..Len(started) PROVE dialed[i] = started[i]
    <2>1. i \in 1..Len(front)
      BY <1>2, <1>6
    <2> QED
      BY <2>1, <1>2, <1>8
  <1>10. ASSUME connCh # <<>> PROVE dialed[Len(started) + 1] = Head(connCh)
    <2>1. Len(connCh) > 0
      BY <1>1, <1>10
    <2>2. Len(started) + 1 \in 1..Len(front)
      BY <2>1, <1>2, <1>6
    <2> QED
      BY <2>2, <1>2, <1>8, <1>10
  <1> QED
    BY <1>1, <1>7, <1>9, <1>10

\* The connection that is received from the channel has no handler yet.
LEMMA HeadIsNew ==
  ASSUME SInv, connCh # <<>>
  PROVE  Head(connCh) \in Clients /\ handler[Head(connCh)] = "none"
  <1>1. Head(connCh) \in Clients
    BY Line
  <1>2. ASSUME Contains(started, Head(connCh)) PROVE FALSE
    <2>1. PICK i \in 1..Len(started) : started[i] = Head(connCh)
      BY <1>2 DEF Contains
    <2>2. /\ dialed[i] = dialed[Len(started) + 1] /\ i # Len(started) + 1
          /\ i \in DOMAIN dialed /\ Len(started) + 1 \in DOMAIN dialed
      BY <2>1, Line
    <2> QED
      BY <2>2 DEF SInv, InStep
  <1> QED
    BY <1>1, <1>2 DEF SInv, InStep

LEMMA AppendContains ==
  ASSUME NEW s \in Seq(Clients), NEW c \in Clients, NEW d \in Clients
  PROVE  Contains(Append(s, c), d) <=> Contains(s, d) \/ d = c
  <1>1. Len(Append(s, c)) = Len(s) + 1 /\ Append(s, c)[Len(s) + 1] = c
        /\ \A i \in 1..Len(s) : Append(s, c)[i] = s[i]
    OBVIOUS
  <1>2. Len(s) \in Nat
    OBVIOUS
  <1>3. Contains(s, d) => Contains(Append(s, c), d)
    BY <1>1, <1>2 DEF Contains
  <1>4. d = c => Contains(Append(s, c), d)
    BY <1>1, <1>2 DEF Contains
  <1>5. ASSUME NEW i \in 1..Len(Append(s, c)), Append(s, c)[i] = d, d # c
        PROVE  Contains(s, d)
    <2>1. i \in 1..Len(s)
      BY <1>1, <1>2, <1>5
    <2> QED
      BY <1>1, <1>5, <2>1 DEF Contains
  <1> QED
    BY <1>3, <1>4, <1>5 DEF Contains
-----------------------------------------------------------------------------
(* The invariant *)

LEMMA PInit == Init => PInv
  <1> SUFFICES ASSUME Init PROVE PInv
    OBVIOUS
  <1>1. LP!LInv
    <2>1. LP!Init
      BY DEF Init, Loop!Init, LP!Init
    <2> QED
      BY <2>1, LP!LInit, CapsAssumption
  <1>2. TypeOK
    <2>1. Loop!TypeOK
      BY <1>1 DEF LP!LInv, LP!TypeOK, Loop!TypeOK
    <2>2. Len(backlog) <= BacklogCap
      BY CapsAssumption DEF Init, Loop!Init
    <2> QED
      BY <2>1, <2>2 DEF Init, TypeOK
  <1>3. InStep
    BY DEF Init, Loop!Init, InStep, Contains
  <1>4. Answered
    BY DEF Init, Answered
  <1> QED
    BY <1>1, <1>2, <1>3, <1>4 DEF PInv, SInv, LP!LInv, LP!InLine, Loop!InLine

\* Types of the ends; those of the loop come from the loop.
EndTypes ==
    /\ client \in [Clients -> {"idle", "unconnected", "nothing", "crashed",
                               "connected", "waiting", "established", "failed"}]
    /\ sent \in [Clients -> {"nothing", "part", "bad", "whole"}]
    /\ handler \in [Clients -> {"none", "accept", "read", "sent", "established",
                                "closed", "dead"}]
    /\ replied \in [Clients -> BOOLEAN]
    /\ over \in [Clients -> SUBSET Ends]
    /\ alive \in BOOLEAN

LEMMA EndStep ==
  ASSUME SInv, [Next]_vars
  PROVE  EndTypes'
  <1>0. EndTypes
    BY DEF SInv, TypeOK, EndTypes
  <1> USE DEF EndTypes, Ends, Goto, Handle
  <1>1. CASE UNCHANGED vars \/ Accepting \/ ListenFails \/ Outside
    BY <1>0, <1>1 DEF vars, endVars, Accepting, ListenFails, Outside
  <1>2. CASE StartHandler
    BY <1>0, <1>2, HeadIsNew DEF StartHandler, Loop!StartHandler
  <1>3. CASE ServerDies
    BY <1>0, <1>3 DEF ServerDies
  <1>4. ASSUME NEW c \in Clients, ConnectFails(c) \/ ConnectNothing(c) \/ InitiateOnNothing(c)
                                  \/ Connect(c) \/ ConnectRefused(c)
        PROVE  EndTypes'
    BY <1>0, <1>4 DEF ConnectFails, ConnectNothing, InitiateOnNothing, Connect, ConnectRefused
  <1>5. ASSUME NEW c \in Clients, ClientStep(c) \/ ForeignSends(c)
        PROVE  EndTypes'
    BY <1>0, <1>5 DEF ClientStep, SendClientSetup, ReadServerSetup, ClientFails, ForeignSends
  <1>6. ASSUME NEW c \in Clients, HandlerStep(c)
        PROVE  EndTypes'
    <2>1. CASE AcceptStream(c) \/ AnswerReturns(c)
      BY <1>0, <2>1 DEF AcceptStream, AnswerReturns
    <2>2. CASE Answer(c)
      BY <1>0, <2>2 DEF Answer
    <2>3. CASE HandlerFails(c)
      BY <1>0, <2>3 DEF HandlerFails
    <2> QED
      BY <1>6, <2>1, <2>2, <2>3 DEF HandlerStep
  <1>7. ASSUME NEW c \in Clients, NEW e \in Ends, ConnectionLost(c, e)
        PROVE  EndTypes'
    BY <1>0, <1>7 DEF ConnectionLost
  <1> QED
    BY <1>1, <1>2, <1>3, <1>4, <1>5, <1>6, <1>7 DEF Next

\* Only Connect adds to the library's queue, and it looks first.
LEMMA QueueStep ==
  ASSUME SInv, [Next]_vars
  PROVE  Len(backlog') <= BacklogCap
  <1>0. backlog \in Seq(Clients) /\ Len(backlog) <= BacklogCap
    BY DEF SInv, TypeOK, Loop!TypeOK
  <1>1. CASE UNCHANGED backlog
    BY <1>0, <1>1
  <1>2. CASE backlog # <<>> /\ backlog' = Tail(backlog)
    BY <1>0, <1>2, CapsAssumption
  <1>3. ASSUME NEW c \in Clients, Len(backlog) < BacklogCap, backlog' = Append(backlog, c)
        PROVE  Len(backlog') <= BacklogCap
    BY <1>0, <1>3, CapsAssumption
  <1>4. CASE Accepting \/ ListenFails \/ StartHandler \/ Outside \/ ServerDies \/ UNCHANGED vars
    BY <1>1, <1>2, <1>4
       DEF Accepting, ListenFails, StartHandler, Outside, ServerDies, vars, loopVars,
           Loop!Loop, Loop!Listen, Loop!Accept, Loop!AcceptFails, Loop!HandOver,
           Loop!Cancelled, Loop!ListenFails, Loop!StartHandler, Loop!Cancel,
           Loop!ListenerCloses, Loop!vars
  <1>5. ASSUME NEW c \in Clients, Connect(c) PROVE Len(backlog') <= BacklogCap
    BY <1>3, <1>5 DEF Connect, Loop!Dial
  <1>6. ASSUME NEW c \in Clients, Aside(c) PROVE Len(backlog') <= BacklogCap
    BY <1>1, <1>6, AsideOfLoop DEF loopVars
  <1> QED
    BY <1>4, <1>5, <1>6 DEF Next, Aside
DialedOnce == \A i, j \in DOMAIN dialed : dialed[i] = dialed[j] => i = j

HandlerSince(c) == handler[c] # "none" <=> Contains(started, c)

Answers(c) == /\ client[c] = "established" => replied[c]
              /\ replied[c] => handler[c] \in InSession

LEMMA Split ==
  /\ InStep /\ Answered => DialedOnce /\ \A c \in Clients : HandlerSince(c) /\ Answers(c)
  /\ DialedOnce /\ (\A c \in Clients : HandlerSince(c) /\ Answers(c)) => InStep /\ Answered
  BY DEF InStep, Answered, DialedOnce, HandlerSince, Answers

LEMMA DialStep ==
  ASSUME SInv, NEW c \in Clients, Loop!Dial(c)
  PROVE  DialedOnce'
  <1>1. /\ dialed \in Seq(Clients) /\ dialed' = Append(dialed, c)
        /\ \A i \in 1..Len(dialed) : dialed[i] # c
    BY DEF SInv, TypeOK, Loop!TypeOK, Loop!Dial, Loop!Contains
  <1>2. /\ Len(dialed) \in Nat /\ DOMAIN dialed = 1..Len(dialed)
        /\ DOMAIN dialed' = 1..(Len(dialed) + 1) /\ dialed'[Len(dialed) + 1] = c
        /\ \A i \in 1..Len(dialed) : dialed'[i] = dialed[i]
    BY <1>1
  <1>3. \A i \in DOMAIN dialed' : i \in DOMAIN dialed \/ i = Len(dialed) + 1
    BY <1>2
  <1> QED
    BY <1>1, <1>2, <1>3 DEF DialedOnce, SInv, InStep

LEMMA StartedStep ==
  ASSUME SInv, [Next]_vars
  PROVE  DialedOnce' /\ \A d \in Clients : HandlerSince(d)'
  <1>0. /\ DialedOnce /\ \A c \in Clients : HandlerSince(c)
        /\ EndTypes /\ started \in Seq(Clients)
    BY Split DEF SInv, TypeOK, Loop!TypeOK, EndTypes
  <1> USE DEF Goto, Handle
  <1>1. CASE UNCHANGED <<dialed, started, handler>>
    BY <1>0, <1>1 DEF DialedOnce, HandlerSince
  <1>2. CASE Accepting \/ ListenFails \/ Outside \/ UNCHANGED vars
    <2>1. UNCHANGED <<dialed, started, handler>>
      BY <1>2 DEF Accepting, ListenFails, Outside, vars, loopVars, endVars,
                  Loop!Loop, Loop!Listen, Loop!Accept, Loop!AcceptFails, Loop!HandOver,
                  Loop!Cancelled, Loop!ListenFails, Loop!Cancel, Loop!ListenerCloses, Loop!vars
    <2> QED
      BY <1>1, <2>1
  <1>3. CASE StartHandler
    <2> DEFINE h == Head(connCh)
    <2>1. /\ h \in Clients /\ handler[h] = "none" /\ started' = Append(started, h)
          /\ handler' = [handler EXCEPT ![h] = "accept"] /\ UNCHANGED dialed
      BY <1>3, HeadIsNew DEF StartHandler, Loop!StartHandler
    <2> HIDE DEF h
    <2>2. ASSUME NEW c \in Clients PROVE HandlerSince(c)'
      <3>1. Contains(started', c) <=> Contains(started, c) \/ c = h
        BY <1>0, <2>1, AppendContains
      <3>2. handler'[c] = IF c = h THEN "accept" ELSE handler[c]
        BY <1>0, <2>1 DEF EndTypes
      <3> QED
        BY <1>0, <2>1, <3>1, <3>2 DEF HandlerSince
    <2> QED
      BY <1>0, <2>1, <2>2 DEF DialedOnce
  <1>4. ASSUME NEW c \in Clients, Connect(c)
        PROVE  DialedOnce' /\ \A d \in Clients : HandlerSince(d)'
    <2>1. started' = started /\ handler' = handler
      BY <1>4 DEF Connect, Loop!Dial
    <2>2. DialedOnce'
      BY <1>4, DialStep DEF Connect
    <2> QED
      BY <1>0, <2>1, <2>2 DEF HandlerSince
  <1>5. ASSUME NEW c \in Clients, Aside(c)
        PROVE  DialedOnce' /\ \A d \in Clients : HandlerSince(d)'
    <2>1. UNCHANGED <<dialed, started>>
      BY <1>5, AsideOfLoop DEF loopVars
    <2>2. CASE HandlerStep(c)
      BY <1>0, <2>1, <2>2 DEF HandlerStep, AcceptStream, Answer, AnswerReturns, HandlerFails,
                              DialedOnce, HandlerSince, EndTypes
    <2>3. CASE ~HandlerStep(c)
      <3>1. UNCHANGED handler
        BY <1>5, <2>3
           DEF Aside, ConnectFails, ConnectNothing, InitiateOnNothing, ConnectRefused,
               ClientStep, SendClientSetup, ReadServerSetup, ClientFails, ForeignSends,
               ConnectionLost
      <3> QED
        BY <1>1, <2>1, <3>1
    <2> QED
      BY <2>2, <2>3
  <1>6. CASE ServerDies
    <2>1. UNCHANGED <<dialed, started>>
      BY <1>6 DEF ServerDies, loopVars
    <2>2. \A c \in Clients : handler'[c] = "none" <=> handler[c] = "none"
      BY <1>6 DEF ServerDies
    <2> QED
      BY <1>0, <2>1, <2>2 DEF DialedOnce, HandlerSince
  <1> QED
    BY <1>2, <1>3, <1>4, <1>5, <1>6 DEF Next, Aside

\* Only Answer replies, only ReadServerSetup establishes a client, and what moves
\* a handler that has answered leaves it with the session or dead.
LEMMA AnswersStep ==
  ASSUME SInv, [Next]_vars, NEW d \in Clients
  PROVE  Answers(d)'
  <1>0. Answers(d) /\ EndTypes
    BY Split DEF SInv, TypeOK, EndTypes
  <1> USE DEF Goto, Handle
  <1>1. CASE UNCHANGED endVars
    BY <1>0, <1>1 DEF Answers, InSession, endVars
  <1>2. CASE Accepting \/ ListenFails \/ Outside \/ UNCHANGED vars
    BY <1>1, <1>2 DEF Accepting, ListenFails, Outside, vars
  <1>3. CASE StartHandler
    <2>1. handler[Head(connCh)] = "none" /\ Head(connCh) \in Clients
      BY <1>3, HeadIsNew DEF StartHandler, Loop!StartHandler
    <2>2. /\ handler' = [handler EXCEPT ![Head(connCh)] = "accept"]
          /\ UNCHANGED <<client, replied, alive>>
      BY <1>3 DEF StartHandler
    <2> QED
      BY <1>0, <2>1, <2>2 DEF Answers, InSession, EndTypes
  <1>4. CASE ServerDies
    <2>1. /\ alive /\ ~alive' /\ UNCHANGED <<client, replied>>
          /\ handler[d] \notin {"none", "closed"} => handler'[d] = "dead"
      BY <1>4 DEF ServerDies
    <2> QED
      BY <1>0, <2>1 DEF Answers, InSession
  <1>5. ASSUME NEW c \in Clients, \/ ConnectFails(c) \/ ConnectNothing(c)
                                  \/ InitiateOnNothing(c) \/ Connect(c)
                                  \/ ConnectRefused(c) \/ ForeignSends(c)
                                  \/ \E e \in Ends : ConnectionLost(c, e)
        PROVE  Answers(d)'
    <2>1. /\ UNCHANGED <<handler, replied, alive>>
          /\ client'[d] = "established" => client[d] = "established"
      BY <1>0, <1>5 DEF ConnectFails, ConnectNothing, InitiateOnNothing, Connect,
                        ConnectRefused, ForeignSends, ConnectionLost, EndTypes
    <2> QED
      BY <1>0, <2>1 DEF Answers, InSession
  <1>6. ASSUME NEW c \in Clients, ClientStep(c) PROVE Answers(d)'
    <2>1. /\ UNCHANGED <<handler, replied, alive>>
          /\ client'[d] = "established" => client[d] = "established" \/ replied[d]
      BY <1>0, <1>6 DEF ClientStep, SendClientSetup, ReadServerSetup, ClientFails, EndTypes
    <2> QED
      BY <1>0, <2>1 DEF Answers, InSession
  <1>7. ASSUME NEW c \in Clients, HandlerStep(c) PROVE Answers(d)'
    BY <1>0, <1>7 DEF HandlerStep, AcceptStream, Answer, AnswerReturns, HandlerFails,
                      Answers, InSession, EndTypes
  <1> QED
    BY <1>2, <1>3, <1>4, <1>5, <1>6, <1>7 DEF Next

LEMMA InStepStep ==
  ASSUME SInv, [Next]_vars
  PROVE  InStep' /\ Answered'
  <1>1. DialedOnce' /\ \A c \in Clients : HandlerSince(c)' /\ Answers(c)'
    BY StartedStep, AnswersStep
  <1> QED
    BY <1>1 DEF InStep, Answered, DialedOnce, HandlerSince, Answers

LEMMA PStep == PInv /\ [Next]_vars => PInv'
  <1> SUFFICES ASSUME PInv, [Next]_vars PROVE PInv'
    OBVIOUS
  <1>1. SInv
    BY DEF PInv
  <1>2. LP!LInv'
    <2>1. LP!LInv
      BY DEF PInv, SInv, TypeOK, LP!LInv, LP!TypeOK, Loop!TypeOK, LP!InLine, Loop!InLine
    <2> QED
      BY <2>1, LoopStep, LP!LStep, CapsAssumption
  <1>3. EndTypes' /\ Len(backlog') <= BacklogCap /\ InStep' /\ Answered'
    BY <1>1, EndStep, QueueStep, InStepStep
  <1>4. Loop!TypeOK' /\ Loop!InLine' /\ LP!Holding'
    BY <1>2 DEF LP!LInv, LP!TypeOK, Loop!TypeOK, LP!InLine, Loop!InLine
  <1> QED
    BY <1>3, <1>4 DEF PInv, SInv, TypeOK, EndTypes

LEMMA Invariance == Spec => []PInv
  BY PInit, PStep, PTL DEF Spec

-----------------------------------------------------------------------------
(* Theorems *)

\* The variables keep their types, and the queues their capacities, with any
\* number of clients coming, going and stalling.
THEOREM TypeCorrect == Spec => []TypeOK
  <1>1. PInv => TypeOK
    BY DEF PInv, SInv
  <1> QED
    BY <1>1, Invariance, PTL

\* Sessions keep step with the loop: no connection gets a second handler, and a
\* client with a session has a handler with it until the process ends.
THEOREM SessionsInStep == Spec => []InStep
  <1>1. PInv => InStep
    BY DEF PInv, SInv
  <1> QED
    BY <1>1, Invariance, PTL
=============================================================================
