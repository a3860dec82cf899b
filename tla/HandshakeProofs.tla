--------------------------- MODULE HandshakeProofs ---------------------------
(***************************************************************************)
(* Proofs about Handshake, for any set of parameters callers may pass, any *)
(* default and varint limit, and any number of attempts.                   *)
(***************************************************************************)
EXTENDS Handshake, DataLemmas

-----------------------------------------------------------------------------
(* Parameters and session states *)

LEMMA PositionsType ==
  ASSUME NEW ps \in Seq(Param), NEW types
  PROVE  /\ Positions(ps, types) \in SUBSET (0..Len(ps))
         /\ \A i \in Positions(ps, types) : ps[i].value \in Nat
  <1>1. ASSUME NEW i \in Positions(ps, types)
        PROVE  i \in 1..Len(ps) /\ ps[i] \in Param
    BY DEF Positions
  <1> QED
    BY <1>1 DEF Param

\* A parameter that is given counts with one of its values.
LEMMA LastValueGiven ==
  ASSUME NEW ps \in Seq(Param), NEW t, Positions(ps, {t}) # {}, NEW d
  PROVE  LastValue(ps, t, d) = ps[Max(Positions(ps, {t}))].value
         /\ LastValue(ps, t, d) \in Nat
  <1> DEFINE S == Positions(ps, {t})
  <1>1. Len(ps) \in Nat /\ S # {} /\ S \in SUBSET (0..Len(ps))
    <2>1. Positions(ps, {t}) \in SUBSET (0..Len(ps))
      BY PositionsType
    <2>2. Len(ps) \in Nat
      OBVIOUS
    <2> QED
      BY <2>1, <2>2
  <1> HIDE DEF S
  <1>2. Max(S) \in S
    BY <1>1, MaxBelow
  <1> QED
    BY <1>2, PositionsType DEF LastValue, S

LEMMA LastValueType ==
  ASSUME NEW ps \in Seq(Param), NEW t, NEW d \in Nat
  PROVE  LastValue(ps, t, d) \in Nat
  <1>1. CASE Positions(ps, {t}) = {}
    BY <1>1 DEF LastValue
  <1>2. CASE Positions(ps, {t}) # {}
    BY <1>2, LastValueGiven
  <1> QED
    BY <1>1, <1>2

LEMMA SessionTypes ==
  ASSUME NEW st \in SessionState, NEW ps \in Seq(Param)
  PROVE  /\ NewSessionState \in SessionState
         /\ WithLocal(st, ps) \in SessionState
         /\ FromParams(st, ps) \in SessionState
  BY LastValueType, DefaultAssumption
     DEF SessionState, NewSessionState, WithLocal, FromParams

-----------------------------------------------------------------------------
(* Type correctness *)

LEMMA TypeInit == Init => TypeOK /\ (pc["client"] = "other" => streams = 0)
  <1> SUFFICES ASSUME Init PROVE TypeOK
    BY DEF Init
  <1>1. NewSessionState \in SessionState
    BY DefaultAssumption DEF NewSessionState, SessionState
  <1>2. /\ pc \in [Sides -> Labels] /\ err \in [Sides -> Errors]
        /\ sess \in [Sides -> SessionState] /\ down \in [Sides -> BOOLEAN]
    BY <1>1 DEF Init, Labels, Errors
  <1>3. offer \in [Sides -> Seq(Param)] /\ chan \in [Sides -> Seq(Message)]
    BY DEF Init
  <1>4. other \in SUBSET Sides /\ keepAlive \in BOOLEAN /\ wt \in BOOLEAN
    BY DEF Init, Sides
  <1>5. /\ streams = 0 /\ attempts \in 0..MaxAttempts /\ closeCode \in {"none", "0x0"}
    BY AttemptsAssumption DEF Init
  <1> QED
    BY <1>2, <1>3, <1>4, <1>5 DEF TypeOK

\* Queues keep their type when a message is sent or taken.
LEMMA QueueTypes ==
  ASSUME TypeOK, NEW s \in Sides
  PROVE  /\ \A k \in SetupKinds \cup BadKinds, ps \in Seq(Param) :
                Send(s, k, ps) => chan' \in [Sides -> Seq(Message)]
         /\ chan[s] # <<>> /\ Receive(s) => chan' \in [Sides -> Seq(Message)]
         /\ chan[s] # <<>> => Head(chan[s]) \in Message
  <1>1. chan \in [Sides -> Seq(Message)] /\ Peer(s) \in Sides
    BY DEF TypeOK, Peer, Sides
  <1>2. ASSUME NEW k \in SetupKinds \cup BadKinds, NEW ps \in Seq(Param), Send(s, k, ps)
        PROVE  chan' \in [Sides -> Seq(Message)]
    <2>1. [kind |-> k, params |-> ps] \in Message
      BY DEF Message
    <2> QED
      BY <1>1, <1>2, <2>1 DEF Send
  <1>3. ASSUME chan[s] # <<>>, Receive(s) PROVE chan' \in [Sides -> Seq(Message)]
    BY <1>1, <1>3 DEF Receive
  <1> QED
    BY <1>1, <1>2, <1>3

\* A side fails or goes on: labels and errors keep their types.
LEMMA LabelTypes ==
  ASSUME TypeOK, NEW s \in Sides
  PROVE  /\ \A l \in Labels : Goto(s, l) => pc' \in [Sides -> Labels]
         /\ \A e \in Errors : Fail(s, e) => /\ pc' \in [Sides -> Labels]
                                            /\ err' \in [Sides -> Errors]
  <1>1. pc \in [Sides -> Labels] /\ err \in [Sides -> Errors]
    BY DEF TypeOK
  <1>2. ASSUME NEW l \in Labels, Goto(s, l) PROVE pc' \in [Sides -> Labels]
    BY <1>1, <1>2 DEF Goto
  <1>3. ASSUME NEW e \in Errors, Fail(s, e)
        PROVE  pc' \in [Sides -> Labels] /\ err' \in [Sides -> Errors]
    <2>1. "failed" \in Labels /\ Goto(s, "failed") /\ err' = [err EXCEPT ![s] = e]
      BY <1>3 DEF Fail, Labels
    <2> QED
      BY <1>1, <1>2, <2>1
  <1> QED
    BY <1>2, <1>3

LEMMA VerdictTypes ==
  ASSUME NEW m, NEW want, NEW ps
  PROVE  ReadVerdict(m, want) \in Errors /\ ServerParamsVerdict(ps) \in Errors
  BY DEF ReadVerdict, ServerParamsVerdict, Errors

Typed == TypeOK /\ (pc["client"] = "other" => streams = 0)

LEMMA TypeClient == ASSUME Typed,
                           \/ \E ps \in Offers : ClientCall(ps)
                           \/ ClientStep \/ ClientRetry \/ ClientExit
                    PROVE  Typed'
  <1> USE DEF Typed
  <1>0. "client" \in Sides /\ "server" \in Sides
    BY DEF Sides
  <1>1. ASSUME NEW ps \in Offers, ClientCall(ps) PROVE Typed'
    BY <1>0, <1>1, OffersAssumption, AttemptsAssumption
       DEF TypeOK, ClientCall, Goto, Labels, Errors, confVars
  <1>2. CASE OpenControlStream
    <2>1. sess' \in [Sides -> SessionState]
      BY <1>0, <1>2, SessionTypes DEF TypeOK, OpenControlStream
    <2>2. chan' \in [Sides -> Seq(Message)]
      <3>1. chan' = [chan EXCEPT !["client"] = <<>>] /\ chan \in [Sides -> Seq(Message)]
        BY <1>2 DEF TypeOK, OpenControlStream
      <3>2. <<>> \in Seq(Message)
        OBVIOUS
      <3> QED
        BY <3>1, <3>2
    <2>3. /\ pc' \in [Sides -> Labels] /\ err' \in [Sides -> Errors]
          /\ pc'["client"] # "other"
      BY <1>0, <1>2 DEF TypeOK, OpenControlStream, Goto, Fail, Labels, Errors
    <2>4. streams' \in Nat /\ ("server" \notin other => streams' <= 1)
      BY <1>2 DEF TypeOK, OpenControlStream, MayOpen
    <2> QED
      BY <1>2, <2>1, <2>2, <2>3, <2>4 DEF TypeOK, OpenControlStream, confVars
  <1>3. CASE OpenTimeout
    BY <1>0, <1>3 DEF TypeOK, OpenTimeout, Fail, Goto, Labels, Errors, confVars
  <1>4. CASE SendClientSetup
    <2>1. /\ Send("client", "CLIENT_SETUP", offer["client"])
          /\ Goto("client", "sent")
      BY <1>4 DEF SendClientSetup
    <2>2. offer["client"] \in Seq(Param) /\ "CLIENT_SETUP" \in SetupKinds \cup BadKinds
      BY <1>0 DEF TypeOK, SetupKinds
    <2>3. chan' \in [Sides -> Seq(Message)]
      BY <1>0, <2>1, <2>2, QueueTypes
    <2>4. pc' \in [Sides -> Labels] /\ pc'["client"] # "other"
      BY <1>0, <2>1 DEF TypeOK, Goto, Labels
    <2> QED
      BY <1>4, <2>3, <2>4 DEF TypeOK, SendClientSetup, confVars
  <1>5. CASE ReadServerSetup
    <2> DEFINE m == Head(chan["client"])
    <2> DEFINE v == IF ReadVerdict(m, "SERVER_SETUP") # "none"
                    THEN ReadVerdict(m, "SERVER_SETUP")
                    ELSE ServerParamsVerdict(m.params)
    <2>0. /\ chan["client"] # <<>> /\ Receive("client")
          /\ v # "none" => Fail("client", v) /\ UNCHANGED sess
          /\ v = "none" =>
                /\ sess' = [sess EXCEPT !["client"] = FromParams(@, m.params)]
                /\ Goto("client", "established") /\ UNCHANGED err
      BY <1>5 DEF ReadServerSetup, Ready
    <2>V. v \in Errors
      BY VerdictTypes
    <2>1. chan' \in [Sides -> Seq(Message)] /\ m \in Message
      BY <1>0, <2>0, QueueTypes
    <2>2. m.params \in Seq(Param)
      BY <2>1 DEF Message
    <2>S. sess["client"] \in SessionState /\ sess \in [Sides -> SessionState]
      BY <1>0 DEF TypeOK
    <2> HIDE DEF v, m
    <2>F. FromParams(sess["client"], m.params) \in SessionState
      BY <2>2, <2>S, SessionTypes
    <2>3. sess' \in [Sides -> SessionState]
      BY <2>0, <2>S, <2>F
    <2>4. /\ pc' \in [Sides -> Labels] /\ err' \in [Sides -> Errors]
          /\ pc'["client"] # "other"
      <3>1. pc \in [Sides -> Labels] /\ err \in [Sides -> Errors]
        BY DEF TypeOK
      <3>2. CASE v = "none"
        BY <1>0, <2>0, <3>1, <3>2 DEF Goto, Labels
      <3>3. CASE v # "none"
        BY <1>0, <2>0, <2>V, <3>1, <3>3 DEF Goto, Fail, Labels
      <3> QED
        BY <3>2, <3>3
    <2> QED
      BY <1>5, <2>1, <2>3, <2>4 DEF TypeOK, ReadServerSetup, confVars
  <1>6. CASE ClientRetry
    BY <1>0, <1>6 DEF TypeOK, ClientRetry, Goto, Labels, confVars
  <1>7. CASE ClientExit
    BY <1>0, <1>7 DEF TypeOK, ClientExit, Goto, Labels, confVars
  <1>8. CASE WriteReturns("client")
    BY <1>0, <1>8 DEF TypeOK, WriteReturns, Goto, Labels, confVars
  <1> QED
    BY <1>1, <1>2, <1>3, <1>4, <1>5, <1>6, <1>7, <1>8 DEF ClientStep

LEMMA TypeServer == ASSUME Typed, (\E ps \in Offers : ServerCall(ps)) \/ ServerStep
                    PROVE  Typed'
  <1> USE DEF Typed
  <1>0. "client" \in Sides /\ "server" \in Sides
    BY DEF Sides
  <1>1. ASSUME NEW ps \in Offers, ServerCall(ps) PROVE Typed'
    BY <1>0, <1>1, OffersAssumption DEF TypeOK, ServerCall, Goto, Labels, confVars
  <1>2. CASE AcceptControlStream
    <2>1. sess' \in [Sides -> SessionState]
      BY <1>0, <1>2, SessionTypes DEF TypeOK, AcceptControlStream
    <2>2. /\ pc' \in [Sides -> Labels] /\ err' \in [Sides -> Errors]
          /\ pc'["client"] = pc["client"]
      <3>1. pc \in [Sides -> Labels] /\ err \in [Sides -> Errors]
        BY DEF TypeOK
      <3>2. \/ Fail("server", "error")
            \/ Goto("server", "read") /\ UNCHANGED err
        BY <1>2 DEF AcceptControlStream
      <3> QED
        BY <1>0, <3>1, <3>2 DEF Goto, Fail, Labels, Errors
    <2> QED
      BY <1>2, <2>1, <2>2 DEF TypeOK, AcceptControlStream, confVars
  <1>3. CASE AcceptTimeout
    BY <1>0, <1>3 DEF TypeOK, AcceptTimeout, Fail, Goto, Labels, Errors, confVars
  <1>4. CASE ReadClientSetup
    <2> DEFINE m == Head(chan["server"])
    <2> DEFINE v == ReadVerdict(m, "CLIENT_SETUP")
    <2>0. /\ chan["server"] # <<>> /\ Receive("server")
          /\ v # "none" => Fail("server", v) /\ UNCHANGED sess
          /\ v = "none" =>
                /\ sess' = [sess EXCEPT !["server"] = FromParams(@, m.params)]
                /\ Goto("server", "write") /\ UNCHANGED err
      BY <1>4 DEF ReadClientSetup, Ready
    <2>V. v \in Errors
      BY VerdictTypes
    <2>1. chan' \in [Sides -> Seq(Message)] /\ m \in Message
      BY <1>0, <2>0, QueueTypes
    <2>2. m.params \in Seq(Param)
      BY <2>1 DEF Message
    <2>S. sess["server"] \in SessionState /\ sess \in [Sides -> SessionState]
      BY <1>0 DEF TypeOK
    <2> HIDE DEF v, m
    <2>F. FromParams(sess["server"], m.params) \in SessionState
      BY <2>2, <2>S, SessionTypes
    <2>3. sess' \in [Sides -> SessionState]
      BY <2>0, <2>S, <2>F
    <2>4. /\ pc' \in [Sides -> Labels] /\ err' \in [Sides -> Errors]
          /\ pc'["client"] = pc["client"]
      <3>1. pc \in [Sides -> Labels] /\ err \in [Sides -> Errors]
        BY DEF TypeOK
      <3>2. CASE v = "none"
        BY <1>0, <2>0, <3>1, <3>2 DEF Goto, Labels
      <3>3. CASE v # "none"
        BY <1>0, <2>0, <2>V, <3>1, <3>3 DEF Goto, Fail, Labels
      <3> QED
        BY <3>2, <3>3
    <2> QED
      BY <1>4, <2>1, <2>3, <2>4 DEF TypeOK, ReadClientSetup, confVars
  <1>5. CASE SendServerSetup
    <2>1. /\ Send("server", "SERVER_SETUP", offer["server"])
          /\ Goto("server", "sent")
      BY <1>5 DEF SendServerSetup
    <2>2. offer["server"] \in Seq(Param) /\ "SERVER_SETUP" \in SetupKinds \cup BadKinds
      BY <1>0 DEF TypeOK, SetupKinds
    <2>3. chan' \in [Sides -> Seq(Message)]
      BY <1>0, <2>1, <2>2, QueueTypes
    <2>4. pc' \in [Sides -> Labels] /\ pc'["client"] = pc["client"]
      BY <1>0, <2>1 DEF TypeOK, Goto, Labels
    <2> QED
      BY <1>5, <2>3, <2>4 DEF TypeOK, SendServerSetup, confVars
  <1>6. CASE HandlerCloses
    BY <1>0, <1>6 DEF TypeOK, HandlerCloses, Goto, Labels, confVars
  <1>7. CASE WriteReturns("server")
    BY <1>0, <1>7 DEF TypeOK, WriteReturns, Goto, Labels, confVars
  <1> QED
    BY <1>1, <1>2, <1>3, <1>4, <1>5, <1>6, <1>7 DEF ServerStep

LEMMA TypeOther ==
  ASSUME Typed, NEW s \in Sides,
         \/ TransportFails(s) \/ EncoderPanics(s) \/ ConnectionLost(s)
         \/ \E m \in OtherMessage : OtherSends(s, m)
  PROVE  Typed'
  <1> USE DEF Typed
  <1>1. CASE TransportFails(s)
    BY <1>1 DEF TypeOK, TransportFails, Fail, Goto, Labels, Errors, confVars
  <1>2. CASE EncoderPanics(s)
    BY <1>2 DEF TypeOK, EncoderPanics, Goto, Labels, confVars
  <1>3. CASE ConnectionLost(s)
    BY <1>3 DEF TypeOK, ConnectionLost, confVars
  <1>4. ASSUME NEW m \in OtherMessage, OtherSends(s, m) PROVE Typed'
    <2>1. m.kind \in SetupKinds \cup BadKinds /\ m.params \in Seq(Param)
      <3>1. <<>> \in Seq(Param)
        OBVIOUS
      <3> QED
        BY <3>1, OffersAssumption DEF OtherMessage
    <2>2. chan' \in [Sides -> Seq(Message)]
      BY <1>4, <2>1, QueueTypes DEF OtherSends
    <2>3. /\ streams' \in Nat /\ ("server" \notin other => streams' <= 1)
          /\ pc'["client"] = "other" => streams' = 0
      BY <1>4 DEF TypeOK, OtherSends, Goto, Sides
    <2> QED
      BY <1>4, <2>2, <2>3 DEF TypeOK, OtherSends, Goto, Labels, confVars
  <1> QED
    BY <1>1, <1>2, <1>3, <1>4

LEMMA TypeStep == Typed /\ [Next]_vars => Typed'
  <1> SUFFICES ASSUME Typed, [Next]_vars PROVE Typed'
    OBVIOUS
  <1>1. CASE UNCHANGED vars
    BY <1>1 DEF Typed, TypeOK, vars, confVars
  <1> QED
    BY <1>1, TypeClient, TypeServer, TypeOther DEF Next

\* Every variable keeps its type; one control stream at most is ever opened to a
\* server of this implementation.
THEOREM TypeCorrect == Spec => []TypeOK
  <1>1. Init => Typed
    BY TypeInit DEF Typed
  <1>2. Typed => TypeOK
    BY DEF Typed
  <1> QED
    BY <1>1, <1>2, TypeStep, PTL DEF Spec

-----------------------------------------------------------------------------
(* What a call was given *)

\* A side that is not the one a step moves keeps its label and its offer.
LEMMA GivenStep == ASSUME Typed, Given, [Next]_vars PROVE Given'
  <1> USE DEF Typed
  <1>0. /\ "client" \in Sides /\ "server" \in Sides
        /\ pc \in [Sides -> Labels] /\ offer \in [Sides -> Seq(Param)]
    BY DEF Sides, TypeOK
  <1>1. CASE UNCHANGED vars
    BY <1>1 DEF Given, vars, confVars, Admissible
  <1>2. ASSUME NEW ps \in Offers, ClientCall(ps) \/ ServerCall(ps) PROVE Given'
    BY <1>0, <1>2 DEF Given, ClientCall, ServerCall, Goto, confVars, Admissible, Calling
  <1>3. CASE OpenControlStream \/ AcceptControlStream
    <2>1. CASE OpenControlStream
      BY <1>0, <2>1 DEF Given, OpenControlStream, Goto, Fail, confVars, Admissible, Calling
    <2>2. CASE AcceptControlStream
      BY <1>0, <2>2 DEF Given, AcceptControlStream, Goto, Fail, confVars, Admissible, Calling
    <2> QED
      BY <1>3, <2>1, <2>2
  <1>4. CASE OpenTimeout \/ AcceptTimeout \/ ClientRetry \/ ClientExit \/ HandlerCloses
    BY <1>0, <1>4
       DEF Given, OpenTimeout, AcceptTimeout, ClientRetry, ClientExit, HandlerCloses,
           Goto, Fail, confVars, Admissible, Calling
  <1>5. CASE SendClientSetup \/ SendServerSetup
    BY <1>0, <1>5 DEF Given, SendClientSetup, SendServerSetup, Goto, confVars, Admissible,
                      Calling
  <1>6. CASE ReadServerSetup
    <2>1. /\ pc["client"] = "read" /\ UNCHANGED <<confVars, offer>>
          /\ \E l \in {"failed", "established"} : Goto("client", l)
      BY <1>6 DEF ReadServerSetup, Fail
    <2> QED
      BY <1>0, <2>1 DEF Given, Goto, confVars, Admissible, Calling
  <1>7. CASE ReadClientSetup
    <2>1. /\ pc["server"] = "read" /\ UNCHANGED <<confVars, offer>>
          /\ \E l \in {"failed", "write"} : Goto("server", l)
      BY <1>7 DEF ReadClientSetup, Fail
    <2> QED
      BY <1>0, <2>1 DEF Given, Goto, confVars, Admissible, Calling
  <1>8. ASSUME NEW s \in Sides, \/ TransportFails(s) \/ EncoderPanics(s)
                                \/ ConnectionLost(s) \/ WriteReturns(s)
        PROVE  Given'
    BY <1>0, <1>8 DEF Given, TransportFails, EncoderPanics, ConnectionLost, WriteReturns,
                      Goto, Fail, confVars, Admissible, Calling
  <1>9. ASSUME NEW s \in Sides, NEW m \in OtherMessage, OtherSends(s, m) PROVE Given'
    BY <1>0, <1>9 DEF Given, OtherSends, Goto, confVars, Admissible, Calling
  <1> QED
    BY <1>0, <1>1, <1>2, <1>3, <1>4, <1>5, <1>6, <1>7, <1>8, <1>9
       DEF Next, ClientStep, ServerStep

-----------------------------------------------------------------------------
(* Two ends of this implementation *)

Agree ==
    /\ Stages /\ InTransit /\ Filled
    /\ err["client"] # "PROTOCOL_VIOLATION" /\ err["server"] # "PROTOCOL_VIOLATION"

Both == other = {} /\ Typed /\ Given /\ Agree

LEMMA SessionOfValue ==
  ASSUME NEW mine \in Offers, NEW theirs \in Offers
  PROVE  SessionOf[mine][theirs] = FromParams(WithLocal(NewSessionState, mine), theirs)
  BY DEF SessionOf

\* A message refused is not one that an end of this implementation sends.
LEMMA Verdicts ==
  ASSUME NEW k \in SetupKinds, NEW ps
  PROVE  /\ ReadVerdict([kind |-> k, params |-> ps], k) = "none"
         /\ ServerParamsVerdict(ps) # "PROTOCOL_VIOLATION"
  BY DEF ReadVerdict, ServerParamsVerdict

LEMMA BothInit == Init /\ other = {} => Both
  <1> SUFFICES ASSUME Init, other = {} PROVE Both
    OBVIOUS
  <1>1. Typed
    BY TypeInit DEF Typed
  <1>2. /\ pc["client"] = "idle" /\ pc["server"] = "idle"
        /\ err["client"] = "none" /\ err["server"] = "none"
        /\ chan["client"] = <<>> /\ chan["server"] = <<>>
        /\ streams = 0 /\ attempts = 0
    BY DEF Init, Sides
  <1>3. Given
    BY <1>2 DEF Given, Sides, Calling
  <1> QED
    BY <1>1, <1>2, <1>3
       DEF Both, Agree, Stages, InTransit, Filled, Waiting, Spent, Established, HasSession

\* The steps of the client.
LEMMA BothClientCall ==
  ASSUME Both, NEW ps \in Offers, ClientCall(ps)
  PROVE  Agree'
  <1>1. /\ pc["client"] = "idle" /\ pc'["client"] = "open" /\ pc'["server"] = pc["server"]
        /\ attempts' = attempts + 1 /\ attempts \in Nat
        /\ offer'["server"] = offer["server"]
        /\ err'["client"] = "none" /\ err'["server"] = err["server"]
        /\ UNCHANGED <<wt, sess, chan, streams, down>>
    BY DEF Both, Typed, TypeOK, Sides, Goto, Fail, confVars, ClientCall
  <1>2. Stages'
    BY <1>1 DEF Both, Agree, Stages, Waiting, Spent, Established, HasSession
  <1>3. InTransit'
    BY <1>1 DEF Both, Agree, InTransit, Established, HasSession, Admissible
  <1>4. Filled'
    BY <1>1 DEF Both, Agree, Filled, Established, HasSession, Admissible
  <1> QED
    BY <1>1, <1>2, <1>3, <1>4 DEF Both, Agree

LEMMA BothOpen ==
  ASSUME Both, OpenControlStream
  PROVE  Agree'
  <1>1. /\ pc["client"] = "open" /\ pc'["client"] \in {"write", "failed"}
        /\ pc'["server"] = pc["server"] /\ ~down["client"] /\ streams = 0 /\ streams' = 1
        /\ chan'["client"] = <<>> /\ chan'["server"] = chan["server"]
        /\ sess'["client"] = WithLocal(NewSessionState, offer["client"])
        /\ sess'["server"] = sess["server"]
        /\ err'["client"] \in {err["client"], "error"} /\ err'["server"] = err["server"]
        /\ UNCHANGED <<wt, offer, attempts, down>>
    BY DEF Both, Typed, TypeOK, Sides, Goto, Fail, confVars, OpenControlStream, MayOpen
  <1>2. Stages'
    BY <1>1 DEF Both, Agree, Stages, Waiting, Spent, Established, HasSession
  <1>3. InTransit'
    BY <1>1 DEF Both, Agree, InTransit, Established, HasSession, Admissible
  <1>4. Filled'
    BY <1>1 DEF Both, Agree, Filled, Established, HasSession, Admissible
  <1> QED
    BY <1>1, <1>2, <1>3, <1>4 DEF Both, Agree

LEMMA BothClientFails ==
  ASSUME Both, OpenTimeout \/ TransportFails("client")
  PROVE  Agree'
  <1>1. /\ pc["client"] \in Calling \ {"sent"} /\ pc'["client"] = "failed" /\ pc'["server"] = pc["server"]
        /\ streams >= 1 \/ down["client"]
        /\ err'["client"] \in {"timeout", "error"} /\ err'["server"] = err["server"]
        /\ UNCHANGED <<wt, offer, sess, chan, streams, attempts, down>>
    BY DEF Both, Typed, TypeOK, Sides, Goto, Fail, confVars, OpenTimeout, TransportFails, MayStarve, Calling
  <1>2. Stages'
    BY <1>1 DEF Both, Agree, Stages, Waiting, Spent, Established, HasSession, Calling
  <1>3. InTransit'
    BY <1>1 DEF Both, Agree, InTransit, Established, HasSession, Admissible, Calling
  <1>4. Filled'
    BY <1>1 DEF Both, Agree, Filled, Established, HasSession, Admissible, Calling
  <1> QED
    BY <1>1, <1>2, <1>3, <1>4 DEF Both, Agree

LEMMA BothClientSends ==
  ASSUME Both, SendClientSetup
  PROVE  Agree'
  <1>0. /\ pc["client"] = "write" /\ Goto("client", "sent")
        /\ Send("client", "CLIENT_SETUP", offer["client"])
        /\ UNCHANGED <<wt, offer, err, sess, streams, attempts, down>>
    BY DEF SendClientSetup, confVars
  <1>1. /\ pc["client"] = "write" /\ pc'["client"] = "sent" /\ pc'["server"] = pc["server"]
        /\ chan["server"] = <<>> /\ chan'["client"] = chan["client"]
        /\ chan'["server"] = <<[kind |-> "CLIENT_SETUP", params |-> offer["client"]]>>
        /\ offer["client"] \in Offers /\ Admissible(offer["client"])
        /\ UNCHANGED <<wt, offer, err, sess, streams, attempts, down>>
    <2>1. pc'["client"] = "sent" /\ pc'["server"] = pc["server"]
      BY <1>0 DEF Both, Typed, TypeOK, Sides, Goto
    <2>2. chan["server"] = <<>>
      BY <1>0 DEF Both, Agree, Stages
    <2>3. chan' = [chan EXCEPT !["server"] =
                      Append(<<>>, [kind |-> "CLIENT_SETUP", params |-> offer["client"]])]
      BY <1>0, <2>2 DEF Send, Peer
    <2>4. /\ chan'["client"] = chan["client"]
          /\ chan'["server"] = <<[kind |-> "CLIENT_SETUP", params |-> offer["client"]]>>
      BY <2>3 DEF Both, Typed, TypeOK, Sides
    <2>5. offer["client"] \in Offers /\ Admissible(offer["client"])
      BY <1>0 DEF Both, Given, Calling, Sides
    <2> QED
      BY <1>0, <2>1, <2>2, <2>4, <2>5
  <1>2. Stages'
    BY <1>1 DEF Both, Agree, Stages, Waiting, Spent, Established, HasSession
  <1>3. InTransit'
    BY <1>1 DEF Both, Agree, InTransit, Established, HasSession, Admissible
  <1>4. Filled'
    BY <1>1 DEF Both, Agree, Filled, Stages, Waiting, Established, HasSession, Admissible
  <1> QED
    BY <1>1, <1>2, <1>3, <1>4 DEF Both, Agree

LEMMA BothClientRests ==
  ASSUME Both, ClientRetry \/ ClientExit
  PROVE  Agree'
  <1>1. /\ pc["client"] = "failed" /\ pc'["client"] \in {"idle", "exited"}
        /\ pc'["server"] = pc["server"] /\ (down["client"] => down'["client"])
        /\ UNCHANGED <<wt, offer, err, sess, chan, streams, attempts>>
    BY DEF Both, Typed, TypeOK, Sides, Goto, Fail, confVars, ClientRetry, ClientExit
  <1>2. Stages'
    BY <1>1 DEF Both, Agree, Stages, Waiting, Spent, Established, HasSession
  <1>3. InTransit'
    BY <1>1 DEF Both, Agree, InTransit, Established, HasSession, Admissible
  <1>4. Filled'
    BY <1>1 DEF Both, Agree, Filled, Established, HasSession, Admissible
  <1> QED
    BY <1>1, <1>2, <1>3, <1>4 DEF Both, Agree

\* The steps of the server.
LEMMA BothServerCall ==
  ASSUME Both, NEW ps \in Offers, ServerCall(ps)
  PROVE  Agree'
  <1>1. /\ pc["server"] = "idle" /\ pc'["server"] = "accept" /\ pc'["client"] = pc["client"]
        /\ offer'["client"] = offer["client"]
        /\ UNCHANGED <<wt, err, sess, chan, streams, attempts, down>>
    BY DEF Both, Typed, TypeOK, Sides, Goto, Fail, confVars, ServerCall
  <1>2. Stages'
    BY <1>1 DEF Both, Agree, Stages, Waiting, Spent, Established, HasSession
  <1>3. InTransit'
    BY <1>1 DEF Both, Agree, InTransit, Established, HasSession, Admissible
  <1>4. Filled'
    BY <1>1 DEF Both, Agree, Filled, Stages, Established, HasSession, Admissible
  <1> QED
    BY <1>1, <1>2, <1>3, <1>4 DEF Both, Agree

LEMMA BothAccept ==
  ASSUME Both, AcceptControlStream
  PROVE  Agree'
  <1>1. /\ pc["server"] = "accept" /\ pc'["server"] \in {"read", "failed"}
        /\ pc'["client"] = pc["client"] /\ chan["server"] # <<>>
        /\ sess'["server"] = WithLocal(NewSessionState, offer["server"])
        /\ sess'["client"] = sess["client"]
        /\ err'["server"] \in {err["server"], "error"} /\ err'["client"] = err["client"]
        /\ UNCHANGED <<wt, offer, chan, streams, attempts, down>>
    BY DEF Both, Typed, TypeOK, Sides, Goto, Fail, confVars, AcceptControlStream
  <1>2. Stages'
    BY <1>1 DEF Both, Agree, Stages, Waiting, Spent, Established, HasSession
  <1>3. InTransit'
    BY <1>1 DEF Both, Agree, InTransit, Established, HasSession, Admissible
  <1>4. Filled'
    BY <1>1 DEF Both, Agree, Filled, Established, HasSession, Admissible
  <1> QED
    BY <1>1, <1>2, <1>3, <1>4 DEF Both, Agree

LEMMA BothServerFails ==
  ASSUME Both, AcceptTimeout \/ TransportFails("server")
  PROVE  Agree'
  <1>1. /\ pc["server"] \in Calling \ {"sent"} /\ pc'["server"] = "failed" /\ pc'["client"] = pc["client"]
        /\ err'["server"] \in {"timeout", "error"} /\ err'["client"] = err["client"]
        /\ UNCHANGED <<wt, offer, sess, chan, streams, attempts, down>>
    BY DEF Both, Typed, TypeOK, Sides, Goto, Fail, confVars, AcceptTimeout, TransportFails, Calling
  <1>2. Stages'
    BY <1>1 DEF Both, Agree, Stages, Waiting, Spent, Established, HasSession, Calling
  <1>3. InTransit'
    BY <1>1 DEF Both, Agree, InTransit, Established, HasSession, Admissible, Calling
  <1>4. Filled'
    BY <1>1 DEF Both, Agree, Filled, Established, HasSession, Admissible, Calling
  <1> QED
    BY <1>1, <1>2, <1>3, <1>4 DEF Both, Agree

LEMMA BothServerSends ==
  ASSUME Both, SendServerSetup
  PROVE  Agree'
  <1>0. /\ pc["server"] = "write" /\ Goto("server", "sent")
        /\ Send("server", "SERVER_SETUP", offer["server"])
        /\ UNCHANGED <<wt, offer, err, sess, streams, attempts, down>>
    BY DEF SendServerSetup, confVars
  <1>1. /\ pc["server"] = "write" /\ pc'["server"] = "sent"
        /\ pc'["client"] = pc["client"] /\ chan'["server"] = chan["server"]
        /\ chan'["client"] = <<[kind |-> "SERVER_SETUP", params |-> offer["server"]]>>
        /\ UNCHANGED <<wt, offer, err, sess, streams, attempts, down>>
    <2>1. pc'["server"] = "sent" /\ pc'["client"] = pc["client"]
      BY <1>0 DEF Both, Typed, TypeOK, Sides, Goto
    <2>2. chan["client"] = <<>>
      BY <1>0 DEF Both, Agree, InTransit, Established, HasSession
    <2>3. chan' = [chan EXCEPT !["client"] =
                      Append(<<>>, [kind |-> "SERVER_SETUP", params |-> offer["server"]])]
      BY <1>0, <2>2 DEF Send, Peer
    <2>4. /\ chan'["server"] = chan["server"]
          /\ chan'["client"] = <<[kind |-> "SERVER_SETUP", params |-> offer["server"]]>>
      BY <2>3 DEF Both, Typed, TypeOK, Sides
    <2> QED
      BY <1>0, <2>1, <2>4
  <1>2. Stages'
    BY <1>1 DEF Both, Agree, Stages, Waiting, Spent, Established, HasSession
  <1>3. InTransit'
    BY <1>1 DEF Both, Agree, InTransit, Established, HasSession, Admissible
  <1>4. Filled'
    BY <1>1 DEF Both, Agree, Filled, Established, HasSession, Admissible
  <1> QED
    BY <1>1, <1>2, <1>3, <1>4 DEF Both, Agree

LEMMA BothHandlerCloses ==
  ASSUME Both, HandlerCloses
  PROVE  Agree'
  <1>1. /\ pc["server"] = "failed" /\ pc'["server"] = "closed" /\ pc'["client"] = pc["client"]
        /\ down'["client"] = down["client"]
        /\ UNCHANGED <<wt, offer, err, sess, chan, streams, attempts>>
    BY DEF Both, Typed, TypeOK, Sides, Goto, Fail, confVars, HandlerCloses
  <1>2. Stages'
    BY <1>1 DEF Both, Agree, Stages, Waiting, Spent, Established, HasSession
  <1>3. InTransit'
    BY <1>1 DEF Both, Agree, InTransit, Established, HasSession, Admissible
  <1>4. Filled'
    BY <1>1 DEF Both, Agree, Filled, Established, HasSession, Admissible
  <1> QED
    BY <1>1, <1>2, <1>3, <1>4 DEF Both, Agree

\* The transport and the process.
LEMMA BothPanics ==
  ASSUME Both, NEW s \in Sides, EncoderPanics(s)
  PROVE  Agree'
  <1>1. /\ pc[s] = "write" /\ pc'[s] = "crashed" /\ pc'[Peer(s)] = pc[Peer(s)]
        /\ s = "client" \/ s = "server"
        /\ down["client"] => down'["client"]
        /\ UNCHANGED <<wt, offer, err, sess, chan, streams, attempts>>
    BY DEF Both, Typed, TypeOK, Sides, Goto, Fail, confVars, EncoderPanics, Peer
  <1>2. Stages'
    BY <1>1 DEF Peer, Both, Agree, Stages, Waiting, Spent, Established, HasSession
  <1>3. InTransit'
    BY <1>1 DEF Peer, Both, Agree, InTransit, Established, HasSession, Admissible
  <1>4. Filled'
    BY <1>1 DEF Peer, Both, Agree, Filled, Established, HasSession, Admissible
  <1> QED
    BY <1>1, <1>2, <1>3, <1>4 DEF Both, Agree

LEMMA BothLost ==
  ASSUME Both, NEW s \in Sides, ConnectionLost(s)
  PROVE  Agree'
  <1>1. /\ down["client"] => down'["client"]
        /\ UNCHANGED <<wt, pc, offer, err, sess, chan, streams, attempts>>
    BY DEF Both, Typed, TypeOK, Sides, Goto, Fail, confVars, ConnectionLost
  <1>2. Stages'
    BY <1>1 DEF Both, Agree, Stages, Waiting, Spent, Established, HasSession
  <1>3. InTransit'
    BY <1>1 DEF Both, Agree, InTransit, Established, HasSession, Admissible
  <1>4. Filled'
    BY <1>1 DEF Both, Agree, Filled, Established, HasSession, Admissible
  <1> QED
    BY <1>1, <1>2, <1>3, <1>4 DEF Both, Agree

\* A write that returns changes nothing but what its caller does next.
LEMMA BothWriteReturns ==
  ASSUME Both, NEW s \in Sides, WriteReturns(s)
  PROVE  Agree'
  <1>1. /\ pc[s] = "sent" /\ pc'[s] = (IF s = "client" THEN "read" ELSE "established")
        /\ pc'[Peer(s)] = pc[Peer(s)]
        /\ s = "client" \/ s = "server"
        /\ UNCHANGED <<wt, offer, err, sess, chan, streams, attempts, down>>
    BY DEF Both, Typed, TypeOK, Sides, Goto, confVars, WriteReturns, Peer
  <1>2. Stages'
    BY <1>1 DEF Peer, Both, Agree, Stages, Waiting, Spent, Established, HasSession
  <1>3. InTransit'
    BY <1>1 DEF Peer, Both, Agree, InTransit, Established, HasSession, Admissible
  <1>4. Filled'
    BY <1>1 DEF Peer, Both, Agree, Filled, Established, HasSession, Admissible
  <1> QED
    BY <1>1, <1>2, <1>3, <1>4 DEF Both, Agree

\* A read finds the one message there is and takes it.
LEMMA BothReadServerSetup == ASSUME Both, ReadServerSetup PROVE Agree'
  <1>1. /\ pc["client"] = "read" /\ HasSession("server")
        /\ chan["client"] = <<[kind |-> "SERVER_SETUP", params |-> offer["server"]]>>
        /\ offer["client"] \in Offers /\ offer["server"] \in Offers
        /\ sess["client"] = WithLocal(NewSessionState, offer["client"])
    BY DEF Both, Agree, InTransit, Filled, Given, Sides, Calling, Established, HasSession,
           ReadServerSetup, Ready
  <1> DEFINE m == [kind |-> "SERVER_SETUP", params |-> offer["server"]]
             v == ServerParamsVerdict(offer["server"])
  <1>2. Head(chan["client"]) = m /\ Tail(chan["client"]) = <<>>
    BY <1>1
  <1>3. m.kind = "SERVER_SETUP" /\ m.params = offer["server"]
    OBVIOUS
  <1>4. ReadVerdict(m, "SERVER_SETUP") = "none" /\ v # "PROTOCOL_VIOLATION"
    BY <1>3, Verdicts DEF SetupKinds
  <1> HIDE DEF m, v
  <1>5. /\ \/ Fail("client", v) /\ UNCHANGED sess
           \/ /\ sess' = [sess EXCEPT !["client"] = FromParams(@, offer["server"])]
              /\ Goto("client", "established") /\ UNCHANGED err
        /\ Receive("client")
        /\ UNCHANGED <<wt, offer, streams, attempts, down>>
    BY <1>2, <1>3, <1>4 DEF ReadServerSetup, confVars, v
  <1>6. /\ pc'["server"] = pc["server"] /\ err'["server"] = err["server"]
        /\ err'["client"] # "PROTOCOL_VIOLATION"
        /\ chan'["client"] = <<>> /\ chan'["server"] = chan["server"]
        /\ sess'["server"] = sess["server"]
        /\ \/ pc'["client"] = "failed"
           \/ /\ pc'["client"] = "established"
              /\ sess'["client"] = SessionOf[offer["client"]][offer["server"]]
    <2>1. chan'["client"] = <<>> /\ chan'["server"] = chan["server"]
      BY <1>2, <1>5 DEF Both, Typed, TypeOK, Sides, Receive
    <2>2. CASE Fail("client", v) /\ UNCHANGED sess
      BY <1>4, <2>1, <2>2 DEF Both, Agree, Typed, TypeOK, Sides, Fail, Goto
    <2>3. CASE /\ sess' = [sess EXCEPT !["client"] = FromParams(@, offer["server"])]
               /\ Goto("client", "established") /\ UNCHANGED err
      <3>1. /\ sess'["client"] = FromParams(sess["client"], offer["server"])
            /\ sess'["server"] = sess["server"]
        BY <2>3 DEF Both, Typed, TypeOK, Sides
      <3>2. sess'["client"] = SessionOf[offer["client"]][offer["server"]]
        BY <1>1, <3>1, SessionOfValue
      <3> QED
        BY <2>1, <2>3, <3>1, <3>2 DEF Both, Agree, Typed, TypeOK, Sides, Goto
    <2> QED
      BY <1>5, <2>2, <2>3
  <1>7. Stages'
    BY <1>1, <1>5, <1>6 DEF Both, Agree, Stages, Waiting, Spent, Established, HasSession
  <1>8. InTransit'
    BY <1>1, <1>5, <1>6 DEF Both, Agree, InTransit, Established, HasSession, Admissible
  <1>9. Filled'
    BY <1>1, <1>5, <1>6 DEF Both, Agree, Filled, Established, HasSession, Admissible
  <1> QED
    BY <1>6, <1>7, <1>8, <1>9 DEF Both, Agree

LEMMA BothReadClientSetup == ASSUME Both, ReadClientSetup PROVE Agree'
  <1>1. /\ pc["server"] = "read" /\ chan["server"] # <<>>
        /\ offer["server"] \in Offers
        /\ sess["server"] = WithLocal(NewSessionState, offer["server"])
        /\ ~Established("client")
    BY DEF Both, Agree, Stages, Filled, Given, Sides, Calling, Established, HasSession,
           ReadClientSetup, Ready
  <1>2. PICK ps \in Offers :
          /\ Admissible(ps)
          /\ chan["server"] = <<[kind |-> "CLIENT_SETUP", params |-> ps]>>
          /\ pc["client"] \in {"sent", "read"} => ps = offer["client"]
    BY <1>1 DEF Both, Agree, InTransit
  <1> DEFINE m == [kind |-> "CLIENT_SETUP", params |-> ps]
  <1>3. Head(chan["server"]) = m /\ Tail(chan["server"]) = <<>>
    BY <1>2
  <1>4. ReadVerdict(m, "CLIENT_SETUP") = "none" /\ m.params = ps
    BY Verdicts DEF SetupKinds
  <1> HIDE DEF m
  <1>5. /\ sess' = [sess EXCEPT !["server"] = FromParams(@, ps)]
        /\ Goto("server", "write") /\ Receive("server")
        /\ UNCHANGED <<wt, err, offer, streams, attempts, down>>
    BY <1>3, <1>4 DEF ReadClientSetup, confVars
  <1>6. /\ pc'["server"] = "write" /\ pc'["client"] = pc["client"]
        /\ chan'["server"] = <<>> /\ chan'["client"] = chan["client"]
        /\ sess'["client"] = sess["client"]
        /\ sess'["server"] = SessionOf[offer["server"]][ps]
    <2>1. chan'["server"] = <<>> /\ chan'["client"] = chan["client"]
      BY <1>3, <1>5 DEF Both, Typed, TypeOK, Sides, Receive
    <2>2. /\ sess'["server"] = FromParams(sess["server"], ps)
          /\ sess'["client"] = sess["client"]
          /\ pc'["server"] = "write" /\ pc'["client"] = pc["client"]
      BY <1>5 DEF Both, Typed, TypeOK, Sides, Goto
    <2>3. sess'["server"] = SessionOf[offer["server"]][ps]
      BY <1>1, <2>2, SessionOfValue
    <2> QED
      BY <2>1, <2>2, <2>3
  <1>7. Stages'
    BY <1>1, <1>5, <1>6 DEF Both, Agree, Stages, Waiting, Spent, Established, HasSession
  <1>8. InTransit'
    BY <1>1, <1>5, <1>6 DEF Both, Agree, InTransit, Established, HasSession, Admissible
  <1>9. Filled'
    BY <1>1, <1>2, <1>5, <1>6 DEF Both, Agree, Filled, Established, HasSession, Admissible
  <1> QED
    BY <1>5, <1>7, <1>8, <1>9 DEF Both, Agree

-----------------------------------------------------------------------------
(* The inductive invariant *)

LEMMA OtherStays == [Next]_vars => other' = other
  BY DEF Next, vars, confVars, ClientStep, ServerStep, ClientCall, ServerCall,
         OpenControlStream, OpenTimeout, SendClientSetup, ReadServerSetup, ClientRetry,
         ClientExit, AcceptControlStream, AcceptTimeout, ReadClientSetup,
         SendServerSetup, HandlerCloses, TransportFails, EncoderPanics,
         ConnectionLost, OtherSends, WriteReturns

LEMMA BothStep == Both /\ [Next]_vars => Both'
  <1> SUFFICES ASSUME Both, [Next]_vars PROVE Both'
    OBVIOUS
  <1>1. Typed' /\ Given'
    BY TypeStep, GivenStep DEF Both
  <1>2. other' = {}
    BY OtherStays DEF Both
  <1>3. Agree'
    <2>1. CASE UNCHANGED vars
      BY <2>1 DEF Both, Agree, vars, confVars, Stages, InTransit, Filled, Established,
                  HasSession, Admissible
    <2>2. ASSUME NEW ps \in Offers, ClientCall(ps) \/ ServerCall(ps) PROVE Agree'
      BY <2>2, BothClientCall, BothServerCall
    <2>3. CASE ClientStep \/ ClientRetry \/ ClientExit
      BY <2>3, BothOpen, BothClientFails, BothClientSends, BothReadServerSetup,
         BothClientRests, BothWriteReturns DEF ClientStep, Sides
    <2>4. CASE ServerStep
      BY <2>4, BothAccept, BothServerFails, BothReadClientSetup, BothServerSends,
         BothHandlerCloses, BothWriteReturns DEF ServerStep, Sides
    <2>5. ASSUME NEW s \in Sides, TransportFails(s) PROVE Agree'
      BY <2>5, BothClientFails, BothServerFails DEF Sides
    <2>6. ASSUME NEW s \in Sides, EncoderPanics(s) \/ ConnectionLost(s) PROVE Agree'
      BY <2>6, BothPanics, BothLost
    <2>7. ASSUME NEW s \in Sides, NEW m \in OtherMessage, OtherSends(s, m) PROVE Agree'
      <3>1. s \in other
        BY <2>7 DEF Both, Given, OtherSends
      <3> QED
        BY <3>1 DEF Both
    <2> QED
      BY <2>1, <2>2, <2>3, <2>4, <2>5, <2>6, <2>7 DEF Next
  <1> QED
    BY <1>1, <1>2, <1>3 DEF Both

LEMMA HInvBoth == /\ HInv => Typed /\ Given /\ (other = {} => Both)
                  /\ Typed /\ Given /\ (other = {} => Both) => HInv
  <1>1. NoFalseAccusation <=>
          (other = {} => /\ err["client"] # "PROTOCOL_VIOLATION"
                         /\ err["server"] # "PROTOCOL_VIOLATION")
    BY DEF NoFalseAccusation, Sides
  <1> HIDE DEF NoFalseAccusation
  <1>2. HInv => Typed /\ Given /\ (other = {} => Both)
    BY <1>1 DEF HInv, Typed, Both, Agree
  <1>3. Typed /\ Given /\ (other = {} => Both) => HInv
    BY <1>1 DEF HInv, Typed, Both, Agree
  <1> QED
    BY <1>2, <1>3

LEMMA HInvStep == HInv /\ [Next]_vars => HInv'
  <1> SUFFICES ASSUME HInv, [Next]_vars PROVE HInv'
    OBVIOUS
  <1>1. Typed /\ Given /\ (other = {} => Both)
    BY HInvBoth
  <1>2. Typed' /\ Given'
    BY <1>1, TypeStep, GivenStep
  <1>3. other' = other
    BY OtherStays
  <1>4. other' = {} => Both'
    BY <1>1, <1>3, BothStep
  <1>5. (Typed /\ Given /\ (other = {} => Both) => HInv)'
    BY HInvBoth, PTL
  <1> QED
    BY <1>2, <1>4, <1>5

\* The invariant behind the theorems below.
THEOREM HInvariance == Spec => []HInv
  <1>1. Init => HInv
    <2> SUFFICES ASSUME Init PROVE HInv
      OBVIOUS
    <2>1. Typed
      BY TypeInit DEF Typed
    <2>2. Given
      BY DEF Init, Given, Sides, Calling
    <2>3. other = {} => Both
      BY BothInit
    <2> QED
      BY <2>1, <2>2, <2>3, HInvBoth
  <1> QED
    BY <1>1, HInvStep, PTL DEF Spec

-----------------------------------------------------------------------------
(* What follows from it *)

\* A server that failed, timed out or crashed leaves no client of this
\* implementation believing in a session.
THEOREM ClientNeverAlone == Spec => []ClientImpliesServer
  <1>1. HInv => ClientImpliesServer
    BY DEF HInv, Stages, ClientImpliesServer, Established
  <1> QED
    BY <1>1, HInvariance, PTL

\* Two ends of this implementation never take each other for violators.
THEOREM NoneAccused == Spec => []NoFalseAccusation
  <1>1. HInv => NoFalseAccusation
    BY DEF HInv, NoFalseAccusation
  <1> QED
    BY <1>1, HInvariance, PTL

\* A second InitiateSession on a connection to this server never succeeds.
THEOREM OneAttemptOnly == Spec => []RetryNeverEstablishes
  <1>1. HInv => RetryNeverEstablishes
    BY DEF HInv, Stages, RetryNeverEstablishes, Established, Spent
  <1> QED
    BY <1>1, HInvariance, PTL

\* A session built from parameters that may be sent carries no Path or Authority
\* over WebTransport.
LEMMA PathlessSession ==
  ASSUME NEW mine \in Offers, NEW theirs \in Offers,
         ~HasPathOrAuthority(mine), ~HasPathOrAuthority(theirs)
  PROVE  /\ SessionOf[mine][theirs].path = 0
         /\ SessionOf[mine][theirs].authority = 0
  <1>1. /\ Positions(mine, {"path"}) = {} /\ Positions(mine, {"authority"}) = {}
        /\ Positions(theirs, {"path"}) = {} /\ Positions(theirs, {"authority"}) = {}
    BY DEF HasPathOrAuthority, Positions
  <1> DEFINE local == WithLocal(NewSessionState, mine)
  <1>2. local.path = 0 /\ local.authority = 0 /\ local \in SessionState
    <2>1. NewSessionState.path = 0 /\ NewSessionState.authority = 0
      BY DEF NewSessionState
    <2>2. local \in SessionState
      <3>1. NewSessionState \in SessionState
        BY DefaultAssumption DEF NewSessionState, SessionState
      <3> QED
        BY <3>1, SessionTypes, OffersAssumption
    <2> QED
      BY <1>1, <2>1, <2>2 DEF WithLocal, LastValue, SessionState, NewSessionState
  <1> HIDE DEF local
  <1>3. FromParams(local, theirs).path = 0 /\ FromParams(local, theirs).authority = 0
    BY <1>1, <1>2 DEF FromParams, LastValue, SessionState
  <1> QED
    BY <1>3, SessionOfValue DEF local

THEOREM Pathless == Spec => []PathlessWebTransport
  <1>1. HInv => PathlessWebTransport
    <2> SUFFICES ASSUME HInv, wt, other = {}, NEW s \in Sides, Established(s)
                 PROVE  sess[s].path = 0 /\ sess[s].authority = 0
      BY DEF PathlessWebTransport
    <2>1. \A r \in Sides : Established(r) \/ HasSession(r) =>
             offer[r] \in Offers /\ ~HasPathOrAuthority(offer[r])
      BY DEF HInv, Given, Admissible, Established, HasSession, Calling
    <2>2. CASE s = "client"
      <3>1. HasSession("server")
        BY <2>2 DEF HInv, Stages, Established
      <3>2. sess["client"] = SessionOf[offer["client"]][offer["server"]]
        BY <2>2 DEF HInv, Filled
      <3> QED
        BY <2>1, <2>2, <3>1, <3>2, PathlessSession DEF Sides
    <2>3. CASE s = "server"
      <3>1. PICK ps \in Offers : /\ Admissible(ps)
                                 /\ sess["server"] = SessionOf[offer["server"]][ps]
        BY <2>3 DEF HInv, Filled, Established
      <3> QED
        BY <2>1, <2>3, <3>1, PathlessSession DEF Admissible
    <2> QED
      BY <2>2, <2>3 DEF Sides
  <1> QED
    BY <1>1, HInvariance, PTL

\* What an end is told it may use is what its peer set itself, or the 0 it
\* starts from when the peer said nothing.
LEMMA MirroredLimits ==
  ASSUME NEW mine \in Offers, NEW theirs \in Offers, NEW any \in Offers
  PROVE  /\ SessionOf[mine][theirs].maxOut <= SessionOf[theirs][any].maxIn
         /\ SessionOf[mine][theirs].peerCache <= SessionOf[theirs][any].localCache
  <1> DEFINE local(ps) == WithLocal(NewSessionState, ps)
  <1>0. mine \in Seq(Param) /\ theirs \in Seq(Param) /\ any \in Seq(Param)
    BY OffersAssumption
  <1>1. \A ps \in Seq(Param) :
          /\ local(ps) \in SessionState
          /\ local(ps).maxOut = 0 /\ local(ps).peerCache = 0
          /\ local(ps).maxIn = LastValue(ps, "maxRequestID", DefaultMaxIncoming)
          /\ local(ps).localCache = LastValue(ps, "tokenCache", 0)
    <2> TAKE ps \in Seq(Param)
    <2>1. NewSessionState \in SessionState
      BY DefaultAssumption DEF NewSessionState, SessionState
    <2>2. local(ps) \in SessionState
      BY <2>1, SessionTypes
    <2> QED
      BY <2>2 DEF WithLocal, NewSessionState
  <1> HIDE DEF local
  <1>2. /\ SessionOf[mine][theirs].maxOut = LastValue(theirs, "maxRequestID", 0)
        /\ SessionOf[mine][theirs].peerCache = LastValue(theirs, "tokenCache", 0)
    <2>1. SessionOf[mine][theirs] = FromParams(local(mine), theirs)
      BY SessionOfValue DEF local
    <2> QED
      BY <1>0, <1>1, <2>1 DEF FromParams, SessionState
  <1>3. /\ SessionOf[theirs][any].maxIn =
              LastValue(theirs, "maxRequestID", DefaultMaxIncoming)
        /\ SessionOf[theirs][any].localCache = LastValue(theirs, "tokenCache", 0)
    <2>1. SessionOf[theirs][any] = FromParams(local(theirs), any)
      BY SessionOfValue DEF local
    <2> QED
      BY <1>0, <1>1, <2>1 DEF FromParams, SessionState
  <1>4. LastValue(theirs, "maxRequestID", 0)
          <= LastValue(theirs, "maxRequestID", DefaultMaxIncoming)
    <2>1. CASE Positions(theirs, {"maxRequestID"}) = {}
      BY <2>1, DefaultAssumption DEF LastValue
    <2>2. CASE Positions(theirs, {"maxRequestID"}) # {}
      <3>1. /\ LastValue(theirs, "maxRequestID", 0)
                 = LastValue(theirs, "maxRequestID", DefaultMaxIncoming)
            /\ LastValue(theirs, "maxRequestID", 0) \in Nat
        BY <1>0, <2>2, LastValueGiven
      <3> QED
        BY <3>1
    <2> QED
      BY <2>1, <2>2
  <1>5. LastValue(theirs, "tokenCache", 0) \in Nat
    BY <1>0, LastValueType
  <1> QED
    BY <1>2, <1>3, <1>4, <1>5

\* Neither end may use more of the other than the other set itself to take.
THEOREM Licensed == Spec => []NeverOverLicensed
  <1>1. HInv => NeverOverLicensed
    <2> SUFFICES ASSUME HInv, BothEstablished PROVE NeverOverLicensed
      BY DEF NeverOverLicensed
    <2>1. other = {} /\ pc["client"] = "established" /\ pc["server"] = "established"
      BY DEF HInv, Given, BothEstablished, Established, TypeOK, Sides
    <2>2. offer["client"] \in Offers /\ offer["server"] \in Offers
      BY <2>1 DEF HInv, Given, Sides
    <2>3. /\ sess["client"] = SessionOf[offer["client"]][offer["server"]]
          /\ sess["server"] = SessionOf[offer["server"]][offer["client"]]
      BY <2>1 DEF HInv, Filled, Established
    <2> QED
      BY <2>2, <2>3, MirroredLimits DEF NeverOverLicensed, Peer, Sides
  <1> QED
    BY <1>1, HInvariance, PTL

-----------------------------------------------------------------------------
(* Handshake implements SetupContract *)

View == [s \in Sides |-> IF other = {} /\ HasSession(s) THEN sess[s] ELSE NoView]

\* A step is quiet when no end takes or changes a session.
Quiet == \A s \in Sides : /\ HasSession(s)' <=> HasSession(s)
                          /\ HasSession(s) => sess'[s] = sess[s]

LEMMA QuietSteps ==
  ASSUME HInv, [Next]_vars, ~SendServerSetup, ~ReadServerSetup PROVE Quiet
  <1>0. /\ "client" \in Sides /\ "server" \in Sides
        /\ pc \in [Sides -> Labels] /\ sess \in [Sides -> SessionState]
    BY DEF HInv, TypeOK, Sides
  <1>1. CASE UNCHANGED vars
    BY <1>1 DEF Quiet, HasSession, Established, vars
  <1>2. ASSUME NEW ps \in Offers, ClientCall(ps) \/ ServerCall(ps) PROVE Quiet
    BY <1>0, <1>2 DEF Quiet, HasSession, Established, ClientCall, ServerCall, Goto
  <1>3. CASE OpenControlStream
    BY <1>0, <1>3 DEF Quiet, HasSession, Established, OpenControlStream, Goto, Fail
  <1>4. CASE AcceptControlStream
    BY <1>0, <1>4 DEF Quiet, HasSession, Established, AcceptControlStream, Goto, Fail
  <1>5. CASE OpenTimeout \/ AcceptTimeout \/ SendClientSetup \/ ClientRetry \/ ClientExit
    <2>1. UNCHANGED sess
      BY <1>5 DEF OpenTimeout, AcceptTimeout, SendClientSetup, ClientRetry, ClientExit
    <2>2. \/ pc["client"] \in {"open", "write", "failed"}
             /\ \E l \in {"failed", "sent", "idle", "exited"} : Goto("client", l)
          \/ pc["server"] = "accept" /\ Goto("server", "failed")
      BY <1>5 DEF OpenTimeout, AcceptTimeout, SendClientSetup, ClientRetry, ClientExit, Fail
    <2> QED
      BY <1>0, <2>1, <2>2 DEF Quiet, HasSession, Established, Goto
  <1>6. CASE ReadClientSetup
    <2>1. /\ pc["server"] = "read"
          /\ \/ Fail("server", ReadVerdict(Head(chan["server"]), "CLIENT_SETUP"))
                /\ UNCHANGED sess
             \/ /\ sess' = [sess EXCEPT !["server"] =
                                FromParams(@, Head(chan["server"]).params)]
                /\ Goto("server", "write")
      BY <1>6 DEF ReadClientSetup
    <2> QED
      BY <1>0, <2>1 DEF Quiet, HasSession, Established, Goto, Fail
  <1>7. CASE HandlerCloses
    BY <1>0, <1>7 DEF Quiet, HasSession, Established, HandlerCloses, Goto
  <1>8. ASSUME NEW s \in Sides, TransportFails(s) \/ EncoderPanics(s) \/ ConnectionLost(s)
        PROVE  Quiet
    BY <1>0, <1>8 DEF Quiet, HasSession, Established, TransportFails, EncoderPanics,
                      ConnectionLost, Goto, Fail, Calling
  <1>W. ASSUME NEW s \in Sides, WriteReturns(s) PROVE Quiet
    <2>1. /\ pc[s] = "sent" /\ UNCHANGED sess
          /\ pc' = [pc EXCEPT ![s] = IF s = "client" THEN "read" ELSE "established"]
      BY <1>W DEF WriteReturns, Goto
    <2>2. CASE s = "client"
      BY <1>0, <2>1, <2>2 DEF Quiet, HasSession, Established, Sides
    <2>3. CASE s = "server"
      BY <1>0, <2>1, <2>3 DEF Quiet, HasSession, Established, Sides
    <2> QED
      BY <2>2, <2>3 DEF Sides
  <1>9. ASSUME NEW s \in Sides, NEW m \in OtherMessage, OtherSends(s, m) PROVE Quiet
    BY <1>0, <1>9 DEF Quiet, HasSession, Established, OtherSends, Goto
  <1> QED
    BY <1>0, <1>1, <1>2, <1>3, <1>4, <1>5, <1>6, <1>7, <1>8, <1>W, <1>9
       DEF Next, ClientStep, ServerStep

\* The only steps the contract sees are the two that establish a session.
LEMMA ContractStep == HInv /\ HInv' /\ [Next]_vars => [Contract!Next]_View
  <1> SUFFICES ASSUME HInv, HInv', [Next]_vars PROVE [Contract!Next]_View
    OBVIOUS
  <1>1. other' = other
    BY OtherStays
  <1>2. NoView \notin SessionState /\ sess \in [Sides -> SessionState]
    BY NoViewAssumption DEF HInv, TypeOK
  <1>3. CASE other # {}
    BY <1>1, <1>3 DEF View
  <1>4. CASE other = {} /\ ~SendServerSetup /\ ~ReadServerSetup
    <2>1. Quiet
      BY <1>4, QuietSteps
    <2> QED
      BY <1>1, <1>4, <2>1 DEF View, Quiet
  <1>5. CASE other = {} /\ SendServerSetup
    <2>1. /\ pc["server"] = "write" /\ pc'["server"] = "sent"
          /\ pc'["client"] = pc["client"] /\ sess' = sess
      BY <1>5 DEF SendServerSetup, Goto, HInv, TypeOK, Sides
    <2>2. pc["client"] # "established"
      BY <1>5, <2>1 DEF HInv, Stages, Established, HasSession
    <2>3. PICK ps \in Offers : sess["server"] = SessionOf[offer["server"]][ps]
      BY <1>5, <2>1 DEF HInv, Filled
    <2>4. offer["server"] \in Offers
      BY <2>1 DEF HInv, Given, Calling, Sides
    <2>5. View' = [View EXCEPT !["server"] = SessionOf[offer["server"]][ps]]
      BY <1>1, <1>5, <2>1, <2>2, <2>3 DEF View, HasSession, Established, Sides
    <2>6. Contract!ServerTakes(offer["server"], ps)
      BY <1>5, <2>1, <2>2, <2>5 DEF Contract!ServerTakes, View, HasSession, Established, Sides
    <2> QED
      BY <2>4, <2>6 DEF Contract!Next
  <1>6. CASE other = {} /\ ReadServerSetup
    <2>1. /\ pc["client"] = "read" /\ chan["client"] # <<>>
          /\ sess'["server"] = sess["server"] /\ pc'["server"] = pc["server"]
      BY <1>6 DEF ReadServerSetup, Ready, Goto, Fail, HInv, TypeOK, Sides
    <2>2. pc["server"] \in {"sent", "established"}
      BY <1>6, <2>1 DEF HInv, InTransit, Established, HasSession
    <2>3. CASE pc'["client"] # "established"
      BY <1>1, <1>6, <2>1, <2>3 DEF View, HasSession, Established, Sides
    <2>4. CASE pc'["client"] = "established"
      <3>1. offer' = offer
        BY <1>6 DEF ReadServerSetup
      <3>2. sess'["client"] = SessionOf[offer["client"]][offer["server"]]
        BY <1>1, <1>6, <2>4, <3>1 DEF HInv, Filled, Established
      <3>3. sess["server"] = SessionOf[offer["server"]][offer["client"]]
        BY <1>6, <2>1, <2>2 DEF HInv, Filled
      <3>4. offer["server"] \in Offers /\ offer["client"] \in Offers
        BY <2>1, <2>2 DEF HInv, Given, Calling, Sides
      <3>5. View' = [View EXCEPT !["client"] = SessionOf[offer["client"]][offer["server"]]]
        BY <1>1, <1>6, <2>1, <2>2, <2>4, <3>2 DEF View, HasSession, Established, Sides
      <3>6. PICK mine, theirs \in Offers : mine = offer["client"] /\ theirs = offer["server"]
        BY <3>4
      <3>7. Contract!ClientTakes(mine, theirs)
        BY <1>6, <2>1, <2>2, <3>3, <3>5, <3>6
           DEF Contract!ClientTakes, View, HasSession, Established, Sides
      <3> QED
        BY <3>7 DEF Contract!Next
    <2> QED
      BY <2>3, <2>4
  <1> QED
    BY <1>3, <1>4, <1>5, <1>6

\* Both ends of this implementation together do what SetupContract promises.
THEOREM ImplementsContract == Spec => ContractSpec
  <1>1. Init => Contract!Init
    BY DEF Init, Contract!Init, HasSession, Established, Sides
  <1>2. HInv /\ HInv' /\ [Next]_vars => [Contract!Next]_View
    BY ContractStep
  <1> QED
    BY <1>1, <1>2, HInvariance, PTL DEF Spec, ContractSpec, Contract!Spec, View
=============================================================================
