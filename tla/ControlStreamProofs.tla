------------------------- MODULE ControlStreamProofs -------------------------
(***************************************************************************)
(* Proofs about ControlStream, for any writers, messages, sizes, buffer    *)
(* and window: the inductive invariant IInv, and what follows from it.     *)
(***************************************************************************)
EXTENDS ControlStream, TLAPS

USE NoWriterAssumption, MessagesAssumption, SizeAssumption, KindAssumption,
    BufSizeAssumption, WindowAssumption, TransientAssumption, MaxCallsAssumption

-----------------------------------------------------------------------------
(* Pieces and seams *)

LEMMA FrameLenType == ASSUME NEW m \in Messages
                      PROVE  FrameLen(m) \in Nat /\ FrameLen(m) = 2 + Size[m]
                             /\ Size[m] \in Nat
  BY DEF FrameLen

LEMMA PieceType == ASSUME NEW m \in Messages, NEW p \in Nat \ {0}
                   PROVE  /\ PieceOf(m, p) \in Piece
                          /\ PieceOf(m, p).msg = m
                          /\ PieceOf(m, p).part = p
  BY DEF PieceOf, Piece

\* A sequence of whole frames and a prefix of one stays so when the piece that
\* may follow its last one is appended.
LEMMA SeamAppend ==
  ASSUME NEW s \in Seq(Piece), NEW u \in Piece,
         \A i \in 1..Len(s) : Seam(s, i),
         IF s = <<>> THEN u.part = 1 ELSE Continues(s[Len(s)], u)
  PROVE  /\ Append(s, u) \in Seq(Piece)
         /\ Append(s, u) # <<>>
         /\ Len(Append(s, u)) = Len(s) + 1
         /\ Append(s, u)[Len(s) + 1] = u
         /\ \A i \in 1..Len(Append(s, u)) : Seam(Append(s, u), i)
  <1> DEFINE t == Append(s, u)
  <1>1. /\ t \in Seq(Piece) /\ Len(t) = Len(s) + 1 /\ t[Len(s) + 1] = u
        /\ \A i \in 1..Len(s) : t[i] = s[i]
    OBVIOUS
  <1>2. t # <<>>
    <2>1. Len(t) # 0 /\ Len(<<>>) = 0
      BY <1>1
    <2> QED
      BY <2>1
  <1>3. ASSUME NEW i \in 1..Len(t) PROVE Seam(t, i)
    <2>1. CASE i \in 1..Len(s)
      <3>1. Seam(s, i) /\ t[i] = s[i] /\ (i # 1 => i - 1 \in 1..Len(s))
        BY <1>1, <2>1
      <3> QED
        BY <3>1, <1>1 DEF Seam
    <2>2. CASE i = Len(s) + 1
      <3>1. CASE s = <<>>
        BY <2>2, <3>1, <1>1 DEF Seam
      <3>2. CASE s # <<>>
        <4>1. Len(s) \in 1..Len(s) /\ i # 1 /\ i - 1 = Len(s)
          BY <2>2, <3>2
        <4> QED
          BY <1>1, <2>2, <3>2, <4>1 DEF Seam
      <3> QED
        BY <3>1, <3>2
    <2> QED
      BY <1>1, <2>1, <2>2
  <1> QED
    BY <1>1, <1>2, <1>3

-----------------------------------------------------------------------------
(* The inductive invariant, one lemma per kind of step *)

LEMMA InitInv == Init => IInv
  <1> SUFFICES ASSUME Init PROVE IInv
    OBVIOUS
  <1>1. msg \in [Writers -> Messages]
    <2> DEFINE m0 == CHOOSE m \in Messages : TRUE
    <2>1. m0 \in Messages
      OBVIOUS
    <2>2. msg = [w \in Writers |-> m0]
      BY DEF Init
    <2> HIDE DEF m0
    <2> QED
      BY <2>1, <2>2
  <1>2. TypeOK
    <2>1. stream \in Seq(Piece) /\ acked \in Seq(Messages) /\ got \in Seq(Verdicts \X Messages)
          /\ Len(stream) = 0
      BY DEF Init
    <2> QED
      <3>1. /\ pc \in [Writers -> {"idle", "lock", "encode", "header", "payload",
                                  "drain", "flush"}]
            /\ todo \in [Writers -> Nat]
        BY DEF Init
      <3>2. /\ lock = NoWriter /\ calls = 0 /\ accepted = 0 /\ read = 0 /\ start = 0
            /\ werr = FALSE /\ sendDown = FALSE /\ recvDown = FALSE /\ rpc = "idle"
        BY DEF Init
      <3>3. start <= read /\ read <= accepted /\ accepted <= Len(stream)
        BY <2>1, <3>2
      <3>4. calls \in Nat /\ accepted \in Nat /\ read \in Nat /\ start \in Nat
        BY <3>2
      <3>5. /\ lock \in Writers \cup {NoWriter}
            /\ werr \in BOOLEAN /\ sendDown \in BOOLEAN /\ recvDown \in BOOLEAN
            /\ rpc \in {"idle", "reading", "failed"}
        BY <3>2
      <3> QED
        BY <1>1, <2>1, <3>1, <3>3, <3>4, <3>5 DEF TypeOK
  <1>3. LockHeld
    BY DEF Init, LockHeld, Holding, InFrame
  <1>4. Settled /\ Seamless
    BY DEF Init, Settled, Seamless
  <1>5. ASSUME NEW w \in Writers PROVE PlaceInFrame(w)
    BY DEF Init, PlaceInFrame, InFrame
  <1> QED
    BY <1>2, <1>3, <1>4, <1>5 DEF IInv

\* Steps that leave the stream and the cursors of the sender alone, and move no
\* call into or out of its frame except by returning before it.
LEMMA CallStep ==
  ASSUME IInv, NEW w \in Writers,
         \/ \E m \in Messages : Call(w, m)
         \/ Lock(w) \/ Encode(w) \/ HeaderFails(w)
  PROVE  IInv'
  <1> USE DEF IInv
  <1>1. TypeOK'
    <2>1. ASSUME NEW m \in Messages, Call(w, m) PROVE TypeOK'
      BY <2>1 DEF TypeOK, Call, readerVars, netVars
    <2>2. CASE Lock(w)
      BY <2>2 DEF TypeOK, Lock, readerVars, netVars
    <2>3. CASE Encode(w)
      BY <2>3 DEF TypeOK, Encode, Return, readerVars, netVars
    <2>4. CASE HeaderFails(w)
      BY <2>4 DEF TypeOK, HeaderFails, Return, readerVars, netVars
    <2> QED
      BY <2>1, <2>2, <2>3, <2>4
  <1>2. LockHeld'
    <2>1. ASSUME NEW m \in Messages, Call(w, m) PROVE LockHeld'
      BY <2>1 DEF TypeOK, LockHeld, Holding, InFrame, Call
    <2>2. CASE Lock(w)
      BY <2>2 DEF TypeOK, LockHeld, Holding, InFrame, Lock
    <2>3. CASE Encode(w)
      BY <2>3 DEF TypeOK, LockHeld, Holding, InFrame, Encode, Return
    <2>4. CASE HeaderFails(w)
      BY <2>4 DEF TypeOK, LockHeld, Holding, InFrame, HeaderFails, Return
    <2> QED
      BY <2>1, <2>2, <2>3, <2>4
  <1>3. Settled'
    <2>1. ASSUME \A v \in Writers : ~InFrame(v)', ~werr'
          PROVE  /\ \A v \in Writers : ~InFrame(v)
                 /\ ~werr /\ UNCHANGED <<accepted, stream>>
      <3>1. ~werr /\ UNCHANGED <<accepted, stream>>
        BY <2>1 DEF Call, Lock, Encode, HeaderFails
      <3>2. ASSUME NEW v \in Writers PROVE ~InFrame(v)
        <4>1. CASE v = w
          BY <4>1 DEF InFrame, Call, Lock, Encode, HeaderFails
        <4>2. CASE v # w
          <5>1. pc'[v] = pc[v]
            BY <4>2 DEF TypeOK, Call, Lock, Encode, HeaderFails, Return
          <5> QED
            BY <2>1, <5>1 DEF InFrame
        <4> QED
          BY <4>1, <4>2
      <3> QED
        BY <3>1, <3>2
    <2> QED
      BY <2>1 DEF Settled
  <1>4. Seamless'
    BY DEF Seamless, Seam, Continues, Call, Lock, Encode, HeaderFails
  <1>5. ASSUME NEW v \in Writers PROVE PlaceInFrame(v)'
    BY DEF TypeOK, PlaceInFrame, InFrame, PieceOf, Call, Lock, Encode,
           HeaderFails, Return
  <1> QED
    BY <1>1, <1>2, <1>3, <1>4, <1>5

LEMMA HeaderStep ==
  ASSUME IInv, NEW w \in Writers, WriteHeader(w)
  PROVE  IInv'
  <1> DEFINE m == msg[w]
             one == PieceOf(m, 1)
             two == PieceOf(m, 2)
             s == Append(stream, one)
  <1>1. m \in Messages /\ stream \in Seq(Piece) /\ pc[w] = "header" /\ ~werr
    BY DEF IInv, TypeOK, WriteHeader
  <1>2. /\ one \in Piece /\ one.msg = m /\ one.part = 1
        /\ two \in Piece /\ two.msg = m /\ two.part = 2
        /\ FrameLen(m) \in Nat /\ FrameLen(m) = 2 + Size[m] /\ Size[m] \in Nat
    BY <1>1, PieceType, FrameLenType
  <1>3. \A v \in Writers : ~InFrame(v)
    BY <1>1 DEF IInv, LockHeld, Holding, InFrame
  <1>4. /\ accepted = Len(stream)
        /\ stream # <<>> => stream[Len(stream)].part = FrameLen(stream[Len(stream)].msg)
    BY <1>1, <1>3 DEF IInv, Settled
  <1>5. IF stream = <<>> THEN one.part = 1 ELSE Continues(stream[Len(stream)], one)
    BY <1>2, <1>4 DEF Continues
  <1>6. /\ s \in Seq(Piece) /\ s # <<>> /\ Len(s) = Len(stream) + 1
        /\ s[Len(s)] = one /\ \A i \in 1..Len(s) : Seam(s, i)
    BY <1>1, <1>2, <1>5, SeamAppend DEF IInv, Seamless
  <1>7. Continues(one, two)
    BY <1>2 DEF Continues, PieceOf
  <1>8. stream' = Append(s, two)
    BY DEF WriteHeader
  <1>9. /\ stream' \in Seq(Piece) /\ stream' # <<>> /\ Len(stream') = Len(stream) + 2
        /\ stream'[Len(stream')] = two /\ \A i \in 1..Len(stream') : Seam(stream', i)
    <2>1. /\ Append(s, two) \in Seq(Piece) /\ Append(s, two) # <<>>
          /\ Len(Append(s, two)) = Len(s) + 1 /\ Append(s, two)[Len(s) + 1] = two
          /\ \A i \in 1..Len(Append(s, two)) : Seam(Append(s, two), i)
      BY <1>2, <1>6, <1>7, SeamAppend
    <2> QED
      BY <2>1, <1>1, <1>6, <1>8
  <1>10. TypeOK'
    BY <1>1, <1>9 DEF IInv, TypeOK, WriteHeader, readerVars, netVars
  <1>11. LockHeld'
    BY <1>1 DEF IInv, TypeOK, LockHeld, Holding, InFrame, WriteHeader
  <1>12. Settled'
    BY <1>1 DEF IInv, TypeOK, Settled, InFrame, WriteHeader
  <1>13. Seamless'
    BY <1>9 DEF Seamless, Seam, Continues
  <1>14. ASSUME NEW v \in Writers PROVE PlaceInFrame(v)'
    <2>1. CASE v = w
      BY <2>1, <1>1, <1>2, <1>9 DEF IInv, TypeOK, PlaceInFrame, InFrame, WriteHeader
    <2>2. CASE v # w
      BY <2>2, <1>3 DEF IInv, TypeOK, PlaceInFrame, InFrame, WriteHeader
    <2> QED
      BY <2>1, <2>2
  <1> QED
    BY <1>10, <1>11, <1>12, <1>13, <1>14 DEF IInv

LEMMA PayloadStep ==
  ASSUME IInv, NEW w \in Writers, WritePayload(w)
  PROVE  IInv'
  <1> DEFINE m == msg[w]
             u == PieceOf(m, FrameLen(m) + 1 - todo[w])
  <1>1. /\ m \in Messages /\ stream \in Seq(Piece) /\ pc[w] = "payload"
        /\ todo[w] \in Nat /\ Size[m] \in Nat /\ FrameLen(m) \in Nat
        /\ FrameLen(m) = 2 + Size[m]
    BY FrameLenType DEF IInv, TypeOK, WritePayload
  <1>2. /\ ~werr /\ stream # <<>> /\ todo[w] <= Size[m] /\ todo[w] # 0
        /\ stream[Len(stream)] = PieceOf(m, FrameLen(m) - todo[w])
    BY <1>1 DEF IInv, PlaceInFrame, InFrame
  <1>3. \A v \in Writers : v # w => ~InFrame(v) /\ ~Holding(v)
    BY <1>1 DEF IInv, LockHeld, Holding, InFrame
  <1>4. CASE Buffered < BufSize
    <2>1. /\ u \in Piece /\ u.msg = m /\ u.part = FrameLen(m) + 1 - todo[w]
      BY <1>1, <1>2, PieceType
    <2>2. Continues(stream[Len(stream)], u)
      BY <1>1, <1>2 DEF Continues, PieceOf
    <2>3. stream' = Append(stream, u)
      BY <1>4 DEF WritePayload
    <2>4. /\ stream' \in Seq(Piece) /\ stream' # <<>> /\ Len(stream') = Len(stream) + 1
          /\ stream'[Len(stream')] = u /\ \A i \in 1..Len(stream') : Seam(stream', i)
      <3>1. /\ Append(stream, u) \in Seq(Piece) /\ Append(stream, u) # <<>>
            /\ Len(Append(stream, u)) = Len(stream) + 1
            /\ Append(stream, u)[Len(stream) + 1] = u
            /\ \A i \in 1..Len(Append(stream, u)) : Seam(Append(stream, u), i)
        BY <1>1, <1>2, <2>1, <2>2, SeamAppend DEF IInv, Seamless
      <3> QED
        BY <3>1, <2>3
    <2>5. TypeOK'
      <3>1. todo' \in [Writers -> Nat]
        <4>1. todo[w] - 1 \in Nat
          BY <1>1, <1>2
        <4>2. todo \in [Writers -> Nat] /\ todo' = [todo EXCEPT ![w] = todo[w] - 1]
          BY <1>4 DEF IInv, TypeOK, WritePayload
        <4> QED
          BY <4>1, <4>2
      <3>2. /\ pc' \in [Writers -> {"idle", "lock", "encode", "header", "payload",
                                   "drain", "flush"}]
            /\ UNCHANGED <<msg, lock, calls, acked, accepted, werr, sendDown, recvDown,
                           rpc, read, start, got>>
        BY <1>4 DEF IInv, TypeOK, WritePayload, readerVars, netVars
      <3>3. stream' \in Seq(Piece) /\ Len(stream) \in Nat /\ Len(stream') = Len(stream) + 1
        BY <1>1, <2>4
      <3>4. start \in Nat /\ read \in Nat /\ accepted \in Nat /\ accepted <= Len(stream')
        BY <3>3 DEF IInv, TypeOK
      <3> QED
        BY <3>1, <3>2, <3>3, <3>4 DEF IInv, TypeOK
    <2>6. LockHeld'
      BY <1>1, <1>4 DEF IInv, TypeOK, LockHeld, Holding, InFrame, WritePayload
    <2>7. Settled'
      BY <1>1, <1>4 DEF IInv, TypeOK, Settled, InFrame, WritePayload
    <2>8. Seamless'
      BY <2>4 DEF Seamless, Seam, Continues
    <2>9. ASSUME NEW v \in Writers PROVE PlaceInFrame(v)'
      <3>1. CASE v = w
        <4>1. /\ todo'[w] = todo[w] - 1 /\ msg' = msg /\ werr' = werr
              /\ pc'[w] = IF todo[w] = 1 THEN "flush" ELSE "payload"
          BY <1>1, <1>4 DEF IInv, TypeOK, WritePayload
        <4>2. FrameLen(m) - (todo[w] - 1) = FrameLen(m) + 1 - todo[w]
          BY <1>1
        <4>3. PICK l \in Nat, t \in Nat : l = FrameLen(m) /\ t = todo[w] /\ t # 0 /\ t <= Size[m]
          BY <1>1, <1>2
        <4>4. t - 1 \in Nat /\ t - 1 <= Size[m] /\ (t = 1 <=> t - 1 = 0)
          BY <1>1, <4>3
        <4>5. stream' # <<>> /\ stream'[Len(stream')] = PieceOf(m, l - (t - 1))
          BY <2>4, <4>2, <4>3
        <4> QED
          BY <3>1, <4>1, <4>3, <4>4, <4>5, <1>1, <1>2 DEF PlaceInFrame, InFrame
      <3>2. CASE v # w
        BY <3>2, <1>3, <1>4 DEF IInv, TypeOK, PlaceInFrame, InFrame, WritePayload
      <3> QED
        BY <3>1, <3>2
    <2> QED
      BY <2>5, <2>6, <2>7, <2>8, <2>9 DEF IInv
  <1>5. CASE ~(Buffered < BufSize)
    <2>1. TypeOK'
      BY <1>5 DEF IInv, TypeOK, WritePayload, readerVars, netVars
    <2>2. LockHeld'
      BY <1>1, <1>5 DEF IInv, TypeOK, LockHeld, Holding, InFrame, WritePayload
    <2>3. Settled'
      BY <1>1, <1>5 DEF IInv, TypeOK, Settled, InFrame, WritePayload
    <2>4. Seamless'
      BY <1>5 DEF IInv, Seamless, Seam, Continues, WritePayload
    <2>5. ASSUME NEW v \in Writers PROVE PlaceInFrame(v)'
      BY <1>1, <1>2, <1>5 DEF IInv, TypeOK, PlaceInFrame, InFrame, PieceOf, WritePayload
    <2> QED
      BY <2>1, <2>2, <2>3, <2>4, <2>5 DEF IInv
  <1> QED
    BY <1>4, <1>5

\* The calls between the bufio.Writer and the transport.
LEMMA TransportStep ==
  ASSUME IInv, NEW w \in Writers,
         Transmit(w) \/ WriteFails(w) \/ Drained(w) \/ Flushed(w)
  PROVE  IInv'
  <1>1. InFrame(w) /\ lock = w
    BY DEF IInv, LockHeld, Holding, InFrame, Transmit, WriteFails, Drained, Flushed
  <1>2. \A v \in Writers : v # w => ~InFrame(v) /\ ~Holding(v)
    BY <1>1 DEF IInv, LockHeld, Holding
  <1>3. TypeOK'
    <2>1. CASE Transmit(w)
      BY <2>1 DEF IInv, TypeOK, Transmit, Buffered, callVars, readerVars, netVars
    <2>2. CASE WriteFails(w)
      BY <2>2 DEF IInv, TypeOK, WriteFails, Return, readerVars, netVars
    <2>3. CASE Drained(w)
      BY <2>3 DEF IInv, TypeOK, Drained, readerVars, netVars
    <2>4. CASE Flushed(w)
      BY <2>4 DEF IInv, TypeOK, Flushed, Return, readerVars, netVars
    <2> QED
      BY <2>1, <2>2, <2>3, <2>4
  <1>4. LockHeld'
    BY <1>1, <1>2 DEF IInv, TypeOK, LockHeld, Holding, InFrame, Transmit, WriteFails,
                      Drained, Flushed, Return, callVars
  <1>5. Settled'
    <2>1. CASE Transmit(w) \/ Drained(w)
      BY <1>1, <2>1 DEF IInv, TypeOK, Settled, InFrame, Transmit, Drained, callVars
    <2>2. CASE WriteFails(w)
      BY <2>2 DEF Settled, WriteFails
    <2>3. CASE Flushed(w)
      <3>1. /\ msg[w] \in Messages /\ todo[w] = 0 /\ FrameLen(msg[w]) \in Nat
            /\ FrameLen(msg[w]) # 0
            /\ stream[Len(stream)] = PieceOf(msg[w], FrameLen(msg[w]))
        BY <1>1, <2>3, FrameLenType DEF IInv, TypeOK, PlaceInFrame, Flushed
      <3>2. stream[Len(stream)].part = FrameLen(stream[Len(stream)].msg)
        BY <3>1, PieceType
      <3> QED
        BY <2>3, <3>2 DEF IInv, TypeOK, Settled, Flushed, Return, Buffered
    <2> QED
      BY <2>1, <2>2, <2>3
  <1>6. Seamless'
    BY DEF IInv, Seamless, Seam, Continues, Transmit, WriteFails, Drained, Flushed
  <1>7. ASSUME NEW v \in Writers PROVE PlaceInFrame(v)'
    <2>1. CASE v = w
      BY <1>1, <2>1 DEF IInv, TypeOK, PlaceInFrame, InFrame, Transmit, WriteFails,
                        Drained, Flushed, Return, callVars
    <2>2. CASE v # w
      BY <1>2, <2>2 DEF IInv, TypeOK, PlaceInFrame, InFrame, Transmit, WriteFails,
                        Drained, Flushed, Return, callVars
    <2> QED
      BY <2>1, <2>2
  <1> QED
    BY <1>3, <1>4, <1>5, <1>6, <1>7 DEF IInv

\* What ReadControlMessage returns is a verdict on a message.
LEMMA VerdictType ==
  ASSUME TypeOK, WholeMessage
  PROVE  Decide(SubSeq(stream, start + 1, read)) \in Verdicts \X Messages
  <1> DEFINE s == SubSeq(stream, start + 1, read)
             m == s[1].msg
  <1>1. /\ start \in Nat /\ read \in Nat /\ stream \in Seq(Piece)
        /\ read - start >= 2 /\ read <= Len(stream)
    BY DEF WholeMessage, Consumed, TypeOK
  <1>2. start + 1 \in 1..Len(stream) /\ s[1] = stream[start + 1]
    BY <1>1
  <1>3. m \in Messages
    <2>1. stream[start + 1] \in Piece
      BY <1>1, <1>2
    <2> QED
      BY <1>2, <2>1 DEF Piece
  <1>4. AnswerOf[Kind[m]] \in Verdicts
    <2>1. Kind[m] \in Kinds
      BY <1>3
    <2>2. /\ AnswerOf["setup"] = "message"
          /\ AnswerOf["unsupported"] = "PROTOCOL_VIOLATION"
          /\ AnswerOf["malformed"] = "decode error"
          /\ AnswerOf["missized"] = "PROTOCOL_VIOLATION"
          /\ AnswerOf["unencodable"] = "never sent"
      BY DEF AnswerOf
    <2> QED
      BY <2>1, <2>2 DEF Kinds, Verdicts
  <1>5. Answer[m] \in Verdicts \X Messages
    BY <1>3, <1>4 DEF Answer
  <1>6. <<"garbled", m>> \in Verdicts \X Messages
    BY <1>3 DEF Verdicts
  <1> QED
    BY <1>5, <1>6 DEF Decide

LEMMA ReaderStep ==
  ASSUME IInv, ReadCall \/ Reader
  PROVE  IInv'
  <1>1. TypeOK'
    <2>1. CASE ReadReturns
      BY <2>1, VerdictType DEF IInv, TypeOK, ReadReturns, senderVars, callVars, netVars
    <2>2. CASE ReadCall \/ ReadPiece \/ ReadFails
      BY <2>2 DEF IInv, TypeOK, ReadCall, ReadPiece, ReadFails, senderVars, callVars, netVars
    <2> QED
      BY <2>1, <2>2 DEF Reader
  <1>2. UNCHANGED senderVars
    BY DEF ReadCall, Reader, ReadPiece, ReadReturns, ReadFails
  <1> QED
    BY <1>1, <1>2 DEF IInv, LockHeld, Holding, InFrame, Settled, Seamless, Seam,
       Continues, PlaceInFrame, senderVars, callVars

LEMMA NetworkStep ==
  ASSUME IInv, SendStops \/ SendRecovers \/ RecvStops \/ SenderLearns \/ UNCHANGED vars
  PROVE  IInv'
  <1>1. UNCHANGED <<senderVars, readerVars>> /\ <<sendDown, recvDown>>' \in BOOLEAN \X BOOLEAN
    BY DEF IInv, TypeOK, SendStops, SendRecovers, RecvStops, SenderLearns, vars, netVars
  <1> QED
    BY <1>1 DEF IInv, TypeOK, LockHeld, Holding, InFrame, Settled, Seamless, Seam,
       Continues, PlaceInFrame, senderVars, callVars, readerVars

LEMMA Inductive == IInv /\ [Next]_vars => IInv'
  <1> SUFFICES ASSUME IInv, [Next]_vars PROVE IInv'
    OBVIOUS
  <1>1. ASSUME NEW w \in Writers, (\E m \in Messages : Call(w, m)) \/ Lock(w) \/ Progress(w)
        PROVE  IInv'
    BY <1>1, CallStep, HeaderStep, PayloadStep, TransportStep DEF Progress
  <1> QED
    BY <1>1, ReaderStep, NetworkStep DEF Next

THEOREM Invariance == Spec => []IInv
  BY InitInv, Inductive, PTL DEF Spec

-----------------------------------------------------------------------------
(* What follows *)

\* Every variable keeps its type, and the cursors stay in the order the bytes
\* go: read, accepted by the transport, buffered.
THEOREM TypeCorrect == Spec => []TypeOK
  <1>1. IInv => TypeOK
    BY DEF IInv
  <1> QED
    BY <1>1, Invariance, PTL

\* However many goroutines share the factory, and whatever fails, the stream
\* carries whole frames and at most one prefix of a frame at its end.
THEOREM Framing == Spec => []FramesIntact
  <1>1. IInv => FramesIntact
    BY DEF IInv, TypeOK, Seamless, FramesIntact
  <1> QED
    BY <1>1, Invariance, PTL

\* No call leaves bytes behind for a later call to send.
THEOREM CleanHandover == Spec => []NothingLeftBehind
  <1>1. IInv => NothingLeftBehind
    <2> SUFFICES ASSUME IInv, lock = NoWriter, ~werr PROVE Buffered = 0
      BY DEF NothingLeftBehind
    <2>1. \A w \in Writers : ~InFrame(w)
      BY DEF IInv, LockHeld, Holding
    <2> QED
      BY <2>1 DEF IInv, TypeOK, Settled, Buffered
  <1> QED
    BY <1>1, Invariance, PTL

\* After a Write failed inside a frame, the torn frame is the last thing sent.
THEOREM Torn == Spec => TornIsLast
  <1>1. IInv /\ [Next]_vars => (werr => accepted' = accepted)
    <2> SUFFICES ASSUME IInv, [Next]_vars, werr PROVE accepted' = accepted
      OBVIOUS
    <2>1. ASSUME NEW w \in Writers PROVE ~Transmit(w)
      BY DEF IInv, PlaceInFrame, InFrame, Transmit
    <2> QED
      BY <2>1 DEF Next, Progress, Call, Lock, Encode, HeaderFails, WriteHeader,
         WritePayload, WriteFails, Drained, Flushed, ReadCall, Reader, ReadPiece,
         ReadReturns, ReadFails, SendStops, SendRecovers, RecvStops, SenderLearns,
         vars, senderVars, readerVars, netVars
  <1> QED
    BY <1>1, Invariance, PTL DEF Spec, TornIsLast
=============================================================================
