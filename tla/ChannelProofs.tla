---------------------------- MODULE ChannelProofs ----------------------------
(***************************************************************************)
(* Proof that ControlStream implements MessageChannel: where the frames of *)
(* the messages sent lie on the stream, and where the reader stands.       *)
(***************************************************************************)
EXTENDS ControlStreamProofs, DataLemmas

USE NoWriterAssumption, MessagesAssumption, SizeAssumption, KindAssumption,
    BufSizeAssumption, WindowAssumption, TransientAssumption, MaxCallsAssumption

-----------------------------------------------------------------------------
(* The invariant *)

N == Len(Carried)

\* at[k] is where the frame of the k-th message ends.
Layout(at) ==
    /\ at \in [0..N -> Nat] /\ at[0] = 0
    /\ \A k \in 0..N : at[k] <= accepted
    /\ \A k \in 1..N : /\ at[k] = at[k - 1] + FrameLen(Carried[k])
                       /\ \A p \in 1..FrameLen(Carried[k]) :
                            stream[at[k - 1] + p] = PieceOf(Carried[k], p)

\* What follows is part of a frame of m that is not whole on the wire.
Ragged(at, m) ==
    /\ accepted < at[N] + FrameLen(m)
    /\ \A p \in 1..(Len(stream) - at[N]) : stream[at[N] + p] = PieceOf(m, p)

\* A call in its frame is the one that wrote that part.
Owner(at, m) ==
    /\ (\A w \in Writers : ~InFrame(w)) /\ ~werr => Len(stream) = at[N]
    /\ InFlight => Len(stream) = at[N]
    /\ \A w \in Writers :
        InFrame(w) /\ ~InFlight =>
            m = msg[w] /\ Len(stream) = at[N] + FrameLen(m) - todo[w]

\* The reader's calls begin at the end of a frame, the one after the last that
\* was answered.
Place(at) ==
    /\ Len(got) <= N
    /\ rpc = "idle" => read = at[Len(got)]
    /\ rpc = "reading" => start = at[Len(got)]

Placed(at, m) == Layout(at) /\ Ragged(at, m) /\ Owner(at, m) /\ Place(at)

CInv == \E m \in Messages : \E at \in [0..N -> Nat] : Placed(at, m)

-----------------------------------------------------------------------------
(* Who is in flight *)

LEMMA Alone ==
  ASSUME IInv, NEW w \in Writers, Holding(w)
  PROVE  /\ lock = w
         /\ \A v \in Writers : v # w => ~InFrame(v) /\ ~Holding(v)
         /\ InFlight <=> pc[w] = "flush" /\ Buffered = 0
  BY DEF IInv, LockHeld, Holding, InFrame, InFlight

LEMMA CarriedType ==
  ASSUME IInv
  PROVE  Carried \in Seq(Messages) /\ N \in Nat
  <1>1. CASE InFlight
    <2>1. PICK w \in Writers : pc[w] = "flush"
      BY <1>1 DEF InFlight
    <2>2. lock = w
      BY <2>1 DEF IInv, LockHeld, Holding, InFrame
    <2>3. msg[lock] \in Messages /\ acked \in Seq(Messages)
      BY <2>2 DEF IInv, TypeOK
    <2> QED
      BY <1>1, <2>3 DEF Carried, N
  <1>2. CASE ~InFlight
    BY <1>2 DEF Carried, N, IInv, TypeOK
  <1> QED
    BY <1>1, <1>2

\* What was sent changes when the last byte of a frame goes, and only then.
LEMMA CarriedSame ==
  ASSUME IInv, acked' = acked, InFlight' <=> InFlight, InFlight => msg'[lock'] = msg[lock]
  PROVE  Carried' = Carried /\ N' = N
  BY DEF Carried, N

LEMMA Member ==
  ASSUME NEW s \in Seq(Messages), NEW k \in 1..Len(s)
  PROVE  s[k] \in Messages
  OBVIOUS

\* The frames that were laid lie on the wire.
LEMMA Inside ==
  ASSUME IInv, NEW at \in [0..N -> Nat], Layout(at), NEW k \in 1..N
  PROVE  /\ Carried[k] \in Messages /\ FrameLen(Carried[k]) \in Nat
         /\ at[k - 1] \in Nat /\ at[k] \in Nat /\ at[N] \in Nat
         /\ at[k] = at[k - 1] + FrameLen(Carried[k])
         /\ at[k] <= accepted /\ at[N] <= accepted
         /\ \A p \in 1..FrameLen(Carried[k]) :
                at[k - 1] + p \in 1..accepted /\ at[k - 1] + p \in 1..Len(stream)
  <1>1. N \in Nat /\ Carried \in Seq(Messages) /\ N = Len(Carried)
    BY CarriedType DEF N
  <1>2. Carried[k] \in Messages
    BY <1>1, Member
  <1>3. FrameLen(Carried[k]) \in Nat
    BY <1>2, FrameLenType
  <1>4. k - 1 \in 0..N /\ k \in 0..N /\ N \in 0..N
    BY <1>1
  <1>5. at[k - 1] \in Nat /\ at[k] \in Nat /\ at[N] \in Nat
    BY <1>4
  <1>6. at[k] = at[k - 1] + FrameLen(Carried[k]) /\ at[k] <= accepted /\ at[N] <= accepted
    BY <1>4 DEF Layout
  <1>7. accepted \in Nat /\ Len(stream) \in Nat /\ accepted <= Len(stream)
    BY DEF IInv, TypeOK
  <1>8. ASSUME NEW p \in 1..FrameLen(Carried[k])
        PROVE  at[k - 1] + p \in 1..accepted /\ at[k - 1] + p \in 1..Len(stream)
    <2>1. PICK a \in Nat, l \in Nat, b \in Nat, n \in Nat :
              a = at[k - 1] /\ l = FrameLen(Carried[k]) /\ b = accepted /\ n = Len(stream)
      BY <1>3, <1>5, <1>7
    <2>2. p \in 1..l /\ a + l <= b /\ b <= n
      BY <1>6, <1>7, <2>1
    <2>3. a + p \in 1..b /\ a + p \in 1..n
      BY <2>2
    <2> QED
      BY <2>1, <2>3
  <1> QED
    BY <1>2, <1>3, <1>5, <1>6, <1>8

LEMMA CInit == Init => CInv
  <1> SUFFICES ASSUME Init PROVE CInv
    OBVIOUS
  <1>1. PICK m \in Messages : TRUE
    OBVIOUS
  <1> DEFINE at == [k \in 0..0 |-> 0]
  <1>2. ~InFlight /\ Carried = <<>> /\ N = 0
    BY DEF Init, InFlight, Carried, N
  <1>3. at \in [0..N -> Nat] /\ at[0] = 0
    BY <1>2
  <1>4. FrameLen(m) \in Nat /\ FrameLen(m) >= 2
    BY FrameLenType
  <1>5. accepted = 0 /\ stream = <<>> /\ Len(stream) = 0 /\ got = <<>> /\ Len(got) = 0
        /\ rpc = "idle" /\ read = 0
    BY DEF Init
  <1> HIDE DEF at
  <1>6. Layout(at)
    BY <1>2, <1>3, <1>5 DEF Layout
  <1>7. Ragged(at, m)
    BY <1>2, <1>3, <1>4, <1>5 DEF Ragged
  <1>8. Owner(at, m)
    BY <1>2, <1>3, <1>5 DEF Owner, Init, InFrame
  <1>9. Place(at)
    BY <1>2, <1>3, <1>5 DEF Place
  <1> QED
    BY <1>3, <1>6, <1>7, <1>8, <1>9 DEF CInv, Placed

-----------------------------------------------------------------------------
(* One lemma per kind of step.  Beside the invariant each says what the step *)
(* is to the abstract channel.                                               *)

\* The frames stay where they are, and so does their end.
LEMMA Keep ==
  ASSUME NEW m \in Messages, NEW at \in [0..N -> Nat], Placed(at, m),
         Carried' = Carried, N' = N, UNCHANGED <<stream, accepted>>,
         Owner(at, m)', Place(at)'
  PROVE  CInv'
  BY DEF CInv, Placed, Layout, Ragged

LEMMA KeepPlace ==
  ASSUME NEW at, Place(at), N' = N, UNCHANGED readerVars
  PROVE  Place(at)'
  BY DEF Place, readerVars

\* A call that is not in its frame, before and after.
LEMMA CallKeeps ==
  ASSUME IInv, CInv, NEW w \in Writers,
         \/ \E m \in Messages : Call(w, m)
         \/ Lock(w) \/ Encode(w) \/ HeaderFails(w)
  PROVE  CInv' /\ Carried' = Carried
  <1>1. /\ UNCHANGED <<stream, accepted, acked, werr, readerVars>>
        /\ pc[w] \notin {"payload", "drain", "flush"}
        /\ pc'[w] \notin {"payload", "drain", "flush"}
        /\ \A v \in Writers : v # w => pc'[v] = pc[v] /\ msg'[v] = msg[v] /\ todo'[v] = todo[v]
    BY DEF Call, Lock, Encode, HeaderFails, Return, IInv, TypeOK, readerVars
  <1>2. \A v \in Writers : InFrame(v)' = InFrame(v)
    BY <1>1 DEF InFrame
  <1>3. InFlight' = InFlight
    BY <1>1 DEF InFlight, Buffered
  <1>4. InFlight => lock' = lock /\ lock \in Writers /\ lock # w
    <2> SUFFICES ASSUME InFlight PROVE lock' = lock /\ lock \in Writers /\ lock # w
      OBVIOUS
    <2>1. PICK v \in Writers : pc[v] = "flush"
      BY DEF InFlight
    <2>2. lock = v /\ v # w
      BY <1>1, <2>1 DEF IInv, LockHeld, Holding, InFrame
    <2> QED
      BY <2>2 DEF Call, Lock, Encode, HeaderFails, Return, IInv, LockHeld, Holding, InFrame
  <1>5. Carried' = Carried /\ N' = N
    BY <1>1, <1>3, <1>4, CarriedSame
  <1>6. PICK m \in Messages, at \in [0..N -> Nat] : Placed(at, m)
    BY DEF CInv
  <1>7. Owner(at, m)'
    BY <1>1, <1>2, <1>3, <1>5, <1>6 DEF Owner, Placed, InFrame
  <1>8. Place(at)'
    BY <1>1, <1>5, <1>6, KeepPlace DEF Placed
  <1> QED
    BY <1>1, <1>5, <1>6, <1>7, <1>8, Keep

\* Pieces put behind the others move no frame.
LEMMA LayoutGrows ==
  ASSUME IInv, NEW at \in [0..N -> Nat], Layout(at),
         Carried' = Carried, N' = N, accepted' = accepted,
         \A i \in 1..Len(stream) : stream'[i] = stream[i]
  PROVE  Layout(at)'
  <1>1. ASSUME NEW k \in 1..N, NEW p \in 1..FrameLen(Carried[k])
        PROVE  at[k - 1] + p \in 1..Len(stream)
    BY Inside
  <1> QED
    BY <1>1 DEF Layout

LEMMA HeaderKeeps ==
  ASSUME IInv, CInv, NEW w \in Writers, WriteHeader(w)
  PROVE  CInv' /\ Carried' = Carried
  <1>0. PICK n \in Messages : n = msg[w]
    BY DEF IInv, TypeOK
  <1>1. /\ n \in Messages /\ stream \in Seq(Piece) /\ accepted \in Nat
        /\ todo[w] = Size[n] /\ pc[w] = "header" /\ ~werr
    BY <1>0 DEF WriteHeader, IInv, TypeOK, PlaceInFrame
  <1>2. FrameLen(n) \in Nat /\ FrameLen(n) = 2 + Size[n] /\ Size[n] \in Nat
    BY <1>1, FrameLenType
  <1>3. /\ ~InFlight /\ \A v \in Writers : ~InFrame(v) /\ (v # w => ~Holding(v))
    <2>1. Holding(w)
      BY <1>1 DEF Holding
    <2> QED
      BY <2>1, <1>1, Alone DEF InFrame
  <1>4. accepted = Len(stream)
    BY <1>1, <1>3 DEF IInv, Settled
  <1>5. /\ stream' \in Seq(Piece) /\ Len(stream') = Len(stream) + 2
        /\ stream'[Len(stream) + 1] = PieceOf(n, 1) /\ stream'[Len(stream) + 2] = PieceOf(n, 2)
        /\ \A i \in 1..Len(stream) : stream'[i] = stream[i]
    <2>1. PieceOf(n, 1) \in Piece /\ PieceOf(n, 2) \in Piece
      BY <1>1, PieceType
    <2> QED
      BY <1>0, <1>1, <2>1 DEF WriteHeader
  <1>6. /\ UNCHANGED <<accepted, acked, werr, lock, msg, todo, readerVars>>
        /\ pc'[w] = (IF todo[w] = 0 THEN "flush" ELSE "payload")
        /\ \A v \in Writers : v # w => pc'[v] = pc[v]
    BY DEF WriteHeader, IInv, TypeOK
  <1>7. ~InFlight'
    BY <1>1, <1>4, <1>5, <1>6 DEF InFlight, Buffered
  <1>8. Carried' = Carried /\ N' = N
    BY <1>3, <1>6, <1>7, CarriedSame
  <1>9. PICK m \in Messages, at \in [0..N -> Nat] : Placed(at, m)
    BY DEF CInv
  <1>10. N \in Nat /\ at[N] \in Nat /\ Len(stream) = at[N]
    BY <1>1, <1>3, <1>9, CarriedType DEF Placed, Owner
  <1>11. Layout(at)'
    BY <1>5, <1>6, <1>8, <1>9, LayoutGrows DEF Placed
  <1>12. Ragged(at, n)'
    <2>1. accepted' < at[N'] + FrameLen(n)
      BY <1>2, <1>4, <1>6, <1>8, <1>10
    <2>2. ASSUME NEW p \in 1..(Len(stream') - at[N']) PROVE stream'[at[N'] + p] = PieceOf(n, p)
      <3>1. p = 1 \/ p = 2
        BY <1>5, <1>8, <1>10
      <3> QED
        BY <3>1, <1>5, <1>8, <1>10
    <2> QED
      BY <2>1, <2>2, <1>6 DEF Ragged
  <1>13. Owner(at, n)'
    <2>1. InFrame(w)' /\ \A v \in Writers : v # w => ~InFrame(v)'
      BY <1>1, <1>3, <1>6 DEF InFrame
    <2>2. Len(stream') = at[N'] + FrameLen(n) - todo'[w] /\ n = msg'[w]
      BY <1>0, <1>1, <1>2, <1>5, <1>6, <1>8, <1>10
    <2> QED
      BY <2>1, <2>2, <1>7 DEF Owner
  <1>14. Place(at)'
    BY <1>6, <1>8, <1>9, KeepPlace DEF Placed
  <1>15. CInv'
    BY <1>1, <1>8, <1>9, <1>11, <1>12, <1>13, <1>14 DEF CInv, Placed
  <1> QED
    BY <1>8, <1>15

LEMMA PayloadKeeps ==
  ASSUME IInv, CInv, NEW w \in Writers, WritePayload(w)
  PROVE  CInv' /\ Carried' = Carried
  <1>0. PICK n \in Messages : n = msg[w]
    BY DEF IInv, TypeOK
  <1>1. /\ stream \in Seq(Piece) /\ accepted \in Nat /\ accepted <= Len(stream)
        /\ todo[w] \in Nat /\ todo[w] # 0 /\ pc[w] = "payload" /\ ~werr
    BY DEF WritePayload, IInv, TypeOK, PlaceInFrame, InFrame
  <1>2. FrameLen(n) \in Nat /\ FrameLen(n) = 2 + Size[n] /\ Size[n] \in Nat /\ todo[w] <= Size[n]
    BY <1>0, <1>1, FrameLenType DEF IInv, PlaceInFrame, InFrame
  <1>3. /\ ~InFlight /\ InFrame(w)
        /\ \A v \in Writers : v # w => ~InFrame(v) /\ ~Holding(v)
    <2>1. Holding(w) /\ InFrame(w)
      BY <1>1 DEF Holding, InFrame
    <2> QED
      BY <2>1, <1>1, Alone
  <1>4. PICK m \in Messages, at \in [0..N -> Nat] : Placed(at, m)
    BY DEF CInv
  <1>5. m = n /\ N \in Nat /\ at[N] \in Nat /\ Len(stream) = at[N] + FrameLen(n) - todo[w]
    BY <1>0, <1>3, <1>4, CarriedType DEF Placed, Owner
  <1>6. CASE Buffered < BufSize
    <2>1. /\ UNCHANGED <<accepted, acked, werr, lock, msg, readerVars>>
          /\ pc'[w] \in {"flush", "payload"} /\ todo'[w] = todo[w] - 1
          /\ \A v \in Writers : v # w => pc'[v] = pc[v] /\ todo'[v] = todo[v]
      BY <1>6 DEF WritePayload, IInv, TypeOK
    <2>2. /\ stream' \in Seq(Piece) /\ Len(stream') = Len(stream) + 1
          /\ stream'[Len(stream) + 1] = PieceOf(n, FrameLen(n) + 1 - todo[w])
          /\ \A i \in 1..Len(stream) : stream'[i] = stream[i]
      <3>1. PieceOf(n, FrameLen(n) + 1 - todo[w]) \in Piece
        BY <1>1, <1>2, PieceType
      <3>2. stream' = Append(stream, PieceOf(n, FrameLen(n) + 1 - todo[w]))
        BY <1>0, <1>6 DEF WritePayload
      <3> QED
        BY <1>1, <3>1, <3>2
    <2>3. ~InFlight'
      <3>1. Len(stream') - accepted' # 0
        BY <1>1, <2>1, <2>2
      <3> QED
        BY <3>1 DEF InFlight, Buffered
    <2>4. Carried' = Carried /\ N' = N
      BY <1>3, <2>1, <2>3, CarriedSame
    <2>5. Layout(at)'
      BY <1>4, <2>1, <2>2, <2>4, LayoutGrows DEF Placed
    <2>6. Ragged(at, n)'
      <3>1. accepted' < at[N'] + FrameLen(n)
        BY <1>4, <1>5, <2>1, <2>4 DEF Placed, Ragged
      <3>2. ASSUME NEW p \in 1..(Len(stream') - at[N'])
            PROVE  stream'[at[N'] + p] = PieceOf(n, p)
        <4>1. CASE p \in 1..(Len(stream) - at[N])
          <5>1. stream[at[N] + p] = PieceOf(n, p)
            BY <4>1, <1>4, <1>5 DEF Placed, Ragged
          <5>2. PICK e \in Nat, l \in Nat : e = at[N] /\ l = Len(stream)
            BY <1>1, <1>5
          <5>3. p \in 1..(l - e)
            BY <4>1, <5>2
          <5>4. e + p \in 1..l
            BY <5>3
          <5> QED
            BY <5>1, <5>2, <5>4, <2>2, <2>4
        <4>2. CASE p = Len(stream) + 1 - at[N]
          <5>1. at[N] \in Nat /\ Len(stream) \in Nat /\ FrameLen(n) \in Nat /\ todo[w] \in Nat
            BY <1>1, <1>2, <1>5
          <5>2. PICK e \in Nat, l \in Nat, f \in Nat, t \in Nat :
                  e = at[N] /\ l = Len(stream) /\ f = FrameLen(n) /\ t = todo[w]
            BY <5>1
          <5>6. l = e + f - t /\ p = l + 1 - e
            BY <4>2, <5>2, <1>5
          <5>3. p = f + 1 - t /\ e + p = l + 1
            BY <5>6
          <5>4. p = FrameLen(n) + 1 - todo[w] /\ at[N] + p = Len(stream) + 1
            BY <5>2, <5>3
          <5> QED
            BY <5>4, <2>2, <2>4
        <4>3. p \in 1..(Len(stream) - at[N]) \/ p = Len(stream) + 1 - at[N]
          <5>1. PICK e \in Nat, l \in Nat : e = at[N] /\ l = Len(stream)
            BY <1>1, <1>5
          <5>2. p \in 1..((l + 1) - e)
            BY <2>2, <2>4, <5>1
          <5>3. p \in 1..(l - e) \/ p = l + 1 - e
            BY <5>2
          <5> QED
            BY <5>1, <5>3
        <4> QED
          BY <4>1, <4>2, <4>3
      <3> QED
        BY <3>1, <3>2, <2>1 DEF Ragged
    <2>7. Owner(at, n)'
      <3>1. InFrame(w)' /\ \A v \in Writers : v # w => ~InFrame(v)'
        BY <1>3, <2>1 DEF InFrame
      <3>2. Len(stream') = at[N'] + FrameLen(n) - todo'[w] /\ n = msg'[w]
        <4>1. at[N] \in Nat /\ FrameLen(n) \in Nat /\ todo[w] \in Nat
          BY <1>1, <1>2, <1>5
        <4>2. PICK e \in Nat, f \in Nat, t \in Nat : e = at[N] /\ f = FrameLen(n) /\ t = todo[w]
          BY <4>1
        <4>3. Len(stream) = e + f - t /\ Len(stream') = Len(stream) + 1 /\ todo'[w] = t - 1
          BY <1>5, <2>1, <2>2, <4>2
        <4>4. Len(stream') = e + f - (t - 1)
          BY <4>2, <4>3
        <4>5. n = msg'[w]
          BY <1>0, <1>1, <1>2, <2>1
        <4> QED
          BY <2>4, <4>2, <4>3, <4>4, <4>5
      <3> QED
        BY <3>1, <3>2, <2>3 DEF Owner
    <2>8. Place(at)'
      BY <1>4, <2>1, <2>4, KeepPlace DEF Placed
    <2>9. CInv'
      BY <1>4, <2>4, <2>5, <2>6, <2>7, <2>8 DEF CInv, Placed
    <2> QED
      BY <2>4, <2>9
  <1>7. CASE ~(Buffered < BufSize)
    <2>1. /\ UNCHANGED <<stream, todo, accepted, acked, werr, lock, msg, readerVars>>
          /\ pc'[w] = "drain" /\ \A v \in Writers : v # w => pc'[v] = pc[v]
      BY <1>7 DEF WritePayload, IInv, TypeOK
    <2>2. ~InFlight'
      BY <1>3, <2>1 DEF InFlight, InFrame
    <2>3. Carried' = Carried /\ N' = N
      BY <1>3, <2>1, <2>2, CarriedSame
    <2>4. Owner(at, m)'
      <3>1. \A v \in Writers : InFrame(v)' = InFrame(v)
        BY <1>3, <2>1 DEF InFrame
      <3> QED
        BY <3>1, <1>3, <1>4, <2>1, <2>2, <2>3 DEF Placed, Owner
    <2>5. Place(at)'
      BY <1>4, <2>1, <2>3, KeepPlace DEF Placed
    <2> QED
      BY <1>4, <2>1, <2>3, <2>4, <2>5, Keep
  <1> QED
    BY <1>6, <1>7

\* The transport takes a piece: the last one of a frame sends the message.
LEMMA TransmitKeeps ==
  ASSUME IInv, CInv, NEW w \in Writers, Transmit(w)
  PROVE  CInv' /\ (Carried' = Carried \/ \E n \in Messages : Carried' = Append(Carried, n))
  <1>0. PICK n \in Messages : n = msg[w]
    BY DEF IInv, TypeOK
  <1>1. /\ Len(stream) \in Nat /\ accepted \in Nat /\ accepted < Len(stream)
        /\ accepted' = accepted + 1
        /\ UNCHANGED <<pc, msg, todo, lock, acked, stream, werr, readerVars>>
    BY DEF Transmit, Buffered, IInv, TypeOK, callVars
  <1>2. /\ FrameLen(n) \in Nat /\ FrameLen(n) >= 2 /\ todo[w] \in Nat
        /\ (todo[w] = 0 <=> pc[w] = "flush")
    <2>1. InFrame(w)
      BY DEF Transmit, InFrame
    <2> QED
      BY <1>0, <2>1, FrameLenType DEF IInv, TypeOK, PlaceInFrame
  <1>3. /\ ~InFlight /\ InFrame(w) /\ lock = w /\ pc[w] \in {"drain", "flush"}
        /\ \A v \in Writers : v # w => ~InFrame(v)
    <2>1. Holding(w) /\ InFrame(w)
      BY DEF Transmit, Holding, InFrame
    <2>2. Buffered # 0
      BY <1>1 DEF Buffered
    <2> QED
      BY <2>1, <2>2, Alone DEF Transmit
  <1>4. PICK m \in Messages, at \in [0..N -> Nat] : Placed(at, m)
    BY DEF CInv
  <1>5. /\ m = n /\ N \in Nat /\ at[N] \in Nat
        /\ Len(stream) = at[N] + FrameLen(n) - todo[w]
    BY <1>0, <1>3, <1>4, CarriedType DEF Placed, Owner
  <1>6. InFlight' <=> pc[w] = "flush" /\ accepted' = Len(stream)
    <2>1. InFlight' <=> pc[w] = "flush" /\ Len(stream) - accepted' = 0
      BY <1>1, <1>3 DEF InFlight, Buffered, InFrame
    <2> QED
      BY <2>1, <1>1
  <1>7. CASE ~InFlight'
    <2>1. Carried' = Carried /\ N' = N
      BY <1>1, <1>3, <1>7, CarriedSame
    <2>2. accepted' < at[N] + FrameLen(n)
      <3>1. CASE pc[w] = "flush"
        <4>1. PICK e \in Nat, f \in Nat, l \in Nat, a \in Nat :
                  e = at[N] /\ f = FrameLen(n) /\ l = Len(stream) /\ a = accepted
          BY <1>1, <1>2, <1>5
        <4>2. todo[w] = 0 /\ l = e + f - todo[w] /\ a < l /\ a + 1 # l
          BY <3>1, <4>1, <1>1, <1>2, <1>5, <1>6, <1>7
        <4>3. a + 1 < e + f
          BY <4>2
        <4> QED
          BY <1>1, <4>1, <4>3
      <3>2. CASE pc[w] # "flush"
        <4>1. PICK e \in Nat, f \in Nat, l \in Nat, a \in Nat, t \in Nat :
                  e = at[N] /\ f = FrameLen(n) /\ l = Len(stream) /\ a = accepted /\ t = todo[w]
          BY <1>1, <1>2, <1>5
        <4>2. t # 0 /\ l = e + f - t /\ a < l
          BY <3>2, <4>1, <1>1, <1>2, <1>5
        <4>3. a + 1 < e + f
          BY <4>2
        <4> QED
          BY <1>1, <4>1, <4>3
      <3> QED
        BY <3>1, <3>2
    <2>3. Layout(at)'
      BY <1>1, <1>4, <2>1 DEF Placed, Layout
    <2>4. Ragged(at, m)'
      BY <1>1, <1>4, <1>5, <2>1, <2>2 DEF Placed, Ragged
    <2>5. Owner(at, m)'
      BY <1>1, <1>3, <1>4, <1>7, <2>1 DEF Placed, Owner, InFrame
    <2>6. Place(at)'
      BY <1>1, <1>4, <2>1, KeepPlace DEF Placed
    <2> QED
      BY <1>4, <2>1, <2>3, <2>4, <2>5, <2>6 DEF CInv, Placed
  <1>8. CASE InFlight'
    <2>1. /\ Carried = acked /\ Carried \in Seq(Messages) /\ Len(Carried) = N
          /\ Carried' = Append(Carried, n)
      BY <1>0, <1>1, <1>3, <1>8, CarriedType DEF Carried, N
    <2>2. /\ N' = N + 1 /\ Carried'[N + 1] = n
          /\ \A k \in 1..N : Carried'[k] = Carried[k]
      BY <2>1 DEF N
    <2>3. /\ accepted' = Len(stream) /\ Len(stream) = at[N] + FrameLen(n)
      BY <1>2, <1>5, <1>6, <1>8
    <2> DEFINE new == [k \in 0..(N + 1) |-> IF k = N + 1 THEN Len(stream) ELSE at[k]]
    <2>4. PICK at2 \in [0..(N + 1) -> Nat] : at2 = new
      <3>1. ASSUME NEW k \in 0..(N + 1) PROVE new[k] \in Nat
        <4>1. CASE k = N + 1
          BY <4>1, <1>1
        <4>2. CASE k # N + 1
          <5>1. k \in 0..N
            BY <4>2, <1>5
          <5> QED
            BY <5>1, <4>2
        <4> QED
          BY <4>1, <4>2
      <3>2. new \in [0..(N + 1) -> Nat]
        BY <3>1
      <3> QED
        BY <3>2
    <2>5. at2[N + 1] = Len(stream) /\ \A k \in 0..N : at2[k] = at[k]
      BY <2>4, <1>5
    <2> HIDE DEF new
    <2>6. Layout(at2)'
      <3>1. at2 \in [0..N' -> Nat] /\ at2[0] = 0
        BY <2>2, <2>4, <2>5, <1>4, <1>5 DEF Placed, Layout
      <3>2. ASSUME NEW k \in 0..N' PROVE at2[k] <= accepted'
        <4>1. CASE k = N + 1
          BY <4>1, <2>3, <2>5, <1>1
        <4>2. CASE k \in 0..N
          BY <4>2, <2>5, <1>1, <1>4 DEF Placed, Layout
        <4> QED
          BY <4>1, <4>2, <2>2, <1>5
      <3>3. ASSUME NEW k \in 1..N'
            PROVE  /\ at2[k] = at2[k - 1] + FrameLen(Carried'[k])
                   /\ \A p \in 1..FrameLen(Carried'[k]) :
                        stream'[at2[k - 1] + p] = PieceOf(Carried'[k], p)
        <4>1. CASE k = N + 1
          <5>1. at2[k - 1] = at[N] /\ at2[k] = Len(stream) /\ Carried'[k] = n
            BY <4>1, <2>2, <2>5, <1>5
          <5>2. Len(stream) - at[N] = FrameLen(n)
            BY <1>2, <1>5, <2>3
          <5>3. \A p \in 1..FrameLen(n) : stream[at[N] + p] = PieceOf(n, p)
            BY <5>2, <1>4, <1>5 DEF Placed, Ragged
          <5> QED
            BY <5>1, <5>3, <1>1, <2>3
        <4>2. CASE k \in 1..N
          <5>1. k - 1 \in 0..N /\ k \in 0..N
            BY <4>2, <1>5
          <5>2. at2[k - 1] = at[k - 1] /\ at2[k] = at[k] /\ Carried'[k] = Carried[k]
            BY <5>1, <4>2, <2>2, <2>5
          <5> QED
            BY <5>2, <4>2, <1>1, <1>4 DEF Placed, Layout
        <4> QED
          BY <4>1, <4>2, <2>2, <1>5
      <3> QED
        BY <3>1, <3>2, <3>3 DEF Layout
    <2>7. Ragged(at2, n)'
      <3>1. at2[N'] = Len(stream)
        BY <2>2, <2>5
      <3> QED
        BY <3>1, <2>3, <1>1, <1>2 DEF Ragged
    <2>8. Owner(at2, n)'
      BY <1>1, <1>3, <1>8, <2>2, <2>5 DEF Owner, InFrame
    <2>9. Place(at2)'
      <3>1. Len(got) \in Nat /\ Len(got) <= N
        BY <1>4 DEF Placed, Place, IInv, TypeOK
      <3>2. Len(got) \in 0..N
        BY <3>1, <1>5
      <3>3. at2[Len(got)] = at[Len(got)]
        BY <3>2, <2>5
      <3>4. Place(at) /\ UNCHANGED <<rpc, read, start, got>>
        BY <1>1, <1>4 DEF Placed, readerVars
      <3>5. Len(got') <= N'
        BY <3>1, <3>4, <2>2, <1>5
      <3> QED
        BY <3>3, <3>4, <3>5 DEF Place
    <2>10. CInv'
      BY <2>2, <2>4, <2>6, <2>7, <2>8, <2>9 DEF CInv, Placed
    <2> QED
      BY <2>1, <2>10
  <1> QED
    BY <1>7, <1>8

\* A failed Write and a drained buffer send no message.
LEMMA FailureKeeps ==
  ASSUME IInv, CInv, NEW w \in Writers, WriteFails(w) \/ Drained(w)
  PROVE  CInv' /\ Carried' = Carried
  <1>1. /\ UNCHANGED <<stream, accepted, acked, msg, todo, readerVars>>
        /\ pc[w] \in {"drain", "flush"} /\ pc'[w] \in {"idle", "payload"}
        /\ \A v \in Writers : v # w => pc'[v] = pc[v]
        /\ pc'[w] = "idle" => werr'
        /\ pc'[w] = "payload" => werr' = werr
        /\ pc[w] = "drain" \/ Buffered # 0
    BY DEF WriteFails, Drained, Return, Buffered, IInv, TypeOK
  <1>2. /\ ~InFlight /\ InFrame(w) /\ ~werr
        /\ \A v \in Writers : v # w => ~InFrame(v)
    <2>1. Holding(w) /\ InFrame(w)
      BY <1>1 DEF Holding, InFrame
    <2> QED
      BY <2>1, <1>1, Alone DEF IInv, PlaceInFrame
  <1>3. ~InFlight'
    BY <1>1, <1>2 DEF InFlight, InFrame
  <1>4. Carried' = Carried /\ N' = N
    BY <1>1, <1>2, <1>3, CarriedSame
  <1>5. PICK m \in Messages, at \in [0..N -> Nat] : Placed(at, m)
    BY DEF CInv
  <1>6. Owner(at, m)'
    BY <1>1, <1>2, <1>3, <1>4, <1>5 DEF Placed, Owner, InFrame
  <1>7. Place(at)'
    BY <1>1, <1>4, <1>5, KeepPlace DEF Placed
  <1> QED
    BY <1>1, <1>4, <1>5, <1>6, <1>7, Keep

\* Returning nil moves the message from the flight to the acknowledged.
LEMMA FlushedKeeps ==
  ASSUME IInv, CInv, NEW w \in Writers, Flushed(w)
  PROVE  CInv' /\ Carried' = Carried
  <1>1. /\ UNCHANGED <<stream, accepted, msg, todo, werr, readerVars>>
        /\ pc[w] = "flush" /\ Buffered = 0 /\ pc'[w] = "idle"
        /\ \A v \in Writers : v # w => pc'[v] = pc[v]
        /\ acked' = Append(acked, msg[w])
    BY DEF Flushed, Return, IInv, TypeOK
  <1>2. /\ InFlight /\ lock = w
        /\ \A v \in Writers : v # w => ~InFrame(v)
    <2>1. Holding(w)
      BY <1>1 DEF Holding, InFrame
    <2> QED
      BY <2>1, <1>1, Alone
  <1>3. \A v \in Writers : ~InFrame(v)'
    BY <1>1, <1>2 DEF InFrame
  <1>4. ~InFlight'
    BY <1>3 DEF InFlight, InFrame
  <1>5. Carried' = Carried /\ N' = N
    BY <1>1, <1>2, <1>4 DEF Carried, N
  <1>6. PICK m \in Messages, at \in [0..N -> Nat] : Placed(at, m)
    BY DEF CInv
  <1>7. Owner(at, m)'
    BY <1>1, <1>2, <1>3, <1>4, <1>5, <1>6 DEF Placed, Owner
  <1>8. Place(at)'
    BY <1>1, <1>5, <1>6, KeepPlace DEF Placed
  <1> QED
    BY <1>1, <1>5, <1>6, <1>7, <1>8, Keep

\* While the sender does nothing only the reader's place can change.
LEMMA SenderStill ==
  ASSUME NEW m \in Messages, NEW at \in [0..N -> Nat], Placed(at, m),
         UNCHANGED senderVars, Place(at)'
  PROVE  CInv' /\ Carried' = Carried
  <1>1. UNCHANGED <<pc, msg, todo, lock, acked, stream, accepted, werr>>
    BY DEF senderVars, callVars
  <1>2. InFlight' = InFlight
    BY <1>1 DEF InFlight, Buffered
  <1>3. Carried' = Carried /\ N' = N
    BY <1>1, <1>2 DEF Carried, N
  <1>4. Owner(at, m)'
    BY <1>1, <1>2, <1>3 DEF Placed, Owner, InFrame
  <1> QED
    BY <1>1, <1>3, <1>4, Keep

LEMMA StillKeeps ==
  ASSUME CInv, UNCHANGED <<senderVars, readerVars>>
  PROVE  CInv' /\ Carried' = Carried
  <1>1. PICK m \in Messages, at \in [0..N -> Nat] : Placed(at, m)
    BY DEF CInv
  <1>2. N' = N
    BY DEF N, Carried, InFlight, Buffered, senderVars, callVars
  <1>3. Place(at)'
    BY <1>1, <1>2, KeepPlace DEF Placed
  <1> QED
    BY <1>1, <1>3, SenderStill

LEMMA ReadingKeeps ==
  ASSUME CInv, ReadCall \/ ReadPiece \/ ReadFails
  PROVE  CInv' /\ Carried' = Carried /\ got' = got
  <1>1. PICK m \in Messages, at \in [0..N -> Nat] : Placed(at, m)
    BY DEF CInv
  <1>2. UNCHANGED senderVars /\ got' = got
    BY DEF ReadCall, ReadPiece, ReadFails
  <1>3. N' = N
    BY <1>2 DEF N, Carried, InFlight, Buffered, senderVars, callVars
  <1>4. Place(at)'
    BY <1>1, <1>2, <1>3 DEF ReadCall, ReadPiece, ReadFails, Placed, Place
  <1> QED
    BY <1>1, <1>2, <1>4, SenderStill

-----------------------------------------------------------------------------
(* What a call that returns has read *)

LEMMA Slice ==
  ASSUME NEW s \in Seq(Piece), NEW i \in Nat, NEW l \in Nat, i + l <= Len(s)
  PROVE  SubSeq(s, i + 1, i + l) = [p \in 1..l |-> s[i + p]]
  <1>1. SubSeq(s, i + 1, i + l) \in Seq(Piece) /\ Len(SubSeq(s, i + 1, i + l)) = l
    OBVIOUS
  <1>2. \A p \in 1..l : SubSeq(s, i + 1, i + l)[p] = s[i + p]
    OBVIOUS
  <1> QED
    BY <1>1, <1>2

\* A whole message is there only where a whole frame lies: behind the last of
\* them the bytes end before the length they announce.
LEMMA WholeIsFrame ==
  ASSUME IInv, rpc = "reading", WholeMessage,
         NEW m \in Messages, NEW at \in [0..N -> Nat], Placed(at, m)
  PROVE  /\ Len(got) + 1 \in 1..N
         /\ read = at[Len(got) + 1]
         /\ SubSeq(stream, start + 1, read) = Frame(Carried[Len(got) + 1])
  <1>1. /\ N \in Nat /\ Carried \in Seq(Messages) /\ Len(got) \in Nat /\ Len(got) <= N
        /\ start = at[Len(got)] /\ start \in Nat /\ read \in Nat
        /\ read <= accepted /\ accepted \in Nat /\ Len(stream) \in Nat /\ accepted <= Len(stream)
        /\ stream \in Seq(Piece)
    BY CarriedType DEF Placed, Place, IInv, TypeOK
  <1>2. read - start >= 2 /\ read - start = 2 + LengthIn(stream[start + 2])
    BY DEF WholeMessage, Consumed
  <1>3. Len(got) # N
    <2> SUFFICES ASSUME Len(got) = N PROVE FALSE
      OBVIOUS
    <2>1. start = at[N] /\ accepted < start + FrameLen(m) /\ FrameLen(m) \in Nat
      BY <1>1, FrameLenType DEF Placed, Ragged
    <2>2. 2 \in 1..(Len(stream) - at[N])
      BY <1>1, <1>2, <2>1
    <2>3. stream[start + 2] = PieceOf(m, 2)
      BY <2>1, <2>2 DEF Placed, Ragged
    <2>4. LengthIn(stream[start + 2]) = Size[m] /\ FrameLen(m) = 2 + Size[m] /\ Size[m] \in Nat
      BY <2>3 DEF LengthIn, PieceOf, FrameLen
    <2> QED
      BY <1>1, <1>2, <2>1, <2>4
  <1>4. Len(got) + 1 \in 1..N
    BY <1>1, <1>3
  <1>5. PICK k \in 1..N : k = Len(got) + 1
    BY <1>4
  <1>6. k - 1 = Len(got)
    BY <1>1, <1>5
  <1>7. PICK n \in Messages : n = Carried[k]
    BY <1>1, Inside DEF Placed
  <1>8. /\ FrameLen(n) \in Nat /\ FrameLen(n) = 2 + Size[n] /\ FrameLen(n) >= 2 /\ Size[n] \in Nat
        /\ at[k] = start + FrameLen(n) /\ at[k] <= accepted
    <2>1. FrameLen(n) \in Nat /\ FrameLen(n) = 2 + Size[n] /\ FrameLen(n) >= 2 /\ Size[n] \in Nat
      BY FrameLenType
    <2>2. at[k] = at[k - 1] + FrameLen(Carried[k]) /\ at[k] <= accepted
      BY <1>1, Inside DEF Placed
    <2> QED
      BY <2>1, <2>2, <1>1, <1>6, <1>7
  <1>9. \A p \in 1..FrameLen(n) : stream[start + p] = PieceOf(n, p)
    BY <1>1, <1>6, <1>7 DEF Placed, Layout
  <1>10. read = at[k]
    <2>1. stream[start + 2] = PieceOf(n, 2)
      BY <1>8, <1>9
    <2>2. LengthIn(stream[start + 2]) = Size[n]
      BY <2>1 DEF LengthIn, PieceOf
    <2> QED
      BY <1>1, <1>2, <1>8, <2>2
  <1>11. SubSeq(stream, start + 1, read) = Frame(n)
    <2>1. read = start + FrameLen(n)
      BY <1>8, <1>10
    <2>2. start \in Nat /\ FrameLen(n) \in Nat /\ start + FrameLen(n) <= Len(stream)
          /\ stream \in Seq(Piece)
      BY <1>1, <1>8, <2>1
    <2>3. SubSeq(stream, start + 1, start + FrameLen(n))
            = [p \in 1..FrameLen(n) |-> stream[start + p]]
      BY <2>2, Slice
    <2> QED
      BY <2>1, <2>3, <1>9 DEF Frame
  <1> QED
    BY <1>4, <1>5, <1>7, <1>10, <1>11

\* Each call that returns answers the next message carried.
LEMMA ReturnAnswers ==
  ASSUME IInv, CInv, ReadReturns
  PROVE  /\ CInv' /\ Carried' = Carried
         /\ Len(got) < Len(Carried)
         /\ got' = Append(got, Answer[Carried[Len(got) + 1]])
  <1>1. PICK m \in Messages, at \in [0..N -> Nat] : Placed(at, m)
    BY DEF CInv
  <1>2. rpc = "reading" /\ WholeMessage
    BY DEF ReadReturns
  <1>3. N \in Nat /\ Carried \in Seq(Messages) /\ Len(got) \in Nat
    BY CarriedType DEF IInv, TypeOK
  <1>4. PICK k \in 1..N : k = Len(got) + 1
    BY <1>1, <1>2, WholeIsFrame
  <1>5. read = at[k] /\ SubSeq(stream, start + 1, read) = Frame(Carried[k])
    BY <1>1, <1>2, <1>4, WholeIsFrame
  <1>6. PICK n \in Messages : n = Carried[k]
    BY <1>1, Inside DEF Placed
  <1>7. Decide(Frame(n)) = Answer[n]
    <2>1. 1 \in 1..FrameLen(n)
      BY FrameLenType
    <2>2. Frame(n)[1].msg = n
      BY <2>1 DEF Frame, PieceOf
    <2> QED
      BY <2>2 DEF Decide
  <1>8. got' = Append(got, Answer[Carried[k]])
    BY <1>5, <1>6, <1>7 DEF ReadReturns
  <1>9. UNCHANGED senderVars /\ read' = read /\ rpc' = "idle"
    BY DEF ReadReturns
  <1>10. N' = N
    BY <1>9 DEF N, Carried, InFlight, Buffered, senderVars, callVars
  <1>11. Len(got') = k /\ k <= N
    BY <1>3, <1>4, <1>8 DEF IInv, TypeOK
  <1>12. Place(at)'
    BY <1>5, <1>9, <1>10, <1>11 DEF Place
  <1>13. CInv' /\ Carried' = Carried
    BY <1>1, <1>9, <1>12, SenderStill
  <1>14. Len(got) < Len(Carried)
    BY <1>3, <1>4 DEF N
  <1> QED
    BY <1>4, <1>8, <1>13, <1>14

-----------------------------------------------------------------------------
(* The refinement *)

LEMMA StepRefines ==
  ASSUME IInv, CInv, [Next]_vars
  PROVE  CInv' /\ [Channel!Next]_(Channel!vars)
  <1>1. CASE ReadReturns
    <2>1. UNCHANGED werr
      BY <1>1 DEF ReadReturns, senderVars
    <2> QED
      BY <1>1, <2>1, ReturnAnswers DEF Channel!Next, Channel!Receive
  <1>2. CASE ReadCall \/ ReadPiece \/ ReadFails
    <2>1. UNCHANGED werr
      BY <1>2 DEF ReadCall, ReadPiece, ReadFails, senderVars
    <2> QED
      BY <1>2, <2>1, ReadingKeeps DEF Channel!vars
  <1>3. CASE SendStops \/ SendRecovers \/ RecvStops \/ SenderLearns \/ UNCHANGED vars
    <2>1. UNCHANGED <<senderVars, readerVars>>
      BY <1>3 DEF SendStops, SendRecovers, RecvStops, SenderLearns, vars
    <2>2. UNCHANGED <<werr, got>>
      BY <2>1 DEF senderVars, readerVars
    <2> QED
      BY <2>1, <2>2, StillKeeps DEF Channel!vars
  <1>4. ASSUME NEW w \in Writers,
               \/ \E m \in Messages : Call(w, m)
               \/ Lock(w) \/ Encode(w) \/ HeaderFails(w)
        PROVE  CInv' /\ [Channel!Next]_(Channel!vars)
    <2>1. UNCHANGED <<werr, got>>
      BY <1>4 DEF Call, Lock, Encode, HeaderFails, readerVars
    <2> QED
      BY <1>4, <2>1, CallKeeps DEF Channel!vars
  <1>5. ASSUME NEW w \in Writers, WriteHeader(w) \/ WritePayload(w)
        PROVE  CInv' /\ [Channel!Next]_(Channel!vars)
    <2>1. UNCHANGED <<werr, got>>
      BY <1>5 DEF WriteHeader, WritePayload, readerVars
    <2> QED
      BY <1>5, <2>1, HeaderKeeps, PayloadKeeps DEF Channel!vars
  <1>6. ASSUME NEW w \in Writers, Transmit(w)
        PROVE  CInv' /\ [Channel!Next]_(Channel!vars)
    <2>1. UNCHANGED <<werr, got>> /\ ~werr
      BY <1>6 DEF Transmit, readerVars, IInv, PlaceInFrame, InFrame
    <2> QED
      BY <1>6, <2>1, TransmitKeeps DEF Channel!vars, Channel!Next, Channel!Send
  <1>7. ASSUME NEW w \in Writers, Drained(w) \/ Flushed(w)
        PROVE  CInv' /\ [Channel!Next]_(Channel!vars)
    <2>1. UNCHANGED <<werr, got>>
      BY <1>7 DEF Drained, Flushed, readerVars
    <2> QED
      BY <1>7, <2>1, FailureKeeps, FlushedKeeps DEF Channel!vars
  <1>8. ASSUME NEW w \in Writers, WriteFails(w)
        PROVE  CInv' /\ [Channel!Next]_(Channel!vars)
    <2>1. got' = got /\ werr' = TRUE
      BY <1>8 DEF WriteFails, readerVars
    <2>2. (~werr)' = FALSE
      BY <2>1
    <2> QED
      BY <1>8, <2>1, <2>2, FailureKeeps DEF Channel!Next, Channel!Close
  <1> QED
    BY <1>1, <1>2, <1>3, <1>4, <1>5, <1>6, <1>7, <1>8 DEF Next, Reader, Progress

\* Whatever the writers, the sizes, the buffer and the window, and wherever the
\* transport stops, the stream is a channel of whole messages: the reader is
\* answered once for each message sent, in the order of sending, and nothing is
\* sent after a Write failed (control_message.go:95-148 and :150-189).
THEOREM ImplementsChannel == Spec => ChannelSpec
  <1>1. Init => Channel!Init
    BY DEF Init, Channel!Init, Carried, InFlight
  <1>2. IInv /\ CInv /\ [Next]_vars => CInv' /\ [Channel!Next]_(Channel!vars)
    <2> SUFFICES ASSUME IInv, CInv, [Next]_vars
                 PROVE  CInv' /\ [Channel!Next]_(Channel!vars)
      OBVIOUS
    <2> QED
      BY StepRefines
  <1> QED
    BY InitInv, CInit, <1>1, <1>2, Inductive, PTL DEF Spec, ChannelSpec, Channel!Spec

-----------------------------------------------------------------------------
(* The messages on the wire *)

\* The frames lie one after the other.
LEMMA Ascending ==
  ASSUME IInv, NEW at \in [0..N -> Nat], Layout(at)
  PROVE  \A i, j \in 0..N : i < j => at[i] < at[j]
  <1>1. N \in Nat
    BY CarriedType
  <1>2. ASSUME NEW k \in 1..N PROVE at[k - 1] < at[k]
    <2>1. Carried[k] \in Messages /\ at[k - 1] \in Nat /\ at[k] = at[k - 1] + FrameLen(Carried[k])
      BY Inside
    <2>2. FrameLen(Carried[k]) \in Nat /\ FrameLen(Carried[k]) >= 2
      BY <2>1, FrameLenType
    <2> QED
      BY <2>1, <2>2
  <1>3. \A k \in 1..N : at[k - 1] <= at[k]
    <2> SUFFICES ASSUME NEW k \in 1..N PROVE at[k - 1] <= at[k]
      OBVIOUS
    <2>1. k - 1 \in 0..N /\ k \in 0..N
      BY <1>1
    <2> QED
      BY <2>1, <1>2
  <1>4. \A i, j \in 0..N : i <= j => at[i] <= at[j]
    BY <1>1, <1>3, Growing
  <1> SUFFICES ASSUME NEW i \in 0..N, NEW j \in 0..N, i < j PROVE at[i] < at[j]
    OBVIOUS
  <1>5. j \in 1..N /\ j - 1 \in 0..N /\ i <= j - 1
    BY <1>1
  <1>6. at[i] <= at[j - 1] /\ at[j - 1] < at[j]
    BY <1>2, <1>4, <1>5
  <1>7. at[i] \in Nat /\ at[j - 1] \in Nat /\ at[j] \in Nat
    BY <1>5
  <1> QED
    BY <1>6, <1>7

\* They end at the places where they were laid, and nowhere else.
LEMMA EndsAt ==
  ASSUME IInv, NEW m \in Messages, NEW at \in [0..N -> Nat], Placed(at, m)
  PROVE  /\ \A k \in 1..N : at[k] \in FrameEnds /\ stream[at[k]].msg = Carried[k]
         /\ \A i \in FrameEnds : \E k \in 1..N : at[k] = i
  <1>0. Layout(at) /\ N \in Nat /\ accepted \in Nat /\ Len(stream) \in Nat /\ accepted <= Len(stream)
    BY CarriedType DEF Placed, IInv, TypeOK
  <1>1. ASSUME NEW k \in 1..N PROVE at[k] \in FrameEnds /\ stream[at[k]].msg = Carried[k]
    <2>1. PICK n \in Messages : n = Carried[k]
      BY <1>0, Inside
    <2>2. FrameLen(n) \in Nat /\ FrameLen(n) >= 2
      BY FrameLenType
    <2>3. at[k] = at[k - 1] + FrameLen(n) /\ at[k] \in Nat /\ at[k - 1] \in Nat /\ at[k] <= accepted
      BY <1>0, <2>1, Inside
    <2>4. stream[at[k]] = PieceOf(n, FrameLen(n))
      <3>1. FrameLen(n) \in 1..FrameLen(n)
        BY <2>2
      <3> QED
        BY <1>0, <2>1, <2>3, <3>1 DEF Layout
    <2>5. at[k] \in 1..accepted
      BY <1>0, <2>2, <2>3
    <2> QED
      BY <2>1, <2>4, <2>5 DEF FrameEnds, PieceOf
  <1>2. ASSUME NEW i \in FrameEnds PROVE \E k \in 1..N : at[k] = i
    <2>1. i \in 1..accepted /\ i \in Nat /\ i \in 1..Len(stream)
          /\ stream[i].part = FrameLen(stream[i].msg)
      BY <1>0 DEF FrameEnds
    <2>2. at[N] \in Nat /\ at[0] = 0
      BY <1>0 DEF Layout
    <2>3. i <= at[N]
      <3> SUFFICES ASSUME at[N] < i PROVE FALSE
        BY <2>1, <2>2
      <3>1. PICK p \in Nat : p = i - at[N]
        BY <2>1, <2>2
      <3>2. p \in 1..(Len(stream) - at[N]) /\ at[N] + p = i
        BY <1>0, <2>1, <2>2, <3>1
      <3>3. stream[i] = PieceOf(m, p)
        BY <3>2 DEF Placed, Ragged
      <3>4. p = FrameLen(m)
        BY <2>1, <3>3 DEF PieceOf
      <3>5. accepted < at[N] + FrameLen(m)
        BY DEF Placed, Ragged
      <3> QED
        BY <1>0, <2>1, <3>2, <3>4, <3>5
    <2> DEFINE S == {k \in 0..N : i <= at[k]}
    <2>4. S \in SUBSET Nat /\ S # {}
      <3>1. N \in 0..N /\ \A k \in 0..N : k \in Nat
        BY <1>0
      <3>2. N \in S
        BY <2>3, <3>1
      <3> QED
        BY <3>1, <3>2
    <2>5. PICK k \in S : \A h \in S : k <= h
      BY <2>4, LeastNatural
    <2>6. k \in 0..N /\ i <= at[k] /\ k # 0
      BY <2>1, <2>2, <2>5
    <2>7. k \in 1..N /\ k - 1 \in 0..N /\ k - 1 \notin S
      BY <1>0, <2>5, <2>6
    <2>8. PICK n \in Messages : n = Carried[k]
      BY <1>0, <2>7, Inside
    <2>9. /\ FrameLen(n) \in Nat /\ at[k] = at[k - 1] + FrameLen(n)
          /\ at[k] \in Nat /\ at[k - 1] \in Nat
      BY <1>0, <2>7, <2>8, FrameLenType, Inside
    <2>10. at[k - 1] < i
      BY <2>1, <2>7, <2>9
    <2>11. PICK p \in Nat : p = i - at[k - 1]
      BY <2>1, <2>9, <2>10
    <2>12. p \in 1..FrameLen(n) /\ at[k - 1] + p = i
      <3>1. PICK a, b, l \in Nat : a = at[k - 1] /\ b = at[k] /\ l = FrameLen(n)
        BY <2>9
      <3>2. i \in Nat /\ b = a + l /\ a < i /\ i <= b /\ p = i - a
        BY <2>1, <2>6, <2>9, <2>10, <2>11, <3>1
      <3>3. a \in Nat /\ b \in Nat /\ l \in Nat /\ p \in Nat
        BY <3>1
      <3>4. p \in 1..l /\ a + p = i
        BY <3>2, <3>3
      <3> QED
        BY <3>1, <3>4
    <2>13. stream[i] = PieceOf(n, p)
      BY <1>0, <2>7, <2>8, <2>12 DEF Layout
    <2>14. p = FrameLen(n)
      BY <2>1, <2>13 DEF PieceOf
    <2> QED
      BY <2>7, <2>9, <2>12, <2>14
  <1> QED
    BY <1>1, <1>2

\* For any writers, messages, sizes, buffer and window, and wherever the transport
\* stops: a call returns nil exactly for the messages that are whole on the wire,
\* and in the order in which they are there (control_message.go:183-187).
THEOREM NilIsTruthful == Spec => []NilMeansSent
  <1>1. IInv /\ CInv => NilMeansSent
    <2> SUFFICES ASSUME IInv, CInv PROVE OnWire = Carried
      BY DEF NilMeansSent
    <2>1. PICK m \in Messages, at \in [0..N -> Nat] : Placed(at, m)
      BY DEF CInv
    <2>2. N \in Nat /\ Carried \in Seq(Messages) /\ Len(Carried) = N
      BY CarriedType DEF N
    <2> DEFINE f == [k \in 1..N |-> at[k]]
    <2>3. f \in [1..N -> FrameEnds] /\ \A x \in FrameEnds : \E k \in 1..N : f[k] = x
      BY <2>1, EndsAt
    <2>4. \A i, j \in 1..N : i < j => f[i] < f[j]
      <3>1. \A i, j \in 0..N : i < j => at[i] < at[j]
        BY <2>1, Ascending DEF Placed
      <3>2. \A i \in 1..N : i \in 0..N
        BY <2>2
      <3> QED
        BY <3>1, <3>2
    <2>5. FrameEnds \in SUBSET Nat
      BY DEF FrameEnds, IInv, TypeOK
    <2>6. \A k \in 1..N : stream[f[k]].msg = Carried[k]
      BY <2>1, EndsAt
    <2> HIDE DEF f
    <2>7. InOrder(FrameEnds) = f
      <3>1. \A x \in FrameEnds : \E k \in 1..N : f[k] = x
        BY <2>3
      <3>2. f \in [1..N -> FrameEnds]
        BY <2>3
      <3>3. PICK n, S : n = N /\ S = FrameEnds
        OBVIOUS
      <3>4. n \in Nat /\ S \in SUBSET Nat /\ f \in [1..n -> S]
        BY <2>2, <2>5, <3>2, <3>3
      <3>5. \A i, j \in 1..n : i < j => f[i] < f[j]
        BY <2>4, <3>3
      <3>6. \A x \in S : \E i \in 1..n : f[i] = x
        BY <3>1, <3>3
      <3>7. InOrder(S) = f
        BY <3>4, <3>5, <3>6, Listing
      <3> QED
        BY <3>3, <3>7
    <2>8. OnWire = [k \in 1..N |-> Carried[k]]
      BY <2>3, <2>6, <2>7 DEF OnWire
    <2> QED
      BY <2>2, <2>8
  <1>2. IInv /\ CInv /\ [Next]_vars => CInv'
    <2> SUFFICES ASSUME IInv, CInv, [Next]_vars PROVE CInv'
      OBVIOUS
    <2> QED
      BY StepRefines
  <1> QED
    BY InitInv, CInit, Inductive, <1>1, <1>2, PTL DEF Spec
=============================================================================
