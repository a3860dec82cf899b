------------------------- MODULE ObjectDatagramProofs -------------------------
(***************************************************************************)
(* Proofs that the type ID of a constructed datagram tells its fields, for *)
(* any options with any values, in any order and number; that every        *)
(* datagram is an object but for its extensions; and that the decoder      *)
(* inverts the encoder, wherever the bytes are cut.                        *)
(***************************************************************************)
EXTENDS ObjectDatagram, DataLemmas

Flags == [id : Int, extensions : BOOLEAN, endOfGroup : BOOLEAN,
          objectId : BOOLEAN, priority : BOOLEAN, status : BOOLEAN]

\* The bits of a type ID, one at a time.
LEMMA Bits ==
  ASSUME NEW type \in Flags, ~(type.status /\ type.endOfGroup)
  PROVE  LET id == ToUInt64(type)
         IN  /\ id \in 0..45 /\ ~Bit(id, 16)
             /\ Bit(id, 1) = type.extensions /\ Bit(id, 2) = type.endOfGroup
             /\ Bit(id, 4) = ~type.objectId /\ Bit(id, 8) = ~type.priority
             /\ Bit(id, 32) = type.status
  BY DEF Flags, ToUInt64, Bit

\* A field that may be missing.
Nullable(S) == {s \in Seq(S) : Len(s) <= 1}

LEMMA Given ==
  ASSUME NEW S, NEW x \in S
  PROVE  <<x>> \in Nullable(S) /\ <<x>> # <<>>
  BY DEF Nullable

LEMMA Missing ==
  ASSUME NEW S
  PROVE  <<>> \in Nullable(S)
  BY DEF Nullable

ExtensionLists == {ext \in Seq(NewMoqtKeyValuePair) : Len(ext) \in VarintValues}

\* What a datagram under construction looks like.
Shape == [type : Flags,
          alias : VarintValues, group : VarintValues, object : VarintValues,
          priority : Nullable(Byte), extensions : Nullable(ExtensionLists),
          status : Nullable(VarintValues), payload : Nullable(Seq(Byte))]

\* Each option sets a field and its flag together; payload takes the status flag
\* back, which only counts for a datagram with both, and that one is refused.
FieldsMatch(d) ==
    /\ d.type.priority <=> d.priority # <<>>
    /\ d.type.extensions <=> d.extensions # <<>>
    /\ d.type.status => d.status # <<>>
    /\ d.status # <<>> /\ d.payload = <<>> => d.type.status
    /\ ~d.type.objectId => d.object = 0

DInv ==
    /\ dg \in Shape /\ FieldsMatch(dg)
    /\ Constructed => /\ (dg.status = <<>>) # (dg.payload = <<>>)
                      /\ ~(dg.type.status /\ dg.type.endOfGroup)
                      /\ dg.type.id = ToUInt64(dg.type)
    /\ ~Constructed => dg.type.id = 0

\* ToUInt64 does not look at the type ID it is about to set.
LEMMA IdIgnored ==
  ASSUME NEW type \in Flags, NEW id
  PROVE  ToUInt64([type EXCEPT !.id = id]) = ToUInt64(type)
  BY DEF Flags, ToUInt64

LEMMA VarintRange ==
  0 \in VarintValues /\ \A v \in VarintValues : v \in Nat
  BY DEF VarintValues

LEMMA DInit == Init => DInv
  <1> SUFFICES ASSUME Init PROVE DInv
    OBVIOUS
  <1>1. PICK alias \in Numbers, group \in Numbers : dg = Blank(alias, group)
    BY DEF Init
  <1>2. alias \in VarintValues /\ group \in VarintValues /\ 0 \in VarintValues
    BY NumbersAssumption, BoundAssumption, VarintRange
  <1>3. dg \in Shape /\ FieldsMatch(dg)
    BY <1>1, <1>2, Missing DEF Blank, ZeroType, Shape, Flags, FieldsMatch
  <1>4. dg.type.id = 0
    BY <1>1 DEF Blank, ZeroType
  <1> QED
    BY <1>3, <1>4 DEF DInv, Init, Constructed

LEMMA OptionStep ==
  ASSUME DInv, Option PROVE DInv'
  <1> DEFINE Good(d) == d \in Shape /\ FieldsMatch(d) /\ d.type.id = 0
  <1>0. /\ stage = "options" /\ stage' = stage
        /\ dg \in Shape /\ dg.type \in Flags /\ FieldsMatch(dg) /\ dg.type.id = 0
    BY DEF Option, WithObjectId, WithPublisherPriority, WithExtensions, WithEndOfGroup,
           WithStatus, WithPayload, Apply, DInv, Shape, Constructed
  <1>1. ASSUME NEW oid \in Numbers, WithObjectId(oid) PROVE Good(dg')
    <2> DEFINE t == [dg.type EXCEPT !.objectId = TRUE]
    <2>1. /\ t \in Flags /\ t.id = 0 /\ t.objectId = TRUE
          /\ t.extensions = dg.type.extensions /\ t.priority = dg.type.priority /\ t.status = dg.type.status
      BY <1>0 DEF Flags
    <2>2. dg' = [dg EXCEPT !.type = t, !.object = oid]
      BY <1>0, <1>1 DEF WithObjectId, Apply, Shape, Flags
    <2> HIDE DEF t
    <2>3. oid \in VarintValues
      BY NumbersAssumption
    <2> QED
      BY <1>0, <2>1, <2>2, <2>3 DEF Shape, FieldsMatch
  <1>2. ASSUME NEW p \in Priorities, WithPublisherPriority(p) PROVE Good(dg')
    <2> DEFINE t == [dg.type EXCEPT !.priority = TRUE]
    <2>1. /\ t \in Flags /\ t.id = 0 /\ t.priority = TRUE
          /\ t.extensions = dg.type.extensions /\ t.objectId = dg.type.objectId /\ t.status = dg.type.status
      BY <1>0 DEF Flags
    <2>2. dg' = [dg EXCEPT !.type = t, !.priority = <<p>>]
      BY <1>0, <1>2 DEF WithPublisherPriority, Apply, Shape, Flags
    <2> HIDE DEF t
    <2>3. <<p>> \in Nullable(Byte) /\ <<p>> # <<>>
      BY PriorityAssumption, Given
    <2> QED
      BY <1>0, <2>1, <2>2, <2>3 DEF Shape, FieldsMatch
  <1>3. ASSUME NEW ext \in Extensions, WithExtensions(ext) PROVE Good(dg')
    <2> DEFINE t == [dg.type EXCEPT !.extensions = TRUE]
    <2>1. /\ t \in Flags /\ t.id = 0 /\ t.extensions = TRUE
          /\ t.objectId = dg.type.objectId /\ t.priority = dg.type.priority /\ t.status = dg.type.status
      BY <1>0 DEF Flags
    <2>2. dg' = [dg EXCEPT !.type = t, !.extensions = <<ext>>]
      BY <1>0, <1>3 DEF WithExtensions, Apply, Shape, Flags
    <2> HIDE DEF t
    <2>3. <<ext>> \in Nullable(ExtensionLists) /\ <<ext>> # <<>>
      BY ExtensionAssumption, Given DEF ExtensionLists
    <2> QED
      BY <1>0, <2>1, <2>2, <2>3 DEF Shape, FieldsMatch
  <1>4. ASSUME WithEndOfGroup PROVE Good(dg')
    <2> DEFINE t == [dg.type EXCEPT !.endOfGroup = TRUE]
    <2>1. /\ t \in Flags /\ t.id = 0 /\ t.endOfGroup = TRUE
          /\ t.extensions = dg.type.extensions /\ t.objectId = dg.type.objectId /\ t.priority = dg.type.priority /\ t.status = dg.type.status
      BY <1>0 DEF Flags
    <2>2. dg' = [dg EXCEPT !.type = t]
      BY <1>0, <1>4 DEF WithEndOfGroup, Apply, Shape, Flags
    <2> HIDE DEF t
    <2> QED
      BY <1>0, <2>1, <2>2 DEF Shape, FieldsMatch
  <1>5. ASSUME NEW s \in Statuses, WithStatus(s) PROVE Good(dg')
    <2> DEFINE t == [dg.type EXCEPT !.status = TRUE]
    <2>1. /\ t \in Flags /\ t.id = 0 /\ t.status = TRUE
          /\ t.extensions = dg.type.extensions /\ t.objectId = dg.type.objectId /\ t.priority = dg.type.priority
      BY <1>0 DEF Flags
    <2>2. dg' = [dg EXCEPT !.type = t, !.status = <<s>>]
      BY <1>0, <1>5 DEF WithStatus, Apply, Shape, Flags
    <2> HIDE DEF t
    <2>3. <<s>> \in Nullable(VarintValues) /\ <<s>> # <<>>
      BY StatusAssumption, Given
    <2> QED
      BY <1>0, <2>1, <2>2, <2>3 DEF Shape, FieldsMatch
  <1>6. ASSUME NEW p \in Payloads, WithPayload(p) PROVE Good(dg')
    <2> DEFINE t == [dg.type EXCEPT !.status = FALSE]
    <2>1. /\ t \in Flags /\ t.id = 0 /\ t.status = FALSE
          /\ t.extensions = dg.type.extensions /\ t.objectId = dg.type.objectId /\ t.priority = dg.type.priority
      BY <1>0 DEF Flags
    <2>2. dg' = [dg EXCEPT !.type = t, !.payload = <<p>>]
      BY <1>0, <1>6 DEF WithPayload, Apply, Shape, Flags
    <2> HIDE DEF t
    <2>3. <<p>> \in Nullable(Seq(Byte)) /\ <<p>> # <<>>
      BY PayloadAssumption, Given
    <2> QED
      BY <1>0, <2>1, <2>2, <2>3 DEF Shape, FieldsMatch
  <1> QED
    BY <1>0, <1>1, <1>2, <1>3, <1>4, <1>5, <1>6 DEF Option, DInv, Constructed

LEMMA BuildStep ==
  ASSUME DInv, Build PROVE DInv'
  <1>1. CASE Acceptable(dg)
    <2> DEFINE id == ToUInt64(dg.type)
    <2>1. dg' = [dg EXCEPT !.type.id = id] /\ dg.type \in Flags
      BY <1>1 DEF Build, DInv, Shape
    <2>2. ~(dg.type.status /\ dg.type.endOfGroup) /\ (dg.status = <<>>) # (dg.payload = <<>>)
      BY <1>1 DEF Acceptable
    <2>3. id \in Int
      BY <2>1 DEF ToUInt64, Flags
    <2>4. dg'.type = [dg.type EXCEPT !.id = id]
      BY <2>1 DEF DInv, Shape
    <2>5. dg'.type.id = ToUInt64(dg'.type)
      BY <2>1, <2>4, IdIgnored DEF Flags
    <2> HIDE DEF id
    <2> QED
      <3>1. dg' \in Shape /\ FieldsMatch(dg')
        BY <2>1, <2>3 DEF DInv, Shape, Flags, FieldsMatch
      <3>2. Constructed'
        BY <1>1 DEF Build, Constructed
      <3>3. (dg'.status = <<>>) # (dg'.payload = <<>>) /\ ~(dg'.type.status /\ dg'.type.endOfGroup)
        BY <2>1, <2>2 DEF DInv, Shape, Flags
      <3> QED
        BY <2>5, <3>1, <3>2, <3>3 DEF DInv
  <1>2. CASE ~Acceptable(dg)
    BY <1>2 DEF Build, DInv, Constructed
  <1> QED
    BY <1>1, <1>2

LEMMA DStep == DInv /\ [Next]_vars => DInv'
  <1> SUFFICES ASSUME DInv, [Next]_vars PROVE DInv'
    OBVIOUS
  <1>1. CASE Option \/ Build
    BY <1>1, OptionStep, BuildStep
  <1>2. CASE UNCHANGED vars
    BY <1>2 DEF vars, DInv, Constructed
  <1>3. CASE Encode \/ EncodeInTwo \/ Decode
    <2>1. dg' = dg /\ Constructed /\ Constructed'
      BY <1>3 DEF Advance, PairDone, Reject, AfterExtensions, AfterPriority, AfterObject, Encode, EncodeInTwo, Transmit, Decode, DecodeType, DecodeAlias, DecodeGroup, DecodeObject,
              DecodePriority, DecodeCount, DecodePairType, DecodePairNumber,
              DecodePairBytes, DecodeStatus, DecodePayload, Kept, Constructed
    <2> QED
      BY <2>1 DEF DInv
  <1> QED
    BY <1>1, <1>2, <1>3 DEF Next

LEMMA TypeTells == DInv => TypeTellsFields
  <1> SUFFICES ASSUME DInv, Constructed PROVE TypeTellsFields
    BY DEF TypeTellsFields
  <1>1. dg.type \in Flags /\ ~(dg.type.status /\ dg.type.endOfGroup)
        /\ dg.type.id = ToUInt64(dg.type)
    BY DEF DInv, Shape
  <1>2. /\ dg.type.id <= 45 /\ ~Bit(dg.type.id, 16)
        /\ Bit(dg.type.id, 1) = dg.type.extensions
        /\ Bit(dg.type.id, 2) = dg.type.endOfGroup
        /\ Bit(dg.type.id, 4) = ~dg.type.objectId
        /\ Bit(dg.type.id, 8) = ~dg.type.priority
        /\ Bit(dg.type.id, 32) = dg.type.status
    BY <1>1, Bits
  <1>3. KnownTypeID(dg.type.id)
    BY <1>1, <1>2 DEF KnownTypeID
  <1>4. NewObjectDatagramType(dg.type.id) = dg.type
    BY <1>1, <1>2 DEF NewObjectDatagramType, Flags
  <1> QED
    BY <1>1, <1>3, <1>4 DEF TypeTellsFields, DInv, FieldsMatch, Flags

\* Whatever options NewObjectDatagram is given, the type ID it computes is one the
\* decoder accepts and tells exactly which fields the datagram has.
THEOREM TypeIsTruthful == Spec => []TypeTellsFields
  BY TypeTells, DInit, DStep, PTL DEF Spec

-----------------------------------------------------------------------------
(* Varints *)

LEMMA Halves ==
  ASSUME NEW v \in Nat
  PROVE  \E q, r \in Nat : q = v \div 256 /\ r = v % 256 /\ v = 256 * q + r /\ r < 256
  <1>1. PICK q, r : q = v \div 256 /\ r = v % 256
    OBVIOUS
  <1>2. v = 256 * q + r /\ q \in Nat /\ r \in Nat /\ r < 256
    BY <1>1, SMT
  <1> QED
    BY <1>1, <1>2

LEMMA Quarters ==
  ASSUME NEW v \in Nat
  PROVE  \E q, r \in Nat : /\ q = v \div (256 * 256) /\ r = v % (256 * 256)
                           /\ v = 65536 * q + r /\ r < 65536
  <1>1. PICK q, r : q = v \div (256 * 256) /\ r = v % (256 * 256)
    OBVIOUS
  <1>2. v = 65536 * q + r /\ q \in Nat /\ r \in Nat /\ r < 65536
    BY <1>1, SMT
  <1> QED
    BY <1>1, <1>2, SMT

LEMMA FourBytes ==
  ASSUME NEW w, NEW x, NEW y, NEW z
  PROVE  <<w, x>> \o <<y, z>> = <<w, x, y, z>>
  <1> DEFINE S == {w, x, y, z}
  <1>1. PICK a, b, c : a = <<w, x>> /\ b = <<y, z>> /\ c = <<w, x, y, z>>
    OBVIOUS
  <1>2. a \in Seq(S) /\ b \in Seq(S) /\ c \in Seq(S) /\ Len(a) = 2 /\ Len(b) = 2 /\ Len(c) = 4
    BY <1>1
  <1>3. /\ a \o b \in Seq(S) /\ Len(a \o b) = 4
        /\ \A i \in 1..4 : (a \o b)[i] = IF i <= 2 THEN a[i] ELSE b[i - 2]
    BY <1>2, ConcatProperties
  <1>4. \A i \in 1..4 : (a \o b)[i] = c[i]
    <2>1. a[1] = w /\ a[2] = x /\ b[1] = y /\ b[2] = z
          /\ c[1] = w /\ c[2] = x /\ c[3] = y /\ c[4] = z
      BY <1>1
    <2> QED
      BY <1>3, <2>1
  <1>5. a \o b = c
    <2> HIDE DEF S
    <2> QED
      BY <1>2, <1>3, <1>4, SeqEqual
  <1> QED
    BY <1>1, <1>5

\* The first byte of each form tells its length.
Form1(b, v) == \E w \in Byte : b = <<w>> /\ w < 64 /\ v = w
Form2(b, v) == \E w, x \in Byte : /\ b = <<w, x>> /\ 64 <= w /\ w < 128
                                  /\ v = (w - 64) * 256 + x
Form4(b, v) == \E w, x, y, z \in Byte :
                  /\ b = <<w, x, y, z>> /\ 128 <= w
                  /\ v = ((w - 128) * 256 + x) * (256 * 256) + y * 256 + z

LEMMA Forms ==
  ASSUME NEW v \in VarintValues
  PROVE  Form1(Varint(v), v) \/ Form2(Varint(v), v) \/ Form4(Varint(v), v)
  <1>0. v \in Nat /\ v < 64 * 256 * 256 * 256
    BY SMT DEF VarintValues
  <1>1. CASE v < 64
    <2>1. Varint(v) = <<v>> /\ v \in Byte
      BY <1>0, <1>1 DEF Varint, Byte
    <2> QED
      BY <1>1, <2>1 DEF Form1
  <1>2. CASE ~(v < 64) /\ v < 64 * 256
    <2>1. PICK n : n = 64 * 256 + v
      OBVIOUS
    <2>2. n \in Nat /\ 16384 <= n /\ n < 32768 /\ v = n - 16384
      BY <1>0, <1>2, <2>1, SMT
    <2>4. PICK w, x \in Nat : w = n \div 256 /\ x = n % 256 /\ n = 256 * w + x /\ x < 256
      BY <2>2, Halves
    <2>5. 64 <= w /\ w < 128 /\ v = (w - 64) * 256 + x
      BY <2>2, <2>4, SMT
    <2>6. w \in Byte /\ x \in Byte
      BY <2>4, <2>5 DEF Byte
    <2>7. Varint(v) = <<w, x>>
      BY <1>2, <2>1, <2>4 DEF Varint, TwoBytes
    <2> QED
      BY <2>5, <2>6, <2>7 DEF Form2
  <1>3. CASE ~(v < 64) /\ ~(v < 64 * 256)
    <2>2. PICK q, r \in Nat : /\ q = v \div (256 * 256) /\ r = v % (256 * 256)
                              /\ v = 65536 * q + r /\ r < 65536
      BY <1>0, Quarters
    <2>3. PICK n : n = 128 * 256 + q
      OBVIOUS
    <2>4. n \in Nat /\ 32768 <= n /\ n < 49152
      BY <1>0, <2>2, <2>3, SMT
    <2>6. PICK w, x \in Nat : w = n \div 256 /\ x = n % 256 /\ n = 256 * w + x /\ x < 256
      BY <2>4, Halves
    <2>7. PICK y, z \in Nat : y = r \div 256 /\ z = r % 256 /\ r = 256 * y + z /\ z < 256
      BY Halves
    <2>8. 128 <= w /\ w < 256 /\ y < 256
      BY <2>2, <2>4, <2>6, <2>7, SMT
    <2>9. w \in Byte /\ x \in Byte /\ y \in Byte /\ z \in Byte
      BY <2>6, <2>7, <2>8 DEF Byte
    <2>10. v = ((w - 128) * 256 + x) * (256 * 256) + y * 256 + z
      BY <2>2, <2>3, <2>6, <2>7, SMT
    <2>11. Varint(v) = <<w, x, y, z>>
      <3>1. Varint(v) = <<w, x>> \o <<y, z>>
        BY <1>3, <2>2, <2>3, <2>6, <2>7 DEF Varint, TwoBytes
      <3> QED
        BY <3>1, FourBytes
    <2> QED
      BY <2>8, <2>9, <2>10, <2>11 DEF Form4
  <1> QED
    BY <1>1, <1>2, <1>3

LEMMA VarintType ==
  ASSUME NEW v \in VarintValues
  PROVE  /\ Varint(v) \in Seq(Byte) /\ Varint(v) # <<>>
         /\ Len(Varint(v)) = VarintWidth(Varint(v))
  <1>1. CASE Form1(Varint(v), v)
    BY <1>1 DEF Form1, VarintWidth
  <1>2. CASE Form2(Varint(v), v)
    <2>1. PICK w, x \in Byte : Varint(v) = <<w, x>> /\ 64 <= w /\ w < 128
      BY <1>2 DEF Form2
    <2>2. ~(w < 64)
      BY <2>1 DEF Byte
    <2> QED
      BY <2>1, <2>2 DEF VarintWidth
  <1>3. CASE Form4(Varint(v), v)
    <2>1. PICK w, x, y, z \in Byte : Varint(v) = <<w, x, y, z>> /\ 128 <= w
      BY <1>3 DEF Form4
    <2>2. ~(w < 64) /\ ~(w < 128)
      BY <2>1 DEF Byte
    <2> QED
      BY <2>1, <2>2 DEF VarintWidth
  <1> QED
    BY <1>1, <1>2, <1>3, Forms

-----------------------------------------------------------------------------
(* What the decoder has before it *)

\* The decoder holds r, having read p bytes of w; were nothing cut, it would hold b.
At(r, p, w, b) ==
    /\ r \in Seq(Byte) /\ w \in Seq(Byte) /\ p \in Nat /\ b \in Seq(Byte)
    /\ Len(r) <= Len(b) /\ p + Len(b) = Len(w)
    /\ \A i \in 1..Len(r) : r[i] = b[i]

\* The cursor moves over a part a that is there.
LEMMA Moves ==
  ASSUME NEW a \in Seq(Byte), NEW b \in Seq(Byte), NEW r, NEW p, NEW w,
         At(r, p, w, a \o b), Len(a) <= Len(r)
  PROVE  /\ At(SubSeq(r, Len(a) + 1, Len(r)), p + Len(a), w, b)
         /\ \A i \in 1..Len(a) : r[i] = a[i]
         /\ p + Len(r) = Len(w) => r = a \o b
  <1>1. PICK c \in Seq(Byte), m \in Nat, n \in Nat, k \in Nat :
            c = a \o b /\ m = Len(a) /\ n = Len(b) /\ k = Len(r)
    <2>1. a \o b \in Seq(Byte)
      BY ConcatProperties
    <2>2. Len(a) \in Nat /\ Len(b) \in Nat /\ Len(r) \in Nat
      BY DEF At
    <2> QED
      BY <2>1, <2>2
  <1>2. Len(c) = m + n /\ \A i \in 1..(m + n) : c[i] = IF i <= m THEN a[i] ELSE b[i - m]
    BY <1>1, ConcatProperties
  <1>3. /\ r \in Seq(Byte) /\ w \in Seq(Byte) /\ p \in Nat /\ Len(w) \in Nat
        /\ m <= k /\ k <= m + n /\ p + (m + n) = Len(w)
        /\ \A i \in 1..k : r[i] = c[i]
    <2>1. /\ r \in Seq(Byte) /\ w \in Seq(Byte) /\ p \in Nat
          /\ Len(r) <= Len(c) /\ p + Len(c) = Len(w) /\ \A i \in 1..Len(r) : r[i] = c[i]
      BY <1>1 DEF At
    <2>2. Len(w) \in Nat /\ m <= k
      BY <1>1, <2>1
    <2> QED
      BY <1>1, <1>2, <2>1, <2>2
  <1>4. PICK q : q = SubSeq(r, m + 1, k)
    OBVIOUS
  <1>5. q \in Seq(Byte) /\ Len(q) = k - m /\ \A i \in 1..(k - m) : q[i] = r[m + i]
    <2>1. Segment(Byte, q, r, m, k - m)
      BY <1>1, <1>3, <1>4 DEF Segment
    <2>2. Elements(Byte, q, r, m, k - m)
      BY <2>1, Middle
    <2> QED
      BY <2>2 DEF Elements
  <1>6. \A i \in 1..(k - m) : q[i] = b[i]
    <2> SUFFICES ASSUME NEW i \in 1..(k - m) PROVE q[i] = b[i]
      OBVIOUS
    <2>1. m + i \in 1..k /\ m + i \in 1..(m + n) /\ ~(m + i <= m) /\ (m + i) - m = i
      BY <1>3
    <2> QED
      BY <1>2, <1>3, <1>5, <2>1
  <1>7. At(q, p + m, w, b)
    BY <1>1, <1>3, <1>5, <1>6 DEF At
  <1>8. \A i \in 1..m : r[i] = a[i]
    <2> SUFFICES ASSUME NEW i \in 1..m PROVE r[i] = a[i]
      OBVIOUS
    <2>1. i \in 1..k /\ i \in 1..(m + n) /\ i <= m
      BY <1>3
    <2> QED
      BY <1>2, <1>3, <2>1
  <1>9. p + k = Len(w) => r = c
    <2> SUFFICES ASSUME p + k = Len(w) PROVE r = c
      OBVIOUS
    <2>1. k = m + n
      BY <1>3
    <2> QED
      BY <1>1, <1>2, <1>3, <2>1, SeqEqual
  <1> QED
    BY <1>1, <1>4, <1>7, <1>8, <1>9

\* A varint is read as it was written, unless the cut is in it.
LEMMA VarintRead ==
  ASSUME NEW v \in VarintValues, NEW b \in Seq(Byte), NEW r, NEW p, NEW w,
         At(r, p, w, Varint(v) \o b)
  PROVE  /\ HasVarint(r) => /\ VarintOf(r) = v
                            /\ VarintWidth(r) = Len(Varint(v)) /\ VarintWidth(r) <= Len(r)
                            /\ At(SubSeq(r, VarintWidth(r) + 1, Len(r)), p + VarintWidth(r), w, b)
         /\ ~HasVarint(r) => p + Len(r) < Len(w)
  <1>1. PICK a \in Seq(Byte), n \in Nat : a = Varint(v) /\ n = Len(a)
    BY VarintType
  <1>2. a # <<>> /\ n = VarintWidth(a) /\ n >= 1
    BY <1>1, VarintType
  <1>3. r \in Seq(Byte) /\ Len(r) \in Nat /\ p \in Nat /\ Len(w) \in Nat
        /\ p + Len(r) <= Len(w)
    <2>1. Len(r) <= Len(Varint(v) \o b) /\ p + Len(Varint(v) \o b) = Len(w)
          /\ Varint(v) \o b \in Seq(Byte)
      BY DEF At
    <2> QED
      BY <2>1 DEF At
  <1>4. ASSUME r # <<>> PROVE r[1] = a[1] /\ VarintWidth(r) = n
    <2>1. 1 \in 1..Len(r) /\ 1 \in 1..Len(a)
      BY <1>1, <1>2, <1>3, <1>4
    <2>2. r[1] = (a \o b)[1]
      BY <1>1, <2>1 DEF At
    <2>3. (a \o b)[1] = a[1]
      BY <2>1, ConcatProperties
    <2> QED
      BY <1>2, <2>2, <2>3 DEF VarintWidth
  <1>5. CASE HasVarint(r)
    <2>1. r # <<>> /\ n <= Len(r) /\ VarintWidth(r) = n
      BY <1>4, <1>5 DEF HasVarint
    <2>2. /\ At(SubSeq(r, n + 1, Len(r)), p + n, w, b)
          /\ \A i \in 1..n : r[i] = a[i]
      BY <1>1, <2>1, Moves
    <2>3. VarintOf(r) = v
      <3>1. CASE Form1(a, v)
        <4>1. PICK x \in Byte : a = <<x>> /\ x < 64 /\ v = x
          BY <3>1 DEF Form1
        <4>2. r[1] = x
          BY <1>1, <2>2, <4>1
        <4> QED
          BY <4>1, <4>2 DEF VarintOf
      <3>2. CASE Form2(a, v)
        <4>1. PICK x, y \in Byte : a = <<x, y>> /\ 64 <= x /\ x < 128 /\ v = (x - 64) * 256 + y
          BY <3>2 DEF Form2
        <4>2. n = 2 /\ ~(x < 64)
          BY <1>1, <4>1 DEF Byte
        <4>3. r[1] = x /\ r[2] = y
          BY <2>2, <4>1, <4>2
        <4> QED
          BY <4>1, <4>2, <4>3 DEF VarintOf
      <3>3. CASE Form4(a, v)
        <4>1. PICK x, y, z, u \in Byte :
                  /\ a = <<x, y, z, u>> /\ 128 <= x
                  /\ v = ((x - 128) * 256 + y) * (256 * 256) + z * 256 + u
          BY <3>3 DEF Form4
        <4>2. n = 4 /\ ~(x < 64) /\ ~(x < 128)
          BY <1>1, <4>1 DEF Byte
        <4>3. r[1] = x /\ r[2] = y /\ r[3] = z /\ r[4] = u
          BY <2>2, <4>1, <4>2
        <4> QED
          BY <4>1, <4>2, <4>3 DEF VarintOf
      <3> QED
        BY <1>1, <3>1, <3>2, <3>3, Forms
    <2> QED
      BY <1>1, <1>5, <2>1, <2>2, <2>3
  <1>6. CASE ~HasVarint(r)
    <2> SUFFICES ASSUME ~(p + Len(r) < Len(w)) PROVE FALSE
      BY <1>6
    <2>1. Len(r) = n + Len(b) /\ Len(b) \in Nat
      <3>1. Len(a \o b) = n + Len(b) /\ p + Len(a \o b) = Len(w) /\ Len(b) \in Nat
        BY <1>1, ConcatProperties DEF At
      <3> QED
        BY <1>1, <1>3, <3>1
    <2>2. r # <<>> /\ n <= Len(r)
      BY <1>2, <1>3, <2>1
    <2> QED
      BY <1>4, <1>6, <2>2 DEF HasVarint
  <1> QED
    BY <1>5, <1>6

-----------------------------------------------------------------------------
(* Where the decoder stands *)

\* The encoding from each field on.
Closing(d) == IF d.status # <<>> THEN Varint(d.status[1])
              ELSE IF d.payload # <<>> THEN d.payload[1] ELSE <<>>
FromExtensions(d) ==
    (IF d.extensions = <<>> THEN <<>> ELSE EncodeExtensions(d.extensions[1])) \o Closing(d)
FromPriority(d) == d.priority \o FromExtensions(d)
FromObject(d) == Varint(d.object) \o FromPriority(d)
FromGroup(d) == Varint(d.group) \o FromObject(d)
FromAlias(d) == Varint(d.alias) \o FromGroup(d)
FromType(d) == Varint(d.type.id) \o FromAlias(d)

FromPair(d, k) == Pairs(After(d.extensions[1], k)) \o Closing(d)

\* The object after its first n fields, with extensions e.
Known(d, n, e) ==
    [type |-> IF n >= 1 THEN d.type ELSE ZeroType,
     alias |-> IF n >= 2 THEN d.alias ELSE 0,
     group |-> IF n >= 3 THEN d.group ELSE 0,
     object |-> IF n >= 4 THEN d.object ELSE 0,
     priority |-> IF n >= 5 THEN d.priority ELSE <<>>,
     extensions |-> e, status |-> <<>>, payload |-> <<>>]

Here(b) == At(rest, parsed, wire, b)

\* k pairs have been read, and another is to come.
Within(k) ==
    /\ dg.extensions # <<>> /\ k \in Nat /\ k < Len(dg.extensions[1])
    /\ left = Len(dg.extensions[1]) - k
    /\ out = Known(dg, 5, <<SubSeq(dg.extensions[1], 1, k)>>)

PairInv(k) ==
    LET kv == dg.extensions[1][k + 1]
    IN  /\ Within(k)
        /\ stage = "pairType" => Here(FromPair(dg, k))
        /\ stage \in {"pairNumber", "pairBytes"} =>
              pair = [type |-> kv.type, number |-> 0, bytes |-> <<>>]
        /\ stage = "pairNumber" =>
              ~IsOdd(kv.type) /\ Here(Varint(kv.number) \o FromPair(dg, k + 1))
        /\ stage = "pairBytes" =>
              IsOdd(kv.type) /\ Here((Varint(Len(kv.bytes)) \o kv.bytes) \o FromPair(dg, k + 1))

\* A payload cut short, and nothing else.
Shortened(p) ==
    /\ dg.status = <<>> /\ dg.payload # <<>>
    /\ out = [Known(dg, 5, dg.extensions) EXCEPT !.payload = <<p>>]
    /\ p \in Seq(Byte)
    /\ Len(p) <= Len(dg.payload[1]) /\ \A i \in 1..Len(p) : p[i] = dg.payload[1][i]
    /\ parsed + Len(rest) = Len(wire) => p = dg.payload[1]

\* The type of a datagram, complete or not.
Readable(d) == /\ d \in Datagram
               /\ Len(d.priority) <= 1 /\ Len(d.extensions) <= 1
               /\ Len(d.status) <= 1 /\ Len(d.payload) <= 1

Ends == /\ parsed + Len(rest) <= Len(wire)
        /\ out = dg \/ (out.payload # <<>> /\ Shortened(out.payload[1]))

Place ==
    /\ ~(stage \in {"options", "refused", "built"}) =>
          Constructed
    /\ stage \in {"options", "refused", "built"} =>
          wire = <<>> /\ rest = <<>> /\ parsed = 0 /\ out = Known(dg, 0, <<>>)
    /\ stage = "type" => out = Known(dg, 0, <<>>) /\ Here(FromType(dg))
    /\ stage = "alias" => out = Known(dg, 1, <<>>) /\ Here(FromAlias(dg))
    /\ stage = "group" => out = Known(dg, 2, <<>>) /\ Here(FromGroup(dg))
    /\ stage = "object" => out = Known(dg, 3, <<>>) /\ Here(FromObject(dg))
    /\ stage = "priority" =>
          out = Known(dg, 4, <<>>) /\ dg.priority # <<>> /\ Here(FromPriority(dg))
    /\ stage = "count" =>
          out = Known(dg, 5, <<>>) /\ dg.extensions # <<>> /\ Here(FromExtensions(dg))
    /\ stage \in {"pairType", "pairNumber", "pairBytes"} => \E k \in Nat : PairInv(k)
    /\ stage = "status" =>
          out = Known(dg, 5, dg.extensions) /\ dg.status # <<>> /\ Here(Closing(dg))
    /\ stage = "payload" =>
          out = Known(dg, 5, dg.extensions) /\ dg.status = <<>> /\ Here(Closing(dg))
    /\ stage = "error" => parsed + Len(rest) < Len(wire) /\ Readable(out)
    /\ stage = "decoded" => Ends

\* The variables of the decoder, one by one.
Typed == /\ stage \in Stages /\ options \in 0..MaxOptions
         /\ wire \in Seq(Byte) /\ rest \in Seq(Byte) /\ parsed \in Nat /\ left \in Nat
         /\ pair \in KeyValuePair

RInv == Typed /\ Place

-----------------------------------------------------------------------------
(* What the encoder writes *)

LEMMA ConcatType ==
  ASSUME NEW a \in Seq(Byte), NEW b \in Seq(Byte)
  PROVE  a \o b \in Seq(Byte)
  BY ConcatProperties

\* What a pair that NewMoqtKeyValuePair made looks like.
LEMMA PairFields ==
  ASSUME NEW kv \in NewMoqtKeyValuePair
  PROVE  /\ kv \in KeyValuePair
         /\ kv.type \in VarintValues /\ kv.number \in VarintValues /\ kv.bytes \in Seq(Byte)
         /\ Len(kv.bytes) \in VarintValues /\ Len(kv.bytes) <= MaxValueLength
         /\ IsOdd(kv.type) => kv.number = 0
         /\ ~IsOdd(kv.type) => kv.bytes = <<>>
  <1>1. kv \in KeyValuePair
    BY DEF NewMoqtKeyValuePair
  <1>2. kv.type \in VarintValues /\ kv.number \in VarintValues /\ kv.bytes \in Seq(Byte)
    BY <1>1 DEF KeyValuePair
  <1>3. IF IsOdd(kv.type) THEN kv.number = 0 /\ Len(kv.bytes) <= MaxValueLength
                          ELSE kv.bytes = <<>>
    BY DEF NewMoqtKeyValuePair
  <1>4. MaxValueLength \in Nat /\ Len(<<>>) = 0 /\ Len(kv.bytes) \in Nat
    BY <1>2, BoundAssumption, VarintRange
  <1>5. Len(kv.bytes) <= MaxValueLength
    BY <1>3, <1>4
  <1>6. Len(kv.bytes) \in VarintValues
    <2> DEFINE bound == 64 * 256 * 256 * 256
    <2>1. MaxValueLength < bound
      BY BoundAssumption DEF VarintValues
    <2>2. bound \in Nat
      BY SMT
    <2> HIDE DEF bound
    <2>3. Len(kv.bytes) < bound
      BY <1>4, <1>5, <2>1, <2>2
    <2> QED
      BY <1>4, <2>3 DEF VarintValues, bound
  <1> QED
    BY <1>1, <1>2, <1>3, <1>5, <1>6

\* The value of a pair, as it is written after the type.
ValueOf(kv) == IF IsOdd(kv.type) THEN Varint(Len(kv.bytes)) \o kv.bytes ELSE Varint(kv.number)

LEMMA PairType ==
  ASSUME NEW kv \in NewMoqtKeyValuePair
  PROVE  /\ ValueOf(kv) \in Seq(Byte)
         /\ EncodeMoqtKeyValuePair(kv) \in Seq(Byte)
         /\ EncodeMoqtKeyValuePair(kv) = Varint(kv.type) \o ValueOf(kv)
  <1>1. /\ Varint(kv.type) \in Seq(Byte) /\ Varint(kv.number) \in Seq(Byte)
        /\ Varint(Len(kv.bytes)) \in Seq(Byte) /\ kv.bytes \in Seq(Byte)
    BY PairFields, VarintType
  <1>2. ValueOf(kv) \in Seq(Byte)
    <2>1. Varint(Len(kv.bytes)) \o kv.bytes \in Seq(Byte)
      BY <1>1, ConcatType
    <2> QED
      BY <1>1, <2>1 DEF ValueOf
  <1>3. EncodeMoqtKeyValuePair(kv) = Varint(kv.type) \o ValueOf(kv)
    BY DEF EncodeMoqtKeyValuePair, ValueOf
  <1> QED
    BY <1>1, <1>2, <1>3, ConcatType

LEMMA PairsType ==
  ASSUME NEW ext \in Seq(NewMoqtKeyValuePair)
  PROVE  /\ [i \in DOMAIN ext |-> EncodeMoqtKeyValuePair(ext[i])] \in Seq(Seq(Byte))
         /\ Len([i \in DOMAIN ext |-> EncodeMoqtKeyValuePair(ext[i])]) = Len(ext)
         /\ Pairs(ext) \in Seq(Byte)
         /\ ext = <<>> => Pairs(ext) = <<>>
  <1> DEFINE s == [i \in DOMAIN ext |-> EncodeMoqtKeyValuePair(ext[i])]
  <1>1. \A i \in DOMAIN ext : EncodeMoqtKeyValuePair(ext[i]) \in Seq(Byte)
    BY PairType
  <1>2. DOMAIN ext = 1..Len(ext) /\ Len(ext) \in Nat
    OBVIOUS
  <1>3. s \in Seq(Seq(Byte)) /\ Len(s) = Len(ext)
    BY <1>1, <1>2
  <1>4. Pairs(ext) = FlattenSeq(s)
    BY DEF Pairs
  <1> HIDE DEF s
  <1>5. ext = <<>> => s = <<>>
    BY <1>3
  <1>6. FlattenSeq(s) \in Seq(Byte) /\ (s = <<>> => FlattenSeq(s) = <<>>)
    BY <1>3, FlattenType
  <1> QED
    BY <1>3, <1>4, <1>5, <1>6 DEF s

\* The pairs from k + 1 on are one pair and the pairs from k + 2 on.
LEMMA NextPair ==
  ASSUME NEW ext \in Seq(NewMoqtKeyValuePair), NEW k \in Nat, k < Len(ext)
  PROVE  /\ ext[k + 1] \in NewMoqtKeyValuePair
         /\ Pairs(After(ext, k)) = EncodeMoqtKeyValuePair(ext[k + 1]) \o Pairs(After(ext, k + 1))
  <1>1. PICK n \in Nat : n = Len(ext) /\ k + 1 <= n /\ k <= n
    OBVIOUS
  <1>2. PICK a, b \in Seq(NewMoqtKeyValuePair) : a = After(ext, k) /\ b = After(ext, k + 1)
    BY <1>1, AfterType
  <1>3. Len(a) = n - k /\ \A i \in 1..(n - k) : a[i] = ext[k + i]
    BY <1>1, <1>2, AfterType
  <1>4. Len(b) = n - (k + 1) /\ \A i \in 1..(n - (k + 1)) : b[i] = ext[(k + 1) + i]
    <2>1. k + 1 \in Nat
      OBVIOUS
    <2> QED
      BY <1>1, <1>2, <2>1, AfterType
  <1>5. \A i \in 1..Len(b) : b[i] = a[i + 1]
    <2> SUFFICES ASSUME NEW i \in 1..Len(b) PROVE b[i] = a[i + 1]
      OBVIOUS
    <2>1. i \in 1..(n - (k + 1)) /\ i + 1 \in 1..(n - k) /\ k + (i + 1) = (k + 1) + i
      BY <1>1, <1>4
    <2> QED
      BY <1>3, <1>4, <2>1
  <1>6. 1 \in 1..(n - k) /\ a[1] = ext[k + 1] /\ ext[k + 1] \in NewMoqtKeyValuePair
    <2>1. 1 \in 1..(n - k) /\ k + 1 \in 1..Len(ext)
      BY <1>1
    <2> QED
      BY <1>3, <2>1
  <1> DEFINE s == [i \in DOMAIN a |-> EncodeMoqtKeyValuePair(a[i])]
             t == [i \in DOMAIN b |-> EncodeMoqtKeyValuePair(b[i])]
  <1>7. s \in Seq(Seq(Byte)) /\ t \in Seq(Seq(Byte)) /\ Len(s) = Len(a) /\ Len(t) = Len(b)
    BY PairsType
  <1>8. Len(s) = Len(t) + 1 /\ s # <<>>
    <2> HIDE DEF s, t
    <2>1. Len(s) = Len(t) + 1 /\ Len(s) # 0
      BY <1>1, <1>3, <1>4, <1>7
    <2> QED
      BY <2>1
  <1>9. \A i \in 1..Len(t) : t[i] = s[i + 1]
    <2> SUFFICES ASSUME NEW i \in 1..Len(t) PROVE t[i] = s[i + 1]
      OBVIOUS
    <2>0. DOMAIN a = 1..Len(a) /\ DOMAIN b = 1..Len(b)
      OBVIOUS
    <2>1. i \in 1..Len(b) /\ i + 1 \in 1..Len(a)
      <3> HIDE DEF s, t
      <3>1. i \in 1..Len(b)
        BY <1>7
      <3> QED
        BY <1>1, <1>3, <1>4, <3>1
    <2> QED
      BY <1>5, <2>0, <2>1
  <1>10. s[1] = EncodeMoqtKeyValuePair(ext[k + 1])
    <2>1. 1 \in DOMAIN a
      BY <1>3, <1>6
    <2> QED
      BY <1>6, <2>1
  <1>11. Pairs(a) = FlattenSeq(s) /\ Pairs(b) = FlattenSeq(t)
    BY DEF Pairs
  <1> HIDE DEF s, t
  <1>12. FlattenSeq(s) = s[1] \o FlattenSeq(t)
    BY <1>7, <1>8, <1>9, FlattenFront
  <1> QED
    BY <1>2, <1>6, <1>10, <1>11, <1>12

LEMMA ClosingType ==
  ASSUME NEW d \in Shape
  PROVE  /\ Closing(d) \in Seq(Byte)
         /\ d.status # <<>> => d.status = <<d.status[1]>> /\ d.status[1] \in VarintValues
         /\ d.payload # <<>> => d.payload = <<d.payload[1]>> /\ d.payload[1] \in Seq(Byte)
         /\ d.priority # <<>> => d.priority = <<d.priority[1]>>
         /\ d.extensions # <<>> =>
               d.extensions = <<d.extensions[1]>> /\ d.extensions[1] \in ExtensionLists
  <1>1. \A S : \A s \in Nullable(S) : s # <<>> => s = <<s[1]>> /\ s[1] \in S
    <2> SUFFICES ASSUME NEW S, NEW s \in Nullable(S), s # <<>> PROVE s = <<s[1]>> /\ s[1] \in S
      OBVIOUS
    <2>1. s \in Seq(S) /\ Len(s) <= 1
      BY DEF Nullable
    <2>2. Len(s) \in Nat /\ Len(s) # 0
      BY <2>1
    <2>3. Len(s) = 1
      BY <2>1, <2>2
    <2> QED
      BY <2>1, <2>3
  <1>2. /\ d.status \in Nullable(VarintValues) /\ d.payload \in Nullable(Seq(Byte))
        /\ d.priority \in Nullable(Byte) /\ d.extensions \in Nullable(ExtensionLists)
    BY DEF Shape
  <1>3. d.status # <<>> => Varint(d.status[1]) \in Seq(Byte)
    BY <1>1, <1>2, VarintType
  <1>4. <<>> \in Seq(Byte)
    OBVIOUS
  <1>5. Closing(d) \in Seq(Byte)
    BY <1>1, <1>2, <1>3, <1>4 DEF Closing
  <1> QED
    BY <1>1, <1>2, <1>5

LEMMA FromTypes ==
  ASSUME NEW d \in Shape, d.type.id \in VarintValues
  PROVE  /\ FromExtensions(d) \in Seq(Byte) /\ FromPriority(d) \in Seq(Byte)
         /\ FromObject(d) \in Seq(Byte) /\ FromGroup(d) \in Seq(Byte)
         /\ FromAlias(d) \in Seq(Byte) /\ FromType(d) \in Seq(Byte)
  <1>1. d.extensions # <<>> => EncodeExtensions(d.extensions[1]) \in Seq(Byte)
    <2> SUFFICES ASSUME d.extensions # <<>>
                 PROVE  EncodeExtensions(d.extensions[1]) \in Seq(Byte)
      OBVIOUS
    <2>1. d.extensions[1] \in Seq(NewMoqtKeyValuePair) /\ Len(d.extensions[1]) \in VarintValues
      BY ClosingType DEF ExtensionLists
    <2>2. Varint(Len(d.extensions[1])) \in Seq(Byte) /\ Pairs(d.extensions[1]) \in Seq(Byte)
      BY <2>1, PairsType, VarintType
    <2> QED
      BY <2>2, ConcatType DEF EncodeExtensions
  <1>2. FromExtensions(d) \in Seq(Byte)
    <2>1. <<>> \in Seq(Byte)
      OBVIOUS
    <2> QED
      BY <1>1, <2>1, ClosingType, ConcatType DEF FromExtensions
  <1>3. FromPriority(d) \in Seq(Byte)
    <2>1. d.priority \in Seq(Byte)
      BY DEF Shape, Nullable
    <2> QED
      BY <1>2, <2>1, ConcatType DEF FromPriority
  <1>4. /\ Varint(d.object) \in Seq(Byte) /\ Varint(d.group) \in Seq(Byte)
        /\ Varint(d.alias) \in Seq(Byte) /\ Varint(d.type.id) \in Seq(Byte)
    <2>1. d.object \in VarintValues /\ d.group \in VarintValues /\ d.alias \in VarintValues
      BY DEF Shape
    <2> QED
      BY <2>1, VarintType
  <1>5. FromObject(d) \in Seq(Byte)
    BY <1>3, <1>4, ConcatType DEF FromObject
  <1>6. FromGroup(d) \in Seq(Byte)
    BY <1>4, <1>5, ConcatType DEF FromGroup
  <1>7. FromAlias(d) \in Seq(Byte)
    BY <1>4, <1>6, ConcatType DEF FromAlias
  <1>8. FromType(d) \in Seq(Byte)
    BY <1>4, <1>7, ConcatType DEF FromType
  <1> QED
    BY <1>2, <1>3, <1>5, <1>6, <1>7, <1>8

\* The encoding is the first field followed by the rest, however it was put together.
LEMMA Encoded ==
  ASSUME NEW d \in Shape, d.type.id \in VarintValues
  PROVE  EncodeObjectDatagram(d) = FromType(d)
  <1> DEFINE ext == IF d.extensions = <<>> THEN <<>> ELSE EncodeExtensions(d.extensions[1])
  <1>1. PICK t, a, g, o, p, e, c \in Seq(Byte) :
            /\ t = Varint(d.type.id) /\ a = Varint(d.alias)
            /\ g = Varint(d.group) /\ o = Varint(d.object)
            /\ p = d.priority /\ e = ext /\ c = Closing(d)
    <2>1. /\ Varint(d.object) \in Seq(Byte) /\ Varint(d.group) \in Seq(Byte)
          /\ Varint(d.alias) \in Seq(Byte) /\ Varint(d.type.id) \in Seq(Byte)
      BY VarintType DEF Shape
    <2>2. d.priority \in Seq(Byte)
      BY DEF Shape, Nullable
    <2>3. ext \in Seq(Byte)
      <3>1. CASE d.extensions = <<>>
        BY <3>1
      <3>2. CASE d.extensions # <<>>
        <4>1. d.extensions[1] \in Seq(NewMoqtKeyValuePair) /\ Len(d.extensions[1]) \in VarintValues
          BY <3>2, ClosingType DEF ExtensionLists
        <4>2. Varint(Len(d.extensions[1])) \in Seq(Byte) /\ Pairs(d.extensions[1]) \in Seq(Byte)
          BY <4>1, PairsType, VarintType
        <4> QED
          BY <3>2, <4>2, ConcatType DEF EncodeExtensions
      <3> QED
        BY <3>1, <3>2
    <2> HIDE DEF ext
    <2> QED
      BY <2>1, <2>2, <2>3, ClosingType
  <1>2. EncodeObjectDatagram(d) = (((t \o a) \o (g \o o)) \o ((p \o e) \o c))
    BY <1>1 DEF EncodeObjectDatagram, EncodeMoqtLocation, EncodeOptional, Closing
  <1>3. FromType(d) = t \o (a \o (g \o (o \o (p \o (e \o c)))))
    BY <1>1 DEF FromType, FromAlias, FromGroup, FromObject, FromPriority, FromExtensions
  <1>4. PICK x, y, z \in Seq(Byte) : x = p \o (e \o c) /\ y = o \o x /\ z = g \o y
    <2>1. p \o (e \o c) \in Seq(Byte)
      BY ConcatType
    <2>2. PICK x \in Seq(Byte) : x = p \o (e \o c)
      BY <2>1
    <2>3. PICK y \in Seq(Byte) : y = o \o x
      BY ConcatType
    <2>4. g \o y \in Seq(Byte)
      BY ConcatType
    <2> QED
      BY <2>2, <2>3, <2>4
  <1>5. (p \o e) \o c = x
    <2>1. Regroups(p, e, c)
      BY Regroup
    <2> QED
      BY <1>4, <2>1 DEF Regroups
  <1>6. (g \o o) \o x = z
    <2>1. Regroups(g, o, x)
      BY Regroup
    <2> QED
      BY <1>4, <2>1 DEF Regroups
  <1>7. ((t \o a) \o (g \o o)) \o x = (t \o a) \o ((g \o o) \o x)
    <2>1. t \o a \in Seq(Byte) /\ g \o o \in Seq(Byte)
      BY ConcatType
    <2>2. Regroups(t \o a, g \o o, x)
      BY <2>1, Regroup
    <2> QED
      BY <2>2 DEF Regroups
  <1>8. (t \o a) \o z = t \o (a \o z)
    <2>1. Regroups(t, a, z)
      BY Regroup
    <2> QED
      BY <2>1 DEF Regroups
  <1> QED
    BY <1>2, <1>3, <1>4, <1>5, <1>6, <1>7, <1>8

\* The header and the payload after it are the same bytes.
LEMMA EncodedInTwo ==
  ASSUME NEW d \in Shape, d.type.id \in VarintValues, d.status = <<>>, d.payload # <<>>
  PROVE  EncodeObjectDatagramHeader(d) \o d.payload[1] = FromType(d)
  <1> DEFINE h == [d EXCEPT !.payload = <<>>]
  <1>1. h \in Shape
    BY Missing DEF Shape
  <1>2. /\ h.type = d.type /\ h.alias = d.alias /\ h.group = d.group /\ h.object = d.object
        /\ h.priority = d.priority /\ h.extensions = d.extensions
        /\ h.status = <<>> /\ h.payload = <<>>
    BY DEF Shape
  <1>3. EncodeObjectDatagramHeader(d) = EncodeObjectDatagram(h)
    BY DEF EncodeObjectDatagramHeader
  <1> HIDE DEF h
  <1>4. EncodeObjectDatagram(h) = FromType(h)
    BY <1>1, <1>2, Encoded
  <1>5. PICK y \in Seq(Byte) : y = d.payload[1]
    BY ClosingType
  <1>6. /\ FromExtensions(h) \in Seq(Byte) /\ FromPriority(h) \in Seq(Byte)
        /\ FromObject(h) \in Seq(Byte) /\ FromGroup(h) \in Seq(Byte)
        /\ FromAlias(h) \in Seq(Byte) /\ FromType(h) \in Seq(Byte)
    BY <1>1, <1>2, FromTypes
  <1>7. FromExtensions(h) \o y = FromExtensions(d)
    <2> DEFINE e == IF d.extensions = <<>> THEN <<>> ELSE EncodeExtensions(d.extensions[1])
    <2>1. Closing(d) = y /\ Closing(h) = <<>>
      BY <1>2, <1>5 DEF Closing
    <2>2. FromExtensions(d) = e \o y /\ FromExtensions(h) = e \o <<>>
      BY <1>2, <2>1 DEF FromExtensions
    <2>3. e \in Seq(Byte)
      <3>1. CASE d.extensions = <<>>
        BY <3>1
      <3>2. CASE d.extensions # <<>>
        <4>1. d.extensions[1] \in Seq(NewMoqtKeyValuePair) /\ Len(d.extensions[1]) \in VarintValues
          BY <3>2, ClosingType DEF ExtensionLists
        <4>2. Varint(Len(d.extensions[1])) \in Seq(Byte) /\ Pairs(d.extensions[1]) \in Seq(Byte)
          BY <4>1, PairsType, VarintType
        <4> QED
          BY <3>2, <4>2, ConcatType DEF EncodeExtensions
      <3> QED
        BY <3>1, <3>2
    <2> HIDE DEF e
    <2>4. e \o <<>> = e
      BY <2>3, ConcatEmptySeq
    <2> QED
      BY <2>2, <2>4
  <1>8. /\ d.priority \in Seq(Byte) /\ Varint(d.object) \in Seq(Byte)
        /\ Varint(d.group) \in Seq(Byte) /\ Varint(d.alias) \in Seq(Byte)
        /\ Varint(d.type.id) \in Seq(Byte)
    <2>1. d.object \in VarintValues /\ d.group \in VarintValues /\ d.alias \in VarintValues
      BY DEF Shape
    <2>2. d.priority \in Seq(Byte)
      BY DEF Shape, Nullable
    <2> QED
      BY <2>1, <2>2, VarintType
  <1>9. FromPriority(h) \o y = FromPriority(d)
    <2>1. Regroups(d.priority, FromExtensions(h), y)
      BY <1>6, <1>8, Regroup
    <2> QED
      BY <1>2, <1>7, <2>1 DEF Regroups, FromPriority
  <1>10. FromObject(h) \o y = FromObject(d)
    <2>1. Regroups(Varint(d.object), FromPriority(h), y)
      BY <1>6, <1>8, Regroup
    <2> QED
      BY <1>2, <1>9, <2>1 DEF Regroups, FromObject
  <1>11. FromGroup(h) \o y = FromGroup(d)
    <2>1. Regroups(Varint(d.group), FromObject(h), y)
      BY <1>6, <1>8, Regroup
    <2> QED
      BY <1>2, <1>10, <2>1 DEF Regroups, FromGroup
  <1>12. FromAlias(h) \o y = FromAlias(d)
    <2>1. Regroups(Varint(d.alias), FromGroup(h), y)
      BY <1>6, <1>8, Regroup
    <2> QED
      BY <1>2, <1>11, <2>1 DEF Regroups, FromAlias
  <1>13. FromType(h) \o y = FromType(d)
    <2>1. Regroups(Varint(d.type.id), FromAlias(h), y)
      BY <1>6, <1>8, Regroup
    <2> QED
      BY <1>2, <1>12, <2>1 DEF Regroups, FromType
  <1> QED
    BY <1>3, <1>4, <1>5, <1>13

-----------------------------------------------------------------------------
(* The decoder moves on *)

\* What holds of a constructed datagram.
LEMMA Construction ==
  ASSUME DInv, Constructed
  PROVE  /\ dg \in Shape /\ dg.type.id \in VarintValues
         /\ KnownTypeID(dg.type.id) /\ NewObjectDatagramType(dg.type.id) = dg.type
         /\ dg.type.priority <=> dg.priority # <<>>
         /\ dg.type.extensions <=> dg.extensions # <<>>
         /\ dg.type.status <=> dg.status # <<>>
         /\ dg.status # <<>> <=> dg.payload = <<>>
  <1>1. /\ dg \in Shape /\ dg.type \in Flags /\ ~(dg.type.status /\ dg.type.endOfGroup)
        /\ dg.type.id = ToUInt64(dg.type)
    BY DEF DInv, Shape
  <1>2. dg.type.id \in 0..45
    BY <1>1, Bits
  <1>3. dg.type.id \in VarintValues
    <2>1. 45 < 64 * 256 * 256 * 256
      BY SMT
    <2> QED
      BY <1>2, <2>1, SMT DEF VarintValues
  <1>4. KnownTypeID(dg.type.id) /\ NewObjectDatagramType(dg.type.id) = dg.type
    BY TypeTells DEF TypeTellsFields
  <1> QED
    BY <1>1, <1>3, <1>4 DEF DInv, FieldsMatch

LEMMA TypeOfShape ==
  ASSUME NEW d \in Shape, d.type.id \in 0..45
  PROVE  d.type \in DatagramType /\ Readable(d)
  <1>1. d.type \in DatagramType
    BY DEF Shape, Flags, DatagramType
  <1>2. \A S, T : S \subseteq T => \A s \in Nullable(S) : s \in Seq(T) /\ Len(s) <= 1
    BY DEF Nullable
  <1>3. VarintValues \subseteq Nat /\ ExtensionLists \subseteq Seq(KeyValuePair)
    <2>1. NewMoqtKeyValuePair \subseteq KeyValuePair
      BY DEF NewMoqtKeyValuePair
    <2> QED
      BY <2>1, VarintRange DEF ExtensionLists
  <1>4. d.alias \in Nat /\ d.group \in Nat /\ d.object \in Nat
    BY <1>3 DEF Shape
  <1>5. d.priority \in Seq(Byte) /\ Len(d.priority) <= 1
    BY <1>2 DEF Shape
  <1>6. d.extensions \in Seq(Seq(KeyValuePair)) /\ Len(d.extensions) <= 1
    BY <1>2, <1>3 DEF Shape
  <1>7. d.status \in Seq(Nat) /\ Len(d.status) <= 1
    BY <1>2, <1>3 DEF Shape
  <1>8. d.payload \in Seq(Seq(Byte)) /\ Len(d.payload) <= 1
    BY <1>2 DEF Shape
  <1>9. d \in Datagram
    BY <1>1, <1>4, <1>5, <1>6, <1>7, <1>8 DEF Shape, Datagram
  <1> QED
    BY <1>1, <1>5, <1>6, <1>7, <1>8, <1>9 DEF Readable

LEMMA TypeOfBlank == Readable(Blank(0, 0))
  <1>1. ZeroType \in DatagramType
    BY DEF ZeroType, DatagramType
  <1>2. Blank(0, 0) \in Datagram
    BY <1>1 DEF Blank, Datagram
  <1> QED
    BY <1>2 DEF Readable, Blank

LEMMA TypeOfKnown ==
  ASSUME NEW d \in Shape, d.type.id \in 0..45, NEW n \in Nat,
         NEW e \in Seq(Seq(KeyValuePair)), Len(e) <= 1
  PROVE  Readable(Known(d, n, e))
  <1>1. d.type \in DatagramType /\ d \in Datagram /\ Len(d.priority) <= 1
    BY TypeOfShape DEF Readable
  <1>2. ZeroType \in DatagramType
    BY DEF ZeroType, DatagramType
  <1>3. Known(d, n, e) \in Datagram
    BY <1>1, <1>2 DEF Known, Datagram
  <1>4. Len(Known(d, n, e).priority) <= 1
    BY <1>1 DEF Known
  <1> QED
    BY <1>3, <1>4 DEF Readable, Known

\* What the decoder has made of the bytes so far has the type of a datagram.
LEMMA OutType == ASSUME DInv, RInv PROVE Readable(out)
  <1>1. CASE stage \in {"options", "refused", "built"}
    <2>1. out = Known(dg, 0, <<>>)
      BY <1>1 DEF RInv, Place
    <2>2. Known(dg, 0, <<>>) = Blank(0, 0)
      BY DEF Known, Blank
    <2> QED
      BY <2>1, <2>2, TypeOfBlank
  <1>2. CASE stage = "error"
    BY <1>2 DEF RInv, Place
  <1>3. CASE stage \notin {"options", "refused", "built", "error"}
    <2>1. Constructed /\ stage \in Stages
      BY <1>3 DEF RInv, Place, Typed
    <2>2. PICK d : d = dg
      OBVIOUS
    <2>3. d \in Shape /\ d.type.id \in 0..45
      BY <2>1, <2>2, Bits DEF DInv, Shape
    <2>4. d.extensions \in Seq(Seq(KeyValuePair)) /\ Len(d.extensions) <= 1 /\ Readable(d)
      BY <2>3, TypeOfShape DEF Readable, Datagram
    <2>5. CASE stage \in {"type", "alias", "group", "object", "priority", "count"}
      <3>1. PICK n \in Nat : out = Known(d, n, <<>>)
        BY <2>2, <2>5 DEF RInv, Place
      <3>2. <<>> \in Seq(Seq(KeyValuePair)) /\ Len(<<>>) <= 1
        OBVIOUS
      <3> QED
        BY <2>3, <3>1, <3>2, TypeOfKnown
    <2>6. CASE stage \in {"pairType", "pairNumber", "pairBytes"}
      <3>1. PICK k \in Nat : PairInv(k)
        BY <2>6 DEF RInv, Place
      <3>2. PICK ext : ext = d.extensions[1]
        OBVIOUS
      <3>3. d.extensions # <<>> /\ k < Len(ext) /\ out = Known(d, 5, <<SubSeq(ext, 1, k)>>)
        BY <2>2, <3>1, <3>2 DEF PairInv, Within
      <3>4. ext \in Seq(KeyValuePair)
        BY <2>4, <3>2, <3>3
      <3>5. PICK s : s = SubSeq(ext, 1, k)
        OBVIOUS
      <3>6. s \in Seq(KeyValuePair)
        BY <3>3, <3>4, <3>5
      <3>7. <<s>> \in Seq(Seq(KeyValuePair)) /\ Len(<<s>>) <= 1
        BY <3>6
      <3> QED
        BY <2>3, <3>3, <3>5, <3>7, TypeOfKnown
    <2>7. CASE stage \in {"status", "payload"}
      <3>1. out = Known(d, 5, d.extensions)
        BY <2>2, <2>7 DEF RInv, Place
      <3> QED
        BY <2>3, <2>4, <3>1, TypeOfKnown
    <2>8. CASE stage = "decoded"
      <3>1. Ends
        BY <2>8 DEF RInv, Place
      <3>2. CASE out = d
        BY <2>4, <3>2
      <3>3. CASE out # d
        <4>1. PICK p \in Seq(Byte) : out = [Known(d, 5, d.extensions) EXCEPT !.payload = <<p>>]
          BY <2>2, <3>1, <3>3 DEF Ends, Shortened
        <4>2. PICK e : e = Known(d, 5, d.extensions)
          OBVIOUS
        <4>3. Readable(e)
          BY <2>3, <2>4, <4>2, TypeOfKnown
        <4>4. <<p>> \in Seq(Seq(Byte)) /\ Len(<<p>>) <= 1
          OBVIOUS
        <4> QED
          BY <4>1, <4>2, <4>3, <4>4 DEF Readable, Datagram
      <3> QED
        BY <3>2, <3>3
    <2> QED
      BY <1>3, <2>1, <2>5, <2>6, <2>7, <2>8 DEF Stages
  <1> QED
    BY <1>1, <1>2, <1>3

\* An error is only ever for want of bytes.
LEMMA Rejected ==
  ASSUME DInv, RInv, Reject, Kept, parsed + Len(rest) < Len(wire)
  PROVE  RInv'
  <1>1. Typed'
    BY DEF RInv, Typed, Reject, Kept, Stages
  <1>2. Place'
    BY OutType DEF Place, Reject, Kept, Constructed, Readable
  <1> QED
    BY <1>1, <1>2 DEF RInv

LEMMA Moved ==
  ASSUME Typed, Kept, NEW b, At(rest', parsed', wire', b),
         stage' \in Stages, left' \in Nat, pair' \in KeyValuePair
  PROVE  Typed'
  BY DEF Typed, Kept, At

\* The stages that follow an optional field.
LEMMA ReachClosing ==
  ASSUME DInv, Constructed, Typed, Kept, out.type = dg.type, stage' = AfterExtensions,
         out' = Known(dg, 5, dg.extensions), At(rest', parsed', wire', Closing(dg)),
         left' \in Nat, pair' \in KeyValuePair
  PROVE  RInv'
  <1>1. PICK d : d = dg /\ d = dg'
    BY DEF Kept
  <1>2. d.type.status <=> d.status # <<>>
    BY <1>1, Construction
  <1>3. stage' = IF d.status # <<>> THEN "status" ELSE "payload"
    BY <1>1, <1>2 DEF AfterExtensions
  <1>4. Typed'
    BY <1>3, Moved DEF Stages
  <1>5. out' = Known(d, 5, d.extensions) /\ At(rest', parsed', wire', Closing(d))
    BY <1>1
  <1>6. Place'
    BY <1>1, <1>3, <1>5 DEF Place, Here, Constructed
  <1> QED
    BY <1>4, <1>6 DEF RInv

LEMMA ReachExtensions ==
  ASSUME DInv, Constructed, Typed, Kept, out.type = dg.type, stage' = AfterPriority,
         out' = Known(dg, 5, <<>>), At(rest', parsed', wire', FromExtensions(dg)),
         left' \in Nat, pair' \in KeyValuePair
  PROVE  RInv'
  <1>1. PICK d : d = dg /\ d = dg'
    BY DEF Kept
  <1>2. d \in Shape /\ (d.type.extensions <=> d.extensions # <<>>)
    BY <1>1, Construction
  <1>3. CASE d.extensions = <<>>
    <2>1. FromExtensions(d) = Closing(d)
      <3>1. FromExtensions(d) = <<>> \o Closing(d)
        BY <1>3 DEF FromExtensions
      <3> QED
        BY <1>2, <3>1, ClosingType, ConcatEmptySeq
    <2>2. stage' = AfterExtensions
      BY <1>1, <1>2, <1>3 DEF AfterPriority
    <2>3. out' = Known(dg, 5, dg.extensions) /\ At(rest', parsed', wire', Closing(dg))
      BY <1>1, <1>3, <2>1
    <2> QED
      BY <2>2, <2>3, ReachClosing
  <1>4. CASE d.extensions # <<>>
    <2>1. stage' = "count"
      BY <1>1, <1>2, <1>4 DEF AfterPriority
    <2>2. Typed'
      BY <2>1, Moved DEF Stages
    <2>3. out' = Known(d, 5, <<>>) /\ At(rest', parsed', wire', FromExtensions(d))
      BY <1>1
    <2>4. Place'
      BY <1>1, <1>4, <2>1, <2>3 DEF Place, Here, Constructed
    <2> QED
      BY <2>2, <2>4 DEF RInv
  <1> QED
    BY <1>3, <1>4

\* One more field is known.
LEMMA Learned ==
  ASSUME NEW d, NEW e
  PROVE  /\ [Known(d, 0, e) EXCEPT !.type = d.type] = Known(d, 1, e)
         /\ [Known(d, 1, e) EXCEPT !.alias = d.alias] = Known(d, 2, e)
         /\ [Known(d, 2, e) EXCEPT !.group = d.group] = Known(d, 3, e)
         /\ [Known(d, 3, e) EXCEPT !.object = d.object] = Known(d, 4, e)
         /\ [Known(d, 4, e) EXCEPT !.priority = d.priority] = Known(d, 5, e)
  <1>1. [Known(d, 0, e) EXCEPT !.type = d.type] = Known(d, 1, e)
    BY DEF Known
  <1>2. [Known(d, 1, e) EXCEPT !.alias = d.alias] = Known(d, 2, e)
    BY DEF Known
  <1>3. [Known(d, 2, e) EXCEPT !.group = d.group] = Known(d, 3, e)
    BY DEF Known
  <1>4. [Known(d, 3, e) EXCEPT !.object = d.object] = Known(d, 4, e)
    BY DEF Known
  <1>5. [Known(d, 4, e) EXCEPT !.priority = d.priority] = Known(d, 5, e)
    BY DEF Known
  <1> QED
    BY <1>1, <1>2, <1>3, <1>4, <1>5

LEMMA ReadType == ASSUME DInv, RInv, DecodeType PROVE RInv'
  <1>1. /\ Typed /\ Constructed /\ Kept /\ stage = "type"
        /\ out = Known(dg, 0, <<>>) /\ Here(FromType(dg))
    BY DEF RInv, Place, DecodeType
  <1>2. PICK d : d = dg /\ d = dg'
    BY <1>1 DEF Kept
  <1>3. PICK v : v = d.type.id
    OBVIOUS
  <1>4. v \in VarintValues /\ FromAlias(d) \in Seq(Byte)
        /\ KnownTypeID(v) /\ NewObjectDatagramType(v) = d.type
    BY <1>1, <1>2, <1>3, Construction, FromTypes
  <1>5. At(rest, parsed, wire, Varint(v) \o FromAlias(d))
    BY <1>1, <1>2, <1>3 DEF Here, FromType
  <1>6. CASE HasVarint(rest)
    <2>1. VarintOf(rest) = v
      BY <1>4, <1>5, <1>6, VarintRead
    <2>2. /\ Advance(VarintWidth(rest), "alias") /\ UNCHANGED <<left, pair>>
          /\ out' = [out EXCEPT !.type = d.type]
      BY <1>4, <1>6, <2>1 DEF DecodeType
    <2>3. stage' = "alias" /\ At(rest', parsed', wire', FromAlias(d))
      BY <1>1, <1>4, <1>5, <1>6, <2>2, VarintRead DEF Advance, Kept
    <2>4. out' = Known(d, 1, <<>>)
      <3>1. out' = [Known(d, 0, <<>>) EXCEPT !.type = d.type]
        BY <1>1, <1>2, <2>2
      <3>2. [Known(d, 0, <<>>) EXCEPT !.type = d.type] = Known(d, 1, <<>>)
        BY Learned
      <3> QED
        BY <3>1, <3>2
    <2>5. Typed'
      BY <1>1, <2>2, <2>3, Moved DEF Typed, Stages
    <2>6. Place'
      BY <1>2, <2>3, <2>4 DEF Place, Here, Constructed
    <2> QED
      BY <2>5, <2>6 DEF RInv
  <1>7. CASE ~HasVarint(rest)
    <2>1. parsed + Len(rest) < Len(wire)
      BY <1>4, <1>5, <1>7, VarintRead
    <2>2. Reject
      BY <1>7 DEF DecodeType
    <2> QED
      BY <1>1, <2>1, <2>2, Rejected
  <1> QED
    BY <1>6, <1>7

LEMMA ReadAlias == ASSUME DInv, RInv, DecodeAlias PROVE RInv'
  <1>1. /\ Typed /\ Constructed /\ Kept /\ stage = "alias"
        /\ out = Known(dg, 1, <<>>) /\ Here(FromAlias(dg))
    BY DEF RInv, Place, DecodeAlias
  <1>2. PICK d : d = dg /\ d = dg'
    BY <1>1 DEF Kept
  <1>3. PICK v : v = d.alias
    OBVIOUS
  <1>4. v \in VarintValues /\ FromGroup(d) \in Seq(Byte)
    BY <1>1, <1>2, <1>3, Construction, FromTypes DEF Shape
  <1>5. At(rest, parsed, wire, Varint(v) \o FromGroup(d))
    BY <1>1, <1>2, <1>3 DEF Here, FromAlias
  <1>6. CASE HasVarint(rest)
    <2>1. VarintOf(rest) = v
      BY <1>4, <1>5, <1>6, VarintRead
    <2>2. /\ Advance(VarintWidth(rest), "group") /\ UNCHANGED <<left, pair>>
          /\ out' = [out EXCEPT !.alias = v]
      BY <1>6, <2>1 DEF DecodeAlias
    <2>3. stage' = "group" /\ At(rest', parsed', wire', FromGroup(d))
      BY <1>1, <1>4, <1>5, <1>6, <2>2, VarintRead DEF Advance, Kept
    <2>4. out' = Known(d, 2, <<>>)
      <3>1. out' = [Known(d, 1, <<>>) EXCEPT !.alias = d.alias]
        BY <1>1, <1>2, <1>3, <2>2
      <3>2. [Known(d, 1, <<>>) EXCEPT !.alias = d.alias] = Known(d, 2, <<>>)
        BY Learned
      <3> QED
        BY <3>1, <3>2
    <2>5. Typed'
      BY <1>1, <2>2, <2>3, Moved DEF Typed, Stages
    <2>6. Place'
      BY <1>2, <2>3, <2>4 DEF Place, Here, Constructed
    <2> QED
      BY <2>5, <2>6 DEF RInv
  <1>7. CASE ~HasVarint(rest)
    <2>1. parsed + Len(rest) < Len(wire)
      BY <1>4, <1>5, <1>7, VarintRead
    <2>2. Reject
      BY <1>7 DEF DecodeAlias
    <2> QED
      BY <1>1, <2>1, <2>2, Rejected
  <1> QED
    BY <1>6, <1>7

LEMMA ReadGroup == ASSUME DInv, RInv, DecodeGroup PROVE RInv'
  <1>1. /\ Typed /\ Constructed /\ Kept /\ stage = "group"
        /\ out = Known(dg, 2, <<>>) /\ Here(FromGroup(dg))
    BY DEF RInv, Place, DecodeGroup
  <1>2. PICK d : d = dg /\ d = dg'
    BY <1>1 DEF Kept
  <1>3. PICK v : v = d.group
    OBVIOUS
  <1>4. v \in VarintValues /\ FromObject(d) \in Seq(Byte)
    BY <1>1, <1>2, <1>3, Construction, FromTypes DEF Shape
  <1>5. At(rest, parsed, wire, Varint(v) \o FromObject(d))
    BY <1>1, <1>2, <1>3 DEF Here, FromGroup
  <1>6. CASE HasVarint(rest)
    <2>1. VarintOf(rest) = v
      BY <1>4, <1>5, <1>6, VarintRead
    <2>2. /\ Advance(VarintWidth(rest), "object") /\ UNCHANGED <<left, pair>>
          /\ out' = [out EXCEPT !.group = v]
      BY <1>6, <2>1 DEF DecodeGroup
    <2>3. stage' = "object" /\ At(rest', parsed', wire', FromObject(d))
      BY <1>1, <1>4, <1>5, <1>6, <2>2, VarintRead DEF Advance, Kept
    <2>4. out' = Known(d, 3, <<>>)
      <3>1. out' = [Known(d, 2, <<>>) EXCEPT !.group = d.group]
        BY <1>1, <1>2, <1>3, <2>2
      <3>2. [Known(d, 2, <<>>) EXCEPT !.group = d.group] = Known(d, 3, <<>>)
        BY Learned
      <3> QED
        BY <3>1, <3>2
    <2>5. Typed'
      BY <1>1, <2>2, <2>3, Moved DEF Typed, Stages
    <2>6. Place'
      BY <1>2, <2>3, <2>4 DEF Place, Here, Constructed
    <2> QED
      BY <2>5, <2>6 DEF RInv
  <1>7. CASE ~HasVarint(rest)
    <2>1. parsed + Len(rest) < Len(wire)
      BY <1>4, <1>5, <1>7, VarintRead
    <2>2. Reject
      BY <1>7 DEF DecodeGroup
    <2> QED
      BY <1>1, <2>1, <2>2, Rejected
  <1> QED
    BY <1>6, <1>7

LEMMA ReadObject == ASSUME DInv, RInv, DecodeObject PROVE RInv'
  <1>1. /\ Typed /\ Constructed /\ Kept /\ stage = "object"
        /\ out = Known(dg, 3, <<>>) /\ Here(FromObject(dg))
    BY DEF RInv, Place, DecodeObject
  <1>2. PICK d : d = dg /\ d = dg'
    BY <1>1 DEF Kept
  <1>3. PICK v : v = d.object
    OBVIOUS
  <1>4. v \in VarintValues /\ FromPriority(d) \in Seq(Byte) /\ FromExtensions(d) \in Seq(Byte)
        /\ (d.type.priority <=> d.priority # <<>>)
    BY <1>1, <1>2, <1>3, Construction, FromTypes DEF Shape
  <1>5. At(rest, parsed, wire, Varint(v) \o FromPriority(d))
    BY <1>1, <1>2, <1>3 DEF Here, FromObject
  <1>6. CASE HasVarint(rest)
    <2>1. VarintOf(rest) = v
      BY <1>4, <1>5, <1>6, VarintRead
    <2>2. /\ Advance(VarintWidth(rest), AfterObject) /\ UNCHANGED <<left, pair>>
          /\ out' = [out EXCEPT !.object = v]
      BY <1>6, <2>1 DEF DecodeObject
    <2>3. stage' = AfterObject /\ At(rest', parsed', wire', FromPriority(d))
      BY <1>1, <1>4, <1>5, <1>6, <2>2, VarintRead DEF Advance, Kept
    <2>4. out' = Known(d, 4, <<>>) /\ out.type = d.type
      <3>1. out.type = d.type
        BY <1>1, <1>2 DEF Known
      <3>2. out' = [Known(d, 3, <<>>) EXCEPT !.object = d.object]
        BY <1>1, <1>2, <1>3, <2>2
      <3>3. [Known(d, 3, <<>>) EXCEPT !.object = d.object] = Known(d, 4, <<>>)
        BY Learned
      <3> QED
        BY <3>1, <3>2, <3>3
    <2>5. left' \in Nat /\ pair' \in KeyValuePair
      BY <1>1, <2>2 DEF Typed
    <2>6. CASE d.priority = <<>>
      <3>1. FromPriority(d) = FromExtensions(d)
        BY <1>4, <2>6, ConcatEmptySeq DEF FromPriority
      <3>2. stage' = AfterPriority
        BY <1>4, <2>3, <2>4, <2>6 DEF AfterObject
      <3>3. out' = Known(d, 5, <<>>)
        BY <2>4, <2>6 DEF Known
      <3> QED
        BY <1>1, <1>2, <2>3, <2>4, <2>5, <3>1, <3>2, <3>3, ReachExtensions
    <2>7. CASE d.priority # <<>>
      <3>1. stage' = "priority"
        BY <1>4, <2>3, <2>4, <2>7 DEF AfterObject
      <3>2. Typed'
        BY <1>1, <2>3, <2>5, <3>1, Moved DEF Stages
      <3>3. Place'
        BY <1>2, <2>3, <2>4, <2>7, <3>1 DEF Place, Here, Constructed
      <3> QED
        BY <3>2, <3>3 DEF RInv
    <2> QED
      BY <2>6, <2>7
  <1>7. CASE ~HasVarint(rest)
    <2>1. parsed + Len(rest) < Len(wire)
      BY <1>4, <1>5, <1>7, VarintRead
    <2>2. Reject
      BY <1>7 DEF DecodeObject
    <2> QED
      BY <1>1, <2>1, <2>2, Rejected
  <1> QED
    BY <1>6, <1>7

LEMMA ReadPriority == ASSUME DInv, RInv, DecodePriority PROVE RInv'
  <1>1. /\ Typed /\ Constructed /\ Kept /\ stage = "priority"
        /\ out = Known(dg, 4, <<>>) /\ dg.priority # <<>> /\ Here(FromPriority(dg))
    BY DEF RInv, Place, DecodePriority
  <1>2. PICK d : d = dg /\ d = dg'
    BY <1>1 DEF Kept
  <1>3. d \in Shape /\ FromExtensions(d) \in Seq(Byte) /\ d.priority = <<d.priority[1]>>
    BY <1>1, <1>2, Construction, FromTypes, ClosingType
  <1>4. d.priority \in Seq(Byte) /\ Len(d.priority) = 1
    BY <1>3 DEF Shape, Nullable
  <1>5. PICK a, b \in Seq(Byte) : a = d.priority /\ b = FromExtensions(d)
    BY <1>3, <1>4
  <1>6. At(rest, parsed, wire, a \o b) /\ Len(a) = 1
    BY <1>1, <1>2, <1>4, <1>5 DEF Here, FromPriority
  <1>7. rest \in Seq(Byte) /\ Len(rest) \in Nat
    BY <1>6 DEF At
  <1>8. CASE rest # <<>>
    <2>1. Len(a) <= Len(rest)
      BY <1>6, <1>7, <1>8
    <2>2. /\ At(SubSeq(rest, 1 + 1, Len(rest)), parsed + 1, wire, b)
          /\ rest[1] = a[1]
      <3>1. At(SubSeq(rest, Len(a) + 1, Len(rest)), parsed + Len(a), wire, b)
        BY <1>6, <2>1, Moves
      <3>2. 1 \in 1..Len(rest) /\ 1 \in 1..Len(a)
        BY <1>6, <1>7, <2>1
      <3>3. rest[1] = (a \o b)[1]
        BY <1>6, <3>2 DEF At
      <3>4. (a \o b)[1] = a[1]
        BY <3>2, ConcatProperties
      <3> QED
        BY <1>6, <3>1, <3>3, <3>4
    <2>3. /\ Advance(1, AfterPriority) /\ UNCHANGED <<left, pair>>
          /\ out' = [out EXCEPT !.priority = <<rest[1]>>]
      BY <1>8 DEF DecodePriority
    <2>4. stage' = AfterPriority /\ At(rest', parsed', wire', FromExtensions(d))
      BY <1>1, <1>5, <2>2, <2>3 DEF Advance, Kept
    <2>5. out' = Known(d, 5, <<>>)
      <3>1. <<rest[1]>> = d.priority
        BY <1>3, <1>5, <2>2
      <3>2. out' = [Known(d, 4, <<>>) EXCEPT !.priority = d.priority]
        BY <1>1, <1>2, <2>3, <3>1
      <3>3. [Known(d, 4, <<>>) EXCEPT !.priority = d.priority] = Known(d, 5, <<>>)
        BY Learned
      <3> QED
        BY <3>2, <3>3
    <2>6. out.type = d.type
      BY <1>1, <1>2 DEF Known
    <2>7. left' \in Nat /\ pair' \in KeyValuePair
      BY <1>1, <2>3 DEF Typed
    <2> QED
      BY <1>1, <1>2, <2>4, <2>5, <2>6, <2>7, ReachExtensions
  <1>9. CASE rest = <<>>
    <2>1. Len(a \o b) = 1 + Len(b) /\ Len(b) \in Nat
      BY <1>6, ConcatProperties
    <2>2. parsed + Len(a \o b) = Len(wire) /\ parsed \in Nat /\ Len(wire) \in Nat
      BY <1>6 DEF At
    <2>3. Len(rest) = 0
      BY <1>9
    <2>4. parsed + Len(rest) < Len(wire)
      BY <2>1, <2>2, <2>3
    <2>5. Reject
      BY <1>9 DEF DecodePriority
    <2> QED
      BY <1>1, <2>4, <2>5, Rejected
  <1> QED
    BY <1>8, <1>9

\* The list is at the end, or at its next pair.
LEMMA ReachPair ==
  ASSUME DInv, Constructed, Typed, Kept, out.type = dg.type, dg.extensions # <<>>,
         NEW ext, ext = dg.extensions[1], NEW k \in Nat, k <= Len(ext),
         left' = Len(ext) - k, out' = Known(dg, 5, <<SubSeq(ext, 1, k)>>),
         At(rest', parsed', wire', FromPair(dg, k)), pair' \in KeyValuePair,
         stage' = IF left' = 0 THEN AfterExtensions ELSE "pairType"
  PROVE  RInv'
  <1>1. PICK d : d = dg /\ d = dg'
    BY DEF Kept
  <1>2. /\ d \in Shape /\ d.extensions = <<ext>> /\ ext \in Seq(NewMoqtKeyValuePair)
        /\ Closing(d) \in Seq(Byte)
    BY <1>1, Construction, ClosingType DEF ExtensionLists
  <1>3. Len(ext) \in Nat /\ left' \in Nat
    BY <1>2
  <1>4. CASE left' = 0
    <2>1. k = Len(ext)
      BY <1>3, <1>4
    <2>2. SubSeq(ext, 1, k) = ext
      BY <1>2, <2>1, SubSeqFull
    <2>3. FromPair(d, k) = Closing(d)
      <3>1. PICK s \in Seq(NewMoqtKeyValuePair) : s = After(ext, k) /\ Len(s) = Len(ext) - k
        BY <1>2, AfterType
      <3>2. s = <<>>
        BY <1>3, <2>1, <3>1
      <3>3. Pairs(s) = <<>>
        BY <3>2, PairsType
      <3>4. FromPair(d, k) = <<>> \o Closing(d)
        BY <1>1, <3>1, <3>3 DEF FromPair
      <3> QED
        BY <1>2, <3>4, ConcatEmptySeq
    <2>4. out' = Known(dg, 5, dg.extensions) /\ At(rest', parsed', wire', Closing(dg))
      BY <1>1, <1>2, <2>2, <2>3
    <2> QED
      BY <1>3, <1>4, <2>4, ReachClosing
  <1>5. CASE left' # 0
    <2>1. stage' = "pairType"
      BY <1>5
    <2>2. Typed'
      BY <1>3, <2>1, Moved DEF Stages
    <2>3. k < Len(ext)
      BY <1>3, <1>5
    <2>4. Within(k)'
      BY <1>1, <2>3 DEF Within
    <2>5. PairInv(k)'
      BY <1>1, <2>1, <2>4 DEF PairInv, Here
    <2>6. Place'
      BY <2>1, <2>5 DEF Place, Constructed
    <2> QED
      BY <2>2, <2>6 DEF RInv
  <1> QED
    BY <1>4, <1>5

LEMMA FromPairType ==
  ASSUME NEW d \in Shape, d.extensions # <<>>, NEW k \in Nat, k <= Len(d.extensions[1])
  PROVE  FromPair(d, k) \in Seq(Byte)
  <1>1. d.extensions[1] \in Seq(NewMoqtKeyValuePair) /\ Closing(d) \in Seq(Byte)
    BY ClosingType DEF ExtensionLists
  <1>2. Pairs(After(d.extensions[1], k)) \in Seq(Byte)
    BY <1>1, AfterType, PairsType
  <1> QED
    BY <1>1, <1>2, ConcatType DEF FromPair

LEMMA ReadCount == ASSUME DInv, RInv, DecodeCount PROVE RInv'
  <1>1. /\ Typed /\ Constructed /\ Kept /\ stage = "count"
        /\ out = Known(dg, 5, <<>>) /\ dg.extensions # <<>> /\ Here(FromExtensions(dg))
    BY DEF RInv, Place, DecodeCount
  <1>2. PICK d, ext : d = dg /\ d = dg' /\ ext = d.extensions[1]
    BY <1>1 DEF Kept
  <1>3. /\ d \in Shape /\ d.extensions # <<>>
        /\ ext \in Seq(NewMoqtKeyValuePair) /\ Len(ext) \in VarintValues
        /\ Closing(d) \in Seq(Byte)
    BY <1>1, <1>2, Construction, ClosingType DEF ExtensionLists
  <1>4. PICK v : v = Len(ext)
    OBVIOUS
  <1>5. v \in VarintValues /\ v \in Nat /\ FromPair(d, 0) \in Seq(Byte)
    BY <1>2, <1>3, <1>4, FromPairType
  <1>6. At(rest, parsed, wire, Varint(v) \o FromPair(d, 0))
    <2>1. Regroups(Varint(v), Pairs(ext), Closing(d))
      BY <1>3, <1>5, VarintType, PairsType, Regroup
    <2>2. After(ext, 0) = ext
      BY <1>3, SubSeqFull DEF After
    <2>3. FromExtensions(d) = Varint(v) \o FromPair(d, 0)
      BY <1>2, <1>3, <1>4, <2>1, <2>2 DEF FromExtensions, EncodeExtensions, FromPair, Regroups
    <2> QED
      BY <1>1, <1>2, <2>3 DEF Here
  <1>7. CASE HasVarint(rest)
    <2>1. VarintOf(rest) = v
      BY <1>5, <1>6, <1>7, VarintRead
    <2>2. /\ left' = v /\ pair' = pair
          /\ Advance(VarintWidth(rest), IF left' = 0 THEN AfterExtensions ELSE "pairType")
          /\ out' = [out EXCEPT !.extensions = <<<<>>>>]
      BY <1>7, <2>1 DEF DecodeCount
    <2>3. At(rest', parsed', wire', FromPair(d, 0))
      BY <1>1, <1>5, <1>6, <1>7, <2>2, VarintRead DEF Advance, Kept
    <2>4. stage' = IF left' = 0 THEN AfterExtensions ELSE "pairType"
      BY <2>2 DEF Advance
    <2>5. out' = Known(dg, 5, <<SubSeq(ext, 1, 0)>>)
      <3>1. SubSeq(ext, 1, 0) = <<>>
        BY SubSeqEmpty
      <3>2. out' = [Known(d, 5, <<>>) EXCEPT !.extensions = <<<<>>>>]
        BY <1>1, <1>2, <2>2
      <3>3. [Known(d, 5, <<>>) EXCEPT !.extensions = <<<<>>>>] = Known(d, 5, <<<<>>>>)
        BY DEF Known
      <3> QED
        BY <1>2, <3>1, <3>2, <3>3
    <2>6. out.type = dg.type
      BY <1>1 DEF Known
    <2>7. left' = Len(ext) - 0 /\ 0 <= Len(ext) /\ 0 \in Nat /\ pair' \in KeyValuePair
      BY <1>1, <1>4, <1>5, <2>2 DEF Typed
    <2> QED
      BY <1>1, <1>2, <2>3, <2>4, <2>5, <2>6, <2>7, ReachPair
  <1>8. CASE ~HasVarint(rest)
    <2>1. parsed + Len(rest) < Len(wire)
      BY <1>5, <1>6, <1>8, VarintRead
    <2>2. Reject
      BY <1>8 DEF DecodeCount
    <2> QED
      BY <1>1, <2>1, <2>2, Rejected
  <1> QED
    BY <1>7, <1>8

\* A pair is its type, its value, and the pairs after it.
LEMMA PairSplit ==
  ASSUME NEW d \in Shape, d.extensions # <<>>, NEW k \in Nat, k < Len(d.extensions[1]),
         NEW kv, kv = d.extensions[1][k + 1]
  PROVE  /\ kv \in NewMoqtKeyValuePair /\ ValueOf(kv) \in Seq(Byte)
         /\ FromPair(d, k + 1) \in Seq(Byte)
         /\ ValueOf(kv) \o FromPair(d, k + 1) \in Seq(Byte)
         /\ FromPair(d, k) = Varint(kv.type) \o (ValueOf(kv) \o FromPair(d, k + 1))
  <1>1. PICK ext : ext = d.extensions[1]
    OBVIOUS
  <1>2. ext \in Seq(NewMoqtKeyValuePair) /\ Closing(d) \in Seq(Byte) /\ Len(ext) \in Nat
    BY <1>1, ClosingType DEF ExtensionLists
  <1>3. kv \in NewMoqtKeyValuePair
        /\ Pairs(After(ext, k)) = EncodeMoqtKeyValuePair(kv) \o Pairs(After(ext, k + 1))
    BY <1>1, <1>2, NextPair
  <1>4. PICK t, v, c \in Seq(Byte) : t = Varint(kv.type) /\ v = ValueOf(kv) /\ c = Closing(d)
    BY <1>2, <1>3, PairFields, PairType, VarintType
  <1>5. k + 1 \in Nat /\ k + 1 <= Len(ext)
    BY <1>1, <1>2
  <1>6. PICK q \in Seq(Byte) : q = Pairs(After(ext, k + 1))
    BY <1>2, <1>5, AfterType, PairsType
  <1>7. FromPair(d, k) = ((t \o v) \o q) \o c
    BY <1>1, <1>3, <1>4, <1>6, PairType DEF FromPair
  <1>8. PICK f \in Seq(Byte) : f = q \o c
    BY ConcatType
  <1>9. FromPair(d, k + 1) = f
    BY <1>1, <1>4, <1>6, <1>8 DEF FromPair
  <1>10. ((t \o v) \o q) \o c = (t \o v) \o f
    <2>1. t \o v \in Seq(Byte)
      BY ConcatType
    <2>2. Regroups(t \o v, q, c)
      BY <2>1, Regroup
    <2> QED
      BY <1>8, <2>2 DEF Regroups
  <1>11. (t \o v) \o f = t \o (v \o f)
    <2>1. Regroups(t, v, f)
      BY Regroup
    <2> QED
      BY <2>1 DEF Regroups
  <1>12. v \o f \in Seq(Byte)
    BY ConcatType
  <1> QED
    BY <1>3, <1>4, <1>7, <1>9, <1>10, <1>11, <1>12

LEMMA ReadPairType == ASSUME DInv, RInv, DecodePairType PROVE RInv'
  <1>1. Typed /\ Constructed /\ Kept /\ stage = "pairType"
    BY DEF RInv, Place, DecodePairType
  <1>2. PICK k \in Nat : PairInv(k)
    BY <1>1 DEF RInv, Place
  <1>3. PICK d, kv : d = dg /\ d = dg' /\ kv = d.extensions[1][k + 1]
    BY <1>1 DEF Kept
  <1>4. /\ d.extensions # <<>> /\ k < Len(d.extensions[1])
        /\ left = Len(d.extensions[1]) - k
        /\ out = Known(d, 5, <<SubSeq(d.extensions[1], 1, k)>>)
    BY <1>2, <1>3 DEF PairInv, Within
  <1>5. PICK v : v = kv.type
    OBVIOUS
  <1>6. PICK b : b = ValueOf(kv) \o FromPair(d, k + 1)
    OBVIOUS
  <1>7. v \in VarintValues /\ b \in Seq(Byte) /\ FromPair(d, k) = Varint(v) \o b
    <2>1. d \in Shape
      BY <1>1, <1>3, Construction
    <2>2. kv \in NewMoqtKeyValuePair /\ b \in Seq(Byte) /\ FromPair(d, k) = Varint(v) \o b
      BY <1>3, <1>4, <1>5, <1>6, <2>1, PairSplit
    <2> QED
      BY <1>5, <2>2, PairFields
  <1>8. At(rest, parsed, wire, Varint(v) \o b)
    BY <1>1, <1>2, <1>3, <1>7 DEF PairInv, Here
  <1>9. CASE HasVarint(rest)
    <2>1. VarintOf(rest) = v
      BY <1>7, <1>8, <1>9, VarintRead
    <2>2. /\ Advance(VarintWidth(rest), IF IsOdd(v) THEN "pairBytes" ELSE "pairNumber")
          /\ pair' = [type |-> v, number |-> 0, bytes |-> <<>>]
          /\ left' = left /\ out' = out
      BY <1>9, <2>1 DEF DecodePairType
    <2>3. At(rest', parsed', wire', b)
      BY <1>1, <1>7, <1>8, <1>9, <2>2, VarintRead DEF Advance, Kept
    <2>4. stage' = IF IsOdd(v) THEN "pairBytes" ELSE "pairNumber"
      BY <2>2 DEF Advance
    <2>5. pair' \in KeyValuePair
      BY <1>7, <2>2, VarintRange DEF KeyValuePair
    <2>6. Typed'
      BY <1>1, <2>2, <2>3, <2>4, <2>5, Moved DEF Typed, Stages
    <2>7. Within(k)'
      BY <1>3, <1>4, <2>2 DEF Within
    <2>8. PairInv(k)'
      <3>1. CASE IsOdd(v)
        <4>1. b = (Varint(Len(kv.bytes)) \o kv.bytes) \o FromPair(d, k + 1)
          BY <1>5, <1>6, <3>1 DEF ValueOf
        <4>2. stage' = "pairBytes"
          BY <2>4, <3>1
        <4> QED
          BY <1>3, <1>5, <2>2, <2>3, <2>7, <3>1, <4>1, <4>2 DEF PairInv, Here
      <3>2. CASE ~IsOdd(v)
        <4>1. b = Varint(kv.number) \o FromPair(d, k + 1)
          BY <1>5, <1>6, <3>2 DEF ValueOf
        <4>2. stage' = "pairNumber"
          BY <2>4, <3>2
        <4> QED
          BY <1>3, <1>5, <2>2, <2>3, <2>7, <3>2, <4>1, <4>2 DEF PairInv, Here
      <3> QED
        BY <3>1, <3>2
    <2>9. Place'
      BY <2>4, <2>8 DEF Place, Constructed
    <2> QED
      BY <2>6, <2>9 DEF RInv
  <1>10. CASE ~HasVarint(rest)
    <2>1. parsed + Len(rest) < Len(wire)
      BY <1>7, <1>8, <1>10, VarintRead
    <2>2. Reject
      BY <1>10 DEF DecodePairType
    <2> QED
      BY <1>1, <2>1, <2>2, Rejected
  <1> QED
    BY <1>9, <1>10

\* One more pair, the one that was written there.
LEMMA OneMorePair ==
  ASSUME DInv, Constructed, Typed, Kept, NEW k \in Nat, Within(k), NEW d, d = dg,
         NEW kv, kv = d.extensions[1][k + 1], NEW n, PairDone(kv, n),
         At(rest', parsed', wire', FromPair(d, k + 1))
  PROVE  RInv'
  <1>1. PICK ext : ext = d.extensions[1]
    OBVIOUS
  <1>2. /\ d.extensions # <<>> /\ k < Len(ext) /\ left = Len(ext) - k
        /\ out = Known(d, 5, <<SubSeq(ext, 1, k)>>)
    BY <1>1 DEF Within
  <1>3. /\ out' = [out EXCEPT !.extensions[1] = Append(@, kv)]
        /\ left' = left - 1 /\ pair' = pair
        /\ stage' = IF left' = 0 THEN AfterExtensions ELSE "pairType"
    BY DEF PairDone, Advance
  <1>4. ext \in Seq(NewMoqtKeyValuePair) /\ Len(ext) \in Nat
    BY <1>1, <1>2, Construction, ClosingType DEF ExtensionLists
  <1>5. k + 1 \in Nat /\ k + 1 <= Len(ext) /\ left' = Len(ext) - (k + 1)
    <2>1. PICK m \in Nat : m = Len(ext)
      BY <1>4
    <2>2. k < m /\ left = m - k /\ left' = left - 1
      BY <1>2, <1>3, <2>1
    <2>3. k + 1 <= m /\ left' = m - (k + 1)
      BY <2>2
    <2> QED
      BY <2>1, <2>3
  <1>6. out' = Known(d, 5, <<SubSeq(ext, 1, k + 1)>>)
    <2>1. Append(SubSeq(ext, 1, k), kv) = SubSeq(ext, 1, k + 1)
      BY <1>1, <1>4, <1>5
    <2>2. PICK s : s = SubSeq(ext, 1, k)
      OBVIOUS
    <2>3. [Known(d, 5, <<s>>) EXCEPT !.extensions[1] = Append(@, kv)]
            = Known(d, 5, <<Append(s, kv)>>)
      <3>1. Known(d, 5, <<s>>).extensions = <<s>>
        BY DEF Known
      <3>2. [<<s>> EXCEPT ![1] = Append(@, kv)] = <<Append(s, kv)>>
        OBVIOUS
      <3>3. PICK e : e = <<Append(s, kv)>>
        OBVIOUS
      <3>4. [Known(d, 5, <<s>>) EXCEPT !.extensions = e] = Known(d, 5, e)
        BY DEF Known
      <3>5. [Known(d, 5, <<s>>) EXCEPT !.extensions[1] = Append(@, kv)]
              = [Known(d, 5, <<s>>) EXCEPT !.extensions = [<<s>> EXCEPT ![1] = Append(@, kv)]]
        BY <3>1
      <3> QED
        BY <3>2, <3>3, <3>4, <3>5
    <2>4. out' = [Known(d, 5, <<s>>) EXCEPT !.extensions[1] = Append(@, kv)]
      BY <1>2, <1>3, <2>2
    <2> QED
      BY <2>1, <2>2, <2>3, <2>4
  <1>7. out.type = dg.type
    BY <1>2 DEF Known
  <1>8. pair' \in KeyValuePair
    BY <1>3 DEF Typed
  <1> QED
    BY <1>1, <1>2, <1>3, <1>5, <1>6, <1>7, <1>8, ReachPair

LEMMA ReadPairNumber == ASSUME DInv, RInv, DecodePairNumber PROVE RInv'
  <1>1. Typed /\ Constructed /\ Kept /\ stage = "pairNumber"
    BY DEF RInv, Place, DecodePairNumber
  <1>2. PICK k \in Nat : PairInv(k)
    BY <1>1 DEF RInv, Place
  <1>3. PICK d, kv : d = dg /\ d = dg' /\ kv = d.extensions[1][k + 1]
    BY <1>1 DEF Kept
  <1>4. /\ Within(k) /\ ~IsOdd(kv.type)
        /\ pair = [type |-> kv.type, number |-> 0, bytes |-> <<>>]
        /\ Here(Varint(kv.number) \o FromPair(d, k + 1))
    BY <1>1, <1>2, <1>3 DEF PairInv
  <1>5. d \in Shape /\ d.extensions # <<>> /\ k < Len(d.extensions[1])
    BY <1>1, <1>3, <1>4, Construction DEF Within
  <1>6. kv \in NewMoqtKeyValuePair /\ FromPair(d, k + 1) \in Seq(Byte)
    BY <1>3, <1>5, PairSplit
  <1>7. PICK v : v = kv.number
    OBVIOUS
  <1>8. v \in VarintValues /\ kv.bytes = <<>> /\ kv \in KeyValuePair
    BY <1>4, <1>6, <1>7, PairFields
  <1>9. At(rest, parsed, wire, Varint(v) \o FromPair(d, k + 1))
    BY <1>4, <1>7 DEF Here
  <1>10. CASE HasVarint(rest)
    <2>1. VarintOf(rest) = v
      BY <1>6, <1>8, <1>9, <1>10, VarintRead
    <2>2. PairDone([pair EXCEPT !.number = v], VarintWidth(rest))
      BY <1>10, <2>1 DEF DecodePairNumber
    <2>3. [pair EXCEPT !.number = v] = kv
      BY <1>4, <1>7, <1>8 DEF KeyValuePair
    <2>4. At(rest', parsed', wire', FromPair(d, k + 1))
      BY <1>1, <1>6, <1>8, <1>9, <1>10, <2>2, VarintRead DEF PairDone, Advance, Kept
    <2> QED
      BY <1>1, <1>3, <1>4, <2>2, <2>3, <2>4, OneMorePair
  <1>11. CASE ~HasVarint(rest)
    <2>1. parsed + Len(rest) < Len(wire)
      BY <1>6, <1>8, <1>9, <1>11, VarintRead
    <2>2. Reject
      BY <1>11 DEF DecodePairNumber
    <2> QED
      BY <1>1, <2>1, <2>2, Rejected
  <1> QED
    BY <1>10, <1>11

\* A length and that many bytes are read as they were written, or the cut is in them.
LEMMA BytesRead ==
  ASSUME NEW y \in Seq(Byte), Len(y) \in VarintValues, NEW b \in Seq(Byte),
         NEW r, NEW p, NEW w, At(r, p, w, (Varint(Len(y)) \o y) \o b),
         NEW x, x = VarintWidth(r), NEW n, n = VarintOf(r)
  PROVE  /\ HasVarint(r) /\ x + n <= Len(r) =>
               /\ n = Len(y) /\ SubSeq(r, x + 1, x + n) = y
               /\ At(SubSeq(r, (x + n) + 1, Len(r)), p + (x + n), w, b)
         /\ HasVarint(r) => n = Len(y)
         /\ ~(HasVarint(r) /\ x + n <= Len(r)) => p + Len(r) < Len(w)
  <1>1. PICK t \in Seq(Byte), m \in Nat, l \in Nat : t = Varint(Len(y)) /\ m = Len(t) /\ l = Len(y)
    BY VarintType
  <1>2. PICK f \in Seq(Byte), a \in Seq(Byte) : f = y \o b /\ a = t \o y
    BY ConcatType
  <1>3. /\ Len(a) = m + l /\ \A i \in 1..(m + l) : a[i] = IF i <= m THEN t[i] ELSE y[i - m]
    BY <1>1, <1>2, ConcatProperties
  <1>4. At(r, p, w, a \o b) /\ At(r, p, w, Varint(l) \o f)
    <2>1. Regroups(t, y, b)
      BY Regroup
    <2> QED
      BY <1>1, <1>2, <2>1 DEF Regroups
  <1>5. l \in VarintValues /\ r \in Seq(Byte) /\ Len(r) \in Nat /\ p \in Nat /\ Len(w) \in Nat
    BY <1>1, <1>4 DEF At
  <1>6. HasVarint(r) => n = l /\ x = m
    BY <1>1, <1>2, <1>4, <1>5, VarintRead
  <1>7. p + (m + l + Len(b)) = Len(w) /\ Len(b) \in Nat
    <2>1. Len(a \o b) = (m + l) + Len(b)
      BY <1>3, ConcatProperties
    <2> QED
      BY <1>4, <2>1 DEF At
  <1>8. ASSUME HasVarint(r), x + n <= Len(r)
        PROVE  /\ SubSeq(r, x + 1, x + n) = y
               /\ At(SubSeq(r, (x + n) + 1, Len(r)), p + (x + n), w, b)
    <2>1. n = l /\ x = m /\ x + n = Len(a) /\ Len(a) <= Len(r)
      BY <1>3, <1>6, <1>8
    <2>2. At(SubSeq(r, Len(a) + 1, Len(r)), p + Len(a), w, b)
      BY <1>4, <2>1, Moves
    <2>3. \A i \in 1..Len(a) : r[i] = a[i]
      BY <1>4, <2>1, Moves
    <2>4. \A i \in 1..l : r[m + i] = y[i]
      <3> SUFFICES ASSUME NEW i \in 1..l PROVE r[m + i] = y[i]
        OBVIOUS
      <3>1. m + i \in 1..(m + l) /\ ~(m + i <= m) /\ (m + i) - m = i
        OBVIOUS
      <3> QED
        BY <1>3, <2>3, <3>1
    <2>5. m + l <= Len(r)
      BY <1>3, <2>1
    <2>6. SubSeq(r, m + 1, m + l) = y
      <3>1. l = Len(y) /\ r \in Seq(Byte) /\ y \in Seq(Byte) /\ m \in Nat /\ l \in Nat
        BY <1>1, <1>5
      <3> QED
        BY <2>4, <2>5, <3>1, Copied
    <2> QED
      BY <2>1, <2>2, <2>6
  <1>9. ASSUME ~(HasVarint(r) /\ x + n <= Len(r)) PROVE p + Len(r) < Len(w)
    <2>1. CASE ~HasVarint(r)
      BY <1>2, <1>4, <1>5, <2>1, VarintRead
    <2>2. CASE HasVarint(r)
      <3>1. ~(m + l <= Len(r))
        BY <1>6, <1>9, <2>2
      <3> QED
        BY <1>5, <1>7, <3>1
    <2> QED
      BY <2>1, <2>2
  <1> QED
    BY <1>1, <1>6, <1>8, <1>9

LEMMA ReadPairBytes == ASSUME DInv, RInv, DecodePairBytes PROVE RInv'
  <1>1. Typed /\ Constructed /\ Kept /\ stage = "pairBytes"
    BY DEF RInv, Place, DecodePairBytes
  <1>2. PICK k \in Nat : PairInv(k)
    BY <1>1 DEF RInv, Place
  <1>3. PICK d, kv : d = dg /\ d = dg' /\ kv = d.extensions[1][k + 1]
    BY <1>1 DEF Kept
  <1>4. /\ Within(k) /\ IsOdd(kv.type)
        /\ pair = [type |-> kv.type, number |-> 0, bytes |-> <<>>]
        /\ Here((Varint(Len(kv.bytes)) \o kv.bytes) \o FromPair(d, k + 1))
    BY <1>1, <1>2, <1>3 DEF PairInv
  <1>5. d \in Shape /\ d.extensions # <<>> /\ k < Len(d.extensions[1])
    BY <1>1, <1>3, <1>4, Construction DEF Within
  <1>6. kv \in NewMoqtKeyValuePair /\ FromPair(d, k + 1) \in Seq(Byte)
    BY <1>3, <1>5, PairSplit
  <1>7. PICK y, b, x, n : /\ y = kv.bytes /\ b = FromPair(d, k + 1)
                          /\ x = VarintWidth(rest) /\ n = VarintOf(rest)
    OBVIOUS
  <1>8. /\ y \in Seq(Byte) /\ b \in Seq(Byte) /\ Len(y) \in VarintValues /\ Len(y) <= MaxValueLength
        /\ kv.number = 0 /\ kv \in KeyValuePair
    BY <1>4, <1>6, <1>7, PairFields
  <1>9. At(rest, parsed, wire, (Varint(Len(y)) \o y) \o b)
    BY <1>4, <1>7 DEF Here
  <1>10. CASE HasVarint(rest) /\ x + n <= Len(rest)
    <2>1. n = Len(y) /\ SubSeq(rest, x + 1, x + n) = y
          /\ At(SubSeq(rest, (x + n) + 1, Len(rest)), parsed + (x + n), wire, b)
      BY <1>7, <1>8, <1>9, <1>10, BytesRead
    <2>2. PairDone([pair EXCEPT !.bytes = y], x + n)
      BY <1>7, <1>8, <1>10, <2>1 DEF DecodePairBytes
    <2>3. [pair EXCEPT !.bytes = y] = kv
      BY <1>4, <1>7, <1>8 DEF KeyValuePair
    <2>4. At(rest', parsed', wire', FromPair(d, k + 1))
      BY <1>1, <1>7, <2>1, <2>2 DEF PairDone, Advance, Kept
    <2> QED
      BY <1>1, <1>3, <1>4, <2>2, <2>3, <2>4, OneMorePair
  <1>11. CASE ~(HasVarint(rest) /\ x + n <= Len(rest))
    <2>1. parsed + Len(rest) < Len(wire)
      BY <1>7, <1>8, <1>9, <1>11, BytesRead
    <2>2. Reject
      BY <1>7, <1>11 DEF DecodePairBytes
    <2> QED
      BY <1>1, <2>1, <2>2, Rejected
  <1> QED
    BY <1>10, <1>11

\* The whole object, from its last field.
LEMMA Whole ==
  ASSUME NEW d \in Shape, (d.status # <<>>) # (d.payload # <<>>)
  PROVE  /\ d.status # <<>> => [Known(d, 5, d.extensions) EXCEPT !.status = d.status] = d
         /\ d.payload # <<>> => [Known(d, 5, d.extensions) EXCEPT !.payload = d.payload] = d
  <1>1. ASSUME d.payload = <<>>
        PROVE  [Known(d, 5, d.extensions) EXCEPT !.status = d.status] = d
    BY <1>1 DEF Known, Shape
  <1>2. ASSUME d.status = <<>>
        PROVE  [Known(d, 5, d.extensions) EXCEPT !.payload = d.payload] = d
    BY <1>2 DEF Known, Shape
  <1> QED
    BY <1>1, <1>2

LEMMA ReadStatus == ASSUME DInv, RInv, DecodeStatus PROVE RInv'
  <1>1. /\ Typed /\ Constructed /\ Kept /\ stage = "status"
        /\ out = Known(dg, 5, dg.extensions) /\ dg.status # <<>> /\ Here(Closing(dg))
    BY DEF RInv, Place, DecodeStatus
  <1>2. PICK d : d = dg /\ d = dg'
    BY <1>1 DEF Kept
  <1>3. d \in Shape /\ d.status # <<>> /\ d.payload = <<>>
        /\ d.status = <<d.status[1]>> /\ d.status[1] \in VarintValues
    BY <1>1, <1>2, Construction, ClosingType
  <1>4. PICK v : v = d.status[1]
    OBVIOUS
  <1>5. v \in VarintValues /\ d.status = <<v>>
    BY <1>3, <1>4
  <1>6. At(rest, parsed, wire, Varint(v) \o <<>>)
    <2>1. Closing(d) = Varint(v)
      BY <1>3, <1>4 DEF Closing
    <2>2. Varint(v) \o <<>> = Varint(v)
      BY <1>5, VarintType, ConcatEmptySeq
    <2> QED
      BY <1>1, <1>2, <2>1, <2>2 DEF Here
  <1>7. <<>> \in Seq(Byte)
    OBVIOUS
  <1>8. CASE HasVarint(rest)
    <2>1. VarintOf(rest) = v
      BY <1>5, <1>6, <1>7, <1>8, VarintRead
    <2>2. /\ Advance(VarintWidth(rest), "decoded") /\ UNCHANGED <<left, pair>>
          /\ out' = [out EXCEPT !.status = <<v>>]
      BY <1>8, <2>1 DEF DecodeStatus
    <2>3. stage' = "decoded" /\ At(rest', parsed', wire', <<>>)
      BY <1>1, <1>5, <1>6, <1>7, <1>8, <2>2, VarintRead DEF Advance, Kept
    <2>4. out' = d
      <3>1. out' = [Known(d, 5, d.extensions) EXCEPT !.status = d.status]
        BY <1>1, <1>2, <1>5, <2>2
      <3>2. [Known(d, 5, d.extensions) EXCEPT !.status = d.status] = d
        BY <1>3, Whole
      <3> QED
        BY <3>1, <3>2
    <2>5. Typed'
      BY <1>1, <2>2, <2>3, Moved DEF Typed, Stages
    <2>6. parsed' + Len(rest') <= Len(wire')
      BY <2>3 DEF At
    <2>7. Ends'
      BY <1>2, <2>4, <2>6 DEF Ends
    <2>8. Place'
      BY <2>3, <2>7 DEF Place, Constructed
    <2> QED
      BY <2>5, <2>8 DEF RInv
  <1>9. CASE ~HasVarint(rest)
    <2>1. parsed + Len(rest) < Len(wire)
      BY <1>5, <1>6, <1>7, <1>9, VarintRead
    <2>2. Reject
      BY <1>9 DEF DecodeStatus
    <2> QED
      BY <1>1, <2>1, <2>2, Rejected
  <1> QED
    BY <1>8, <1>9

LEMMA ReadPayload == ASSUME DInv, RInv, DecodePayload PROVE RInv'
  <1>1. /\ Typed /\ Constructed /\ Kept /\ stage = "payload"
        /\ out = Known(dg, 5, dg.extensions) /\ dg.status = <<>> /\ Here(Closing(dg))
    BY DEF RInv, Place, DecodePayload
  <1>2. PICK d : d = dg /\ d = dg'
    BY <1>1 DEF Kept
  <1>3. d \in Shape /\ d.status = <<>> /\ d.payload # <<>>
        /\ d.payload = <<d.payload[1]>> /\ d.payload[1] \in Seq(Byte)
    BY <1>1, <1>2, Construction, ClosingType
  <1>4. PICK b, r, p, n, m : /\ b = d.payload[1] /\ r = rest /\ p = parsed
                             /\ n = Len(r) /\ m = Len(b)
    OBVIOUS
  <1>5. At(r, p, wire, b) /\ wire' = wire
    <2>1. Closing(d) = b
      BY <1>3, <1>4 DEF Closing
    <2> QED
      BY <1>1, <1>2, <1>4, <2>1 DEF Here, Kept
  <1>6. /\ r \in Seq(Byte) /\ b \in Seq(Byte) /\ p \in Nat /\ n \in Nat /\ m \in Nat
        /\ n <= m /\ p + m = Len(wire) /\ \A i \in 1..n : r[i] = b[i]
    BY <1>4, <1>5 DEF At
  <1>7. /\ rest' = SubSeq(r, n + 1, n) /\ parsed' = p + n /\ stage' = "decoded"
        /\ UNCHANGED <<left, pair>> /\ out' = [out EXCEPT !.payload = <<r>>]
    BY <1>4 DEF DecodePayload, Advance
  <1>8. rest' = <<>>
    BY <1>4, <1>6, <1>7
  <1>9. Typed'
    <2>1. rest' \in Seq(Byte) /\ parsed' \in Nat /\ stage' \in Stages
      BY <1>6, <1>7, <1>8 DEF Stages
    <2> QED
      BY <1>1, <1>7, <2>1 DEF Typed, Kept
  <1>10. out' = [Known(d, 5, d.extensions) EXCEPT !.payload = <<r>>]
    BY <1>1, <1>2, <1>7
  <1>11. out'.payload = <<r>>
    BY <1>10 DEF Known
  <1>12. parsed' + Len(rest') = p + n /\ wire' = wire
    BY <1>5, <1>6, <1>7, <1>8
  <1>13. p + n = Len(wire) => r = b
    <2> SUFFICES ASSUME p + n = Len(wire) PROVE r = b
      OBVIOUS
    <2>1. n = m
      BY <1>6
    <2> QED
      BY <1>4, <1>6, <2>1, SeqEqual
  <1>14. Shortened(r)'
    BY <1>2, <1>3, <1>4, <1>6, <1>10, <1>12, <1>13 DEF Shortened
  <1>15. Ends'
    <2>1. p + n <= Len(wire)
      BY <1>6
    <2>2. out'.payload # <<>> /\ out'.payload[1] = r
      BY <1>11
    <2>3. Shortened(out.payload[1])'
      BY <1>14, <2>2
    <2> QED
      BY <1>12, <2>1, <2>2, <2>3 DEF Ends
  <1>16. Place'
    BY <1>7, <1>15, <1>1, <1>2 DEF Place, Constructed
  <1> QED
    BY <1>9, <1>16 DEF RInv

-----------------------------------------------------------------------------
(* Every step *)

\* Nothing is known of a datagram before the first field.
LEMMA KnownBlank ==
  ASSUME NEW d, NEW e
  PROVE  Known(d, 0, <<>>) = Known(e, 0, <<>>) /\ Known(d, 0, <<>>) = Blank(0, 0)
  BY DEF Known, Blank

LEMMA RInit == Init => RInv
  <1> SUFFICES ASSUME Init PROVE RInv
    OBVIOUS
  <1>1. 0 \in VarintValues /\ 0 \in 0..MaxOptions
    BY BoundAssumption, VarintRange
  <1>2. pair \in KeyValuePair
    BY <1>1 DEF Init, KeyValuePair
  <1>3. Typed
    BY <1>1, <1>2 DEF Init, Typed, Stages
  <1>4. out = Known(dg, 0, <<>>)
    BY KnownBlank DEF Init
  <1>5. Place
    BY <1>4 DEF Init, Place
  <1> QED
    BY <1>3, <1>5 DEF RInv

\* The datagram under construction is nothing to the decoder.
LEMMA Constructing == ASSUME RInv, Option \/ Build PROVE RInv'
  <1>1. /\ stage = "options" /\ UNCHANGED codecVars
        /\ stage' \in {"options", "built", "refused"} /\ options' \in {options, options + 1}
        /\ options' = options \/ options < MaxOptions
    BY DEF Option, WithObjectId, WithPublisherPriority, WithExtensions, WithEndOfGroup,
           WithStatus, WithPayload, Apply, Build
  <1>2. Typed'
    BY <1>1, BoundAssumption DEF RInv, Typed, Stages, codecVars
  <1>3. wire' = <<>> /\ rest' = <<>> /\ parsed' = 0 /\ out' = Known(dg', 0, <<>>)
    <2>1. wire = <<>> /\ rest = <<>> /\ parsed = 0 /\ out = Known(dg, 0, <<>>)
      BY <1>1 DEF RInv, Place
    <2>2. Known(dg, 0, <<>>) = Known(dg', 0, <<>>)
      BY KnownBlank
    <2> QED
      BY <1>1, <2>1, <2>2 DEF codecVars
  <1>4. Place'
    BY <1>1, <1>3 DEF Place
  <1> QED
    BY <1>2, <1>4 DEF RInv

\* The decoder starts at the first field, whichever way the bytes were written.
LEMMA Sending == ASSUME DInv, RInv, Encode \/ EncodeInTwo PROVE RInv'
  <1>1. /\ stage = "built" /\ stage' = "type" /\ UNCHANGED <<options, dg, parsed, left, pair, out>>
        /\ Constructed
    BY DEF Encode, EncodeInTwo, Transmit, Constructed
  <1>2. PICK d : d = dg /\ d = dg'
    BY <1>1
  <1>3. d \in Shape /\ d.type.id \in VarintValues /\ (d.status # <<>> <=> d.payload = <<>>)
    BY <1>1, <1>2, Construction
  <1>4. wire' = FromType(d)
    <2>1. CASE Encode
      BY <1>2, <1>3, <2>1, Encoded DEF Encode, Transmit
    <2>2. CASE EncodeInTwo
      BY <1>2, <1>3, <2>2, EncodedInTwo DEF EncodeInTwo, Transmit
    <2> QED
      BY <2>1, <2>2
  <1>5. PICK b \in Seq(Byte) : b = FromType(d) /\ b = wire'
    BY <1>3, <1>4, FromTypes
  <1>6. PICK n \in 0..Len(b) : rest' = SubSeq(b, 1, n)
    BY <1>5 DEF Encode, EncodeInTwo, Transmit
  <1>7. Typed /\ out = Known(d, 0, <<>>) /\ parsed = 0
    BY <1>1, <1>2 DEF RInv, Place
  <1>8. At(rest', parsed', wire', b)
    <2>1. n \in Nat /\ n <= Len(b) /\ Len(b) \in Nat
      BY <1>6
    <2>2. PICK s : s = SubSeq(b, 1, n)
      OBVIOUS
    <2>3. s \in Seq(Byte) /\ Len(s) = n /\ \A i \in 1..n : s[i] = b[i]
      BY <2>1, <2>2
    <2>4. At(s, 0, b, b)
      BY <2>1, <2>3 DEF At
    <2> QED
      BY <1>1, <1>5, <1>6, <1>7, <2>2, <2>4
  <1>9. Typed'
    BY <1>1, <1>7, <1>8 DEF Typed, At, Stages
  <1>10. Place'
    BY <1>1, <1>2, <1>5, <1>7, <1>8 DEF Place, Here, Constructed
  <1> QED
    BY <1>9, <1>10 DEF RInv

LEMMA Idle == ASSUME RInv, UNCHANGED vars PROVE RInv'
  <1>1. Typed'
    BY DEF RInv, Typed, vars
  <1>2. Place'
    BY DEF RInv, Place, Constructed, Here, PairInv, Within, Ends, Shortened, vars
  <1> QED
    BY <1>1, <1>2 DEF RInv

LEMMA RStep == DInv /\ RInv /\ [Next]_vars => RInv'
  <1> SUFFICES ASSUME DInv, RInv, [Next]_vars PROVE RInv'
    OBVIOUS
  <1>1. CASE Option \/ Build \/ Encode \/ EncodeInTwo \/ UNCHANGED vars
    BY <1>1, Constructing, Sending, Idle
  <1>2. CASE Decode
    BY <1>2, ReadType, ReadAlias, ReadGroup, ReadObject, ReadPriority, ReadCount, ReadPairType,
       ReadPairNumber, ReadPairBytes, ReadStatus, ReadPayload DEF Decode
  <1> QED
    BY <1>1, <1>2 DEF Next

LEMMA Invariance == Spec => [](DInv /\ RInv)
  BY DInit, DStep, RInit, RStep, PTL DEF Spec

-----------------------------------------------------------------------------
(* What it comes to *)

\* Every variable keeps its type: NewObjectDatagram gives the datagram a type ID
\* that fits the bits, the decoder never counts a byte it was not handed, and what
\* it has filled in is a datagram at every point of the decoding.
THEOREM TypeCorrect == Spec => []TypeOK
  <1>1. ASSUME DInv, RInv PROVE TypeOK
    <2>1. Readable(dg)
      <3>1. dg \in Shape /\ dg.type.id \in 0..45
        BY <1>1, Bits DEF DInv, Shape
      <3> QED
        BY <3>1, TypeOfShape
    <2>2. Readable(out)
      BY <1>1, OutType
    <2>3. parsed + Len(rest) <= Len(wire)
      <3>1. CASE \E b : Here(b)
        BY <3>1 DEF Here, At
      <3>2. CASE stage \in {"options", "refused", "built"}
        BY <1>1, <3>2 DEF RInv, Place
      <3>3. CASE stage = "error"
        BY <1>1, <3>3 DEF RInv, Place, Typed
      <3>4. CASE stage = "decoded"
        BY <1>1, <3>4 DEF RInv, Place, Ends
      <3>5. CASE stage \in {"type", "alias", "group", "object", "priority", "count",
                            "status", "payload"}
        BY <1>1, <3>1, <3>5 DEF RInv, Place
      <3>6. CASE stage \in {"pairType", "pairNumber", "pairBytes"}
        BY <1>1, <3>1, <3>6 DEF RInv, Place, PairInv
      <3> QED
        BY <1>1, <3>2, <3>3, <3>4, <3>5, <3>6 DEF RInv, Typed, Stages
    <2> QED
      BY <1>1, <2>1, <2>2, <2>3 DEF TypeOK, RInv, Typed, Readable
  <1> QED
    BY <1>1, Invariance, PTL

\* The decoder is the inverse of the encoder: a datagram that arrives whole, with
\* whatever fields, pairs and values, is not refused and comes out as it went in.
THEOREM RoundTripping == Spec => []RoundTrip
  <1>1. ASSUME DInv, RInv PROVE RoundTrip
    <2> SUFFICES ASSUME parsed + Len(rest) = Len(wire)
                 PROVE  stage # "error" /\ (stage = "decoded" => out = dg)
      BY DEF RoundTrip
    <2>1. stage # "error"
      BY <1>1 DEF RInv, Typed, Place
    <2>2. ASSUME stage = "decoded", out # dg PROVE FALSE
      <3>1. PICK p : p = out.payload[1] /\ Shortened(p)
        BY <1>1, <2>2 DEF RInv, Place, Ends
      <3>2. PICK d : d = dg
        OBVIOUS
      <3>3. d \in Shape /\ d.status = <<>> /\ d.payload # <<>> /\ d.payload = <<p>>
        <4>1. dg.status = <<>> /\ dg.payload # <<>> /\ p = dg.payload[1] /\ dg \in Shape
          BY <1>1, <3>1 DEF Shortened, DInv
        <4> QED
          BY <3>2, <4>1, ClosingType
      <3>4. out = [Known(d, 5, d.extensions) EXCEPT !.payload = d.payload]
        BY <3>1, <3>2, <3>3 DEF Shortened
      <3>5. [Known(d, 5, d.extensions) EXCEPT !.payload = d.payload] = d
        BY <3>3, Whole
      <3> QED
        BY <2>2, <3>2, <3>4, <3>5
    <2> QED
      BY <2>1, <2>2
  <1> QED
    BY <1>1, Invariance, PTL

\* Wherever the bytes are cut, the decoder refuses them or finds every field of the
\* object as it was encoded and a front of its payload.
THEOREM NeverMisread == Spec => []CutsNeverMisread
  <1>1. ASSUME DInv, RInv PROVE CutsNeverMisread
    <2> SUFFICES ASSUME stage = "decoded"
                 PROVE  /\ [out EXCEPT !.payload = <<>>] = [dg EXCEPT !.payload = <<>>]
                        /\ dg.payload # <<>> =>
                              out.payload # <<>> /\ IsPrefix(out.payload[1], dg.payload[1])
      BY DEF CutsNeverMisread
    <2>1. Ends /\ Constructed /\ dg \in Shape
      BY <1>1 DEF RInv, Place, DInv
    <2>2. \A p, q \in Seq(Byte) :
              Len(p) <= Len(q) /\ (\A i \in 1..Len(p) : p[i] = q[i]) => IsPrefix(p, q)
      <3> SUFFICES ASSUME NEW p \in Seq(Byte), NEW q \in Seq(Byte),
                          Len(p) <= Len(q), \A i \in 1..Len(p) : p[i] = q[i]
                   PROVE  IsPrefix(p, q)
        OBVIOUS
      <3>1. PICK n, s, u : n = Len(p) /\ s = SubSeq(p, 1, n) /\ u = SubSeq(q, 1, n)
        OBVIOUS
      <3>2. /\ s \in Seq(Byte) /\ u \in Seq(Byte) /\ Len(s) = n /\ Len(u) = n
            /\ \A i \in 1..n : s[i] = p[i] /\ u[i] = q[i]
        BY <3>1
      <3>3. s = u
        BY <3>1, <3>2, SeqEqual
      <3> QED
        BY <3>1, <3>3 DEF IsPrefix
    <2>3. CASE out = dg
      <3>1. ASSUME dg.payload # <<>> PROVE IsPrefix(dg.payload[1], dg.payload[1])
        <4>1. dg.payload[1] \in Seq(Byte)
          BY <2>1, <3>1, ClosingType
        <4>2. Len(dg.payload[1]) <= Len(dg.payload[1])
          BY <4>1
        <4> QED
          BY <2>2, <4>1, <4>2
      <3> QED
        BY <2>3, <3>1
    <2>4. CASE out # dg
      <3>1. PICK p : p = out.payload[1] /\ Shortened(p) /\ out.payload # <<>>
        BY <2>1, <2>4 DEF Ends
      <3>2. PICK d : d = dg
        OBVIOUS
      <3>3. /\ d \in Shape /\ d.status = <<>> /\ d.payload # <<>>
            /\ out = [Known(d, 5, d.extensions) EXCEPT !.payload = <<p>>]
        BY <2>1, <3>1, <3>2 DEF Shortened
      <3>4. [out EXCEPT !.payload = <<>>] = [d EXCEPT !.payload = <<>>]
        <4>1. [d EXCEPT !.payload = <<>>] = Known(d, 5, d.extensions)
          BY <3>3 DEF Known, Shape
        <4>2. PICK o : o = [Known(d, 5, d.extensions) EXCEPT !.payload = <<p>>]
          OBVIOUS
        <4>3. o = [type |-> d.type, alias |-> d.alias, group |-> d.group, object |-> d.object,
                   priority |-> d.priority, extensions |-> d.extensions, status |-> <<>>,
                   payload |-> <<p>>]
          BY <4>2 DEF Known
        <4>4. [o EXCEPT !.payload = <<>>] = Known(d, 5, d.extensions)
          BY <4>3 DEF Known
        <4> QED
          BY <3>3, <4>1, <4>2, <4>4
      <3>5. d.payload[1] \in Seq(Byte)
        BY <3>3, ClosingType
      <3>6. IsPrefix(p, d.payload[1])
        BY <2>2, <3>1, <3>2, <3>5 DEF Shortened
      <3> QED
        BY <3>1, <3>2, <3>4, <3>6
    <2> QED
      BY <2>3, <2>4
  <1> QED
    BY <1>1, Invariance, PTL
=============================================================================
