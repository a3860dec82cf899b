---------------------------- MODULE ObjectDatagram ----------------------------
(***************************************************************************)
(* One object datagram: NewObjectDatagram applies its options in the order *)
(* given, EncodeObjectDatagram lays the object out, and                    *)
(* DecodeObjectDatagram reads the bytes it is handed, field by field.      *)
(*                                                                         *)
(* The wire is a sequence of bytes.  A varint takes one, two or four of    *)
(* them; the form of eight differs in nothing but its length, and numbers  *)
(* stay below the bound that needs it.                                     *)
(***************************************************************************)
EXTENDS Integers, Sequences, SequencesExt

CONSTANTS
    Numbers,        \* track aliases, group and object IDs
    Priorities,     \* publisher priorities
    Extensions,     \* lists of key-value pairs
    Statuses,       \* object statuses
    Payloads,       \* payloads, sequences of bytes
    MaxOptions,     \* bound on the options of a call of NewObjectDatagram
    MaxValueLength  \* maxMoqtKeyValuePairValueLength

Byte == 0..255
VarintValues == {v \in Nat : v < 64 * 256 * 256 * 256}

KeyValuePair == [type : VarintValues, number : VarintValues, bytes : Seq(Byte)]

IsOdd(n) == n % 2 = 1

\* A pair of even type holds a number, one of odd type bytes, and not too many: the
\* field that is not used keeps its zero value.
NewMoqtKeyValuePair ==
    {kv \in KeyValuePair :
        IF IsOdd(kv.type) THEN kv.number = 0 /\ Len(kv.bytes) <= MaxValueLength
                          ELSE kv.bytes = <<>>}

ASSUME NumbersAssumption == Numbers \subseteq VarintValues
ASSUME StatusAssumption == Statuses \subseteq VarintValues
ASSUME PriorityAssumption == Priorities \subseteq Byte
ASSUME PayloadAssumption == Payloads \subseteq Seq(Byte)
ASSUME ExtensionAssumption ==
    Extensions \subseteq {ext \in Seq(NewMoqtKeyValuePair) : Len(ext) \in VarintValues}
ASSUME BoundAssumption == MaxOptions \in Nat /\ MaxValueLength \in VarintValues

VARIABLES
    stage,    \* what is done next
    options,  \* options applied so far
    dg,       \* the datagram under construction
    wire,     \* its encoding
    rest,     \* what the decoder has still to read
    parsed,   \* what it has read, in bytes
    left,     \* extensions still to read
    pair,     \* the one being read
    out       \* the datagram decoded so far

vars == <<stage, options, dg, wire, rest, parsed, left, pair, out>>
codecVars == <<wire, rest, parsed, left, pair, out>>

-----------------------------------------------------------------------------
(* ObjectDatagramType *)

Bit(id, weight) == (id \div weight) % 2 = 1

\* NewObjectDatagramType refuses a bit no datagram has, and status with end of group.
KnownTypeID(id) == /\ id <= 45 /\ ~Bit(id, 16)
                   /\ ~(Bit(id, 32) /\ Bit(id, 2))

NewObjectDatagramType(id) ==
    [id |-> id, extensions |-> Bit(id, 1), endOfGroup |-> Bit(id, 2),
     objectId |-> ~Bit(id, 4), priority |-> ~Bit(id, 8), status |-> Bit(id, 32)]

\* Mutant: the object ID bit is set when the ID is present.
ToUInt64Straight(type) ==
    (IF type.extensions THEN 1 ELSE 0) + (IF type.endOfGroup THEN 2 ELSE 0)
    + (IF type.objectId THEN 4 ELSE 0) + (IF type.priority THEN 0 ELSE 8)
    + (IF type.status THEN 32 ELSE 0)

ToUInt64(type) ==
    (IF type.extensions THEN 1 ELSE 0) + (IF type.endOfGroup THEN 2 ELSE 0)
    + (IF type.objectId THEN 0 ELSE 4) + (IF type.priority THEN 0 ELSE 8)
    + (IF type.status THEN 32 ELSE 0)

IsValid(type) == /\ ~(type.status /\ type.endOfGroup)
                 /\ type.id <= 45 /\ ~Bit(type.id, 16)

ZeroType == [id |-> 0, extensions |-> FALSE, endOfGroup |-> FALSE,
             objectId |-> FALSE, priority |-> FALSE, status |-> FALSE]

Blank(alias, group) ==
    [type |-> ZeroType, alias |-> alias, group |-> group, object |-> 0,
     priority |-> <<>>, extensions |-> <<>>, status |-> <<>>, payload |-> <<>>]

-----------------------------------------------------------------------------
(* The wire *)

TwoBytes(v) == <<v \div 256, v % 256>>
Varint(v) ==
    IF v < 64 THEN <<v>>
    ELSE IF v < 64 * 256 THEN TwoBytes(64 * 256 + v)
    ELSE TwoBytes(128 * 256 + v \div (256 * 256)) \o TwoBytes(v % (256 * 256))

\* The two high bits of the first byte tell the form.
VarintWidth(b) == IF b[1] < 64 THEN 1 ELSE IF b[1] < 128 THEN 2 ELSE 4
HasVarint(b) == b # <<>> /\ VarintWidth(b) <= Len(b)
VarintOf(b) ==
    IF b[1] < 64 THEN b[1]
    ELSE IF b[1] < 128 THEN (b[1] - 64) * 256 + b[2]
    ELSE ((b[1] - 128) * 256 + b[2]) * (256 * 256) + b[3] * 256 + b[4]

\* Mutant: the bytes of a value come without their length.
EncodePairBare(kv) ==
    Varint(kv.type) \o (IF IsOdd(kv.type) THEN kv.bytes ELSE Varint(kv.number))

EncodeMoqtKeyValuePair(kv) ==
    Varint(kv.type) \o
    (IF IsOdd(kv.type) THEN Varint(Len(kv.bytes)) \o kv.bytes ELSE Varint(kv.number))

Pairs(ext) == FlattenSeq([i \in DOMAIN ext |-> EncodeMoqtKeyValuePair(ext[i])])

\* The prefix is the number of pairs.
EncodeExtensions(ext) == Varint(Len(ext)) \o Pairs(ext)

EncodeMoqtLocation(group, object) == Varint(group) \o Varint(object)

\* The optional fields after the location; status and payload exclude each other.
EncodeOptional(d) ==
    d.priority
    \o (IF d.extensions = <<>> THEN <<>> ELSE EncodeExtensions(d.extensions[1]))
    \o (IF d.status # <<>> THEN Varint(d.status[1])
        ELSE IF d.payload # <<>> THEN d.payload[1] ELSE <<>>)

\* The object ID is written whatever the type says.
EncodeObjectDatagram(d) ==
    Varint(d.type.id) \o Varint(d.alias) \o EncodeMoqtLocation(d.group, d.object)
    \o EncodeOptional(d)

EncodeObjectDatagramHeader(d) ==
    EncodeObjectDatagram([d EXCEPT !.payload = <<>>])

-----------------------------------------------------------------------------
(* NewMoqtObject *)

Normal == 0

NewMoqtObjectAccepts(status, extensions, payload) ==
    status # Normal => payload = <<>> /\ extensions = <<>>

-----------------------------------------------------------------------------
(* NewObjectDatagram *)

Init ==
    /\ stage = "options"
    /\ options = 0
    /\ dg \in {Blank(alias, group) : alias, group \in Numbers}
    /\ wire = <<>> /\ rest = <<>> /\ out = Blank(0, 0)
    /\ parsed = 0 /\ left = 0
    /\ pair = [type |-> 0, number |-> 0, bytes |-> <<>>]

Apply(d) ==
    /\ stage = "options"
    /\ options < MaxOptions
    /\ options' = options + 1
    /\ dg' = d
    /\ UNCHANGED <<stage, codecVars>>

WithObjectId(oid) == Apply([dg EXCEPT !.type.objectId = TRUE, !.object = oid])

\* Mutant: the value is set and the type forgotten.
WithPublisherPriorityOnly(p) == Apply([dg EXCEPT !.priority = <<p>>])

WithPublisherPriority(p) == Apply([dg EXCEPT !.type.priority = TRUE, !.priority = <<p>>])

WithExtensions(ext) == Apply([dg EXCEPT !.type.extensions = TRUE, !.extensions = <<ext>>])

WithEndOfGroup == Apply([dg EXCEPT !.type.endOfGroup = TRUE])

WithStatus(s) == Apply([dg EXCEPT !.type.status = TRUE, !.status = <<s>>])

WithPayload(p) == Apply([dg EXCEPT !.type.status = FALSE, !.payload = <<p>>])

Option ==
    \/ \E oid \in Numbers : WithObjectId(oid)
    \/ \E p \in Priorities : WithPublisherPriority(p)
    \/ \E ext \in Extensions : WithExtensions(ext)
    \/ WithEndOfGroup
    \/ \E s \in Statuses : WithStatus(s)
    \/ \E p \in Payloads : WithPayload(p)

\* The rules checked once every option has been applied.
Acceptable(d) ==
    /\ (d.status = <<>>) # (d.payload = <<>>)
    /\ ~(d.type.status /\ d.type.endOfGroup)
    /\ IsValid([d.type EXCEPT !.id = ToUInt64(d.type)])

Build ==
    /\ stage = "options"
    /\ IF Acceptable(dg)
       THEN stage' = "built" /\ dg' = [dg EXCEPT !.type.id = ToUInt64(dg.type)]
       ELSE stage' = "refused" /\ UNCHANGED dg
    /\ UNCHANGED <<options, codecVars>>

\* The bytes reach the decoder whole or cut short.
Transmit(bytes) ==
    /\ stage = "built"
    /\ wire' = bytes
    /\ \E n \in 0..Len(wire') : rest' = SubSeq(wire', 1, n)
    /\ stage' = "type"
    /\ UNCHANGED <<options, dg, parsed, left, pair, out>>

Encode == Transmit(EncodeObjectDatagram(dg))

\* A payload too big to copy is written after the header, from where it is.
EncodeInTwo ==
    /\ dg.payload # <<>>
    /\ Transmit(EncodeObjectDatagramHeader(dg) \o dg.payload[1])

-----------------------------------------------------------------------------
(* DecodeObjectDatagram *)

\* Mutant: the cursor moves a byte too far.
AdvanceTooFar(n, next) ==
    /\ rest' = SubSeq(rest, n + 1, Len(rest))
    /\ parsed' = parsed + n + 1
    /\ stage' = next

Advance(n, next) ==
    /\ rest' = SubSeq(rest, n + 1, Len(rest))
    /\ parsed' = parsed + n
    /\ stage' = next

\* A field that is missing or cut ends the call with an error.
Reject == stage' = "error" /\ UNCHANGED <<rest, parsed, left, pair, out>>

Kept == UNCHANGED <<options, dg, wire>>

AfterExtensions == IF out.type.status THEN "status" ELSE "payload"
AfterPriority == IF out.type.extensions THEN "count" ELSE AfterExtensions
AfterObject == IF out.type.priority THEN "priority" ELSE AfterPriority

DecodeType ==
    /\ stage = "type"
    /\ IF HasVarint(rest) /\ KnownTypeID(VarintOf(rest))
       THEN /\ Advance(VarintWidth(rest), "alias")
            /\ out' = [out EXCEPT !.type = NewObjectDatagramType(VarintOf(rest))]
            /\ UNCHANGED <<left, pair>>
       ELSE Reject
    /\ Kept

DecodeAlias ==
    /\ stage = "alias"
    /\ IF HasVarint(rest)
       THEN /\ Advance(VarintWidth(rest), "group")
            /\ out' = [out EXCEPT !.alias = VarintOf(rest)]
            /\ UNCHANGED <<left, pair>>
       ELSE Reject
    /\ Kept

DecodeGroup ==
    /\ stage = "group"
    /\ IF HasVarint(rest)
       THEN /\ Advance(VarintWidth(rest), "object")
            /\ out' = [out EXCEPT !.group = VarintOf(rest)]
            /\ UNCHANGED <<left, pair>>
       ELSE Reject
    /\ Kept

DecodeObject ==
    /\ stage = "object"
    /\ IF HasVarint(rest)
       THEN /\ Advance(VarintWidth(rest), AfterObject)
            /\ out' = [out EXCEPT !.object = VarintOf(rest)]
            /\ UNCHANGED <<left, pair>>
       ELSE Reject
    /\ Kept

DecodePriority ==
    /\ stage = "priority"
    /\ IF rest # <<>>
       THEN /\ Advance(1, AfterPriority)
            /\ out' = [out EXCEPT !.priority = <<rest[1]>>]
            /\ UNCHANGED <<left, pair>>
       ELSE Reject
    /\ Kept

DecodeCount ==
    /\ stage = "count"
    /\ IF HasVarint(rest)
       THEN /\ left' = VarintOf(rest)
            /\ Advance(VarintWidth(rest), IF left' = 0 THEN AfterExtensions ELSE "pairType")
            /\ out' = [out EXCEPT !.extensions = <<<<>>>>]
            /\ UNCHANGED pair
       ELSE Reject
    /\ Kept

\* The evenness of its type says what follows in a pair.
DecodePairType ==
    /\ stage = "pairType"
    /\ IF HasVarint(rest)
       THEN /\ Advance(VarintWidth(rest),
                       IF IsOdd(VarintOf(rest)) THEN "pairBytes" ELSE "pairNumber")
            /\ pair' = [type |-> VarintOf(rest), number |-> 0, bytes |-> <<>>]
            /\ UNCHANGED <<left, out>>
       ELSE Reject
    /\ Kept

\* One more pair has been read.
PairDone(kv, n) ==
    /\ out' = [out EXCEPT !.extensions[1] = Append(@, kv)]
    /\ left' = left - 1
    /\ Advance(n, IF left' = 0 THEN AfterExtensions ELSE "pairType")
    /\ UNCHANGED pair

DecodePairNumber ==
    /\ stage = "pairNumber"
    /\ IF HasVarint(rest)
       THEN PairDone([pair EXCEPT !.number = VarintOf(rest)], VarintWidth(rest))
       ELSE Reject
    /\ Kept

\* Mutant: a value cut short is taken as it is.
DecodePairBytesCut ==
    /\ stage = "pairBytes"
    /\ IF HasVarint(rest)
       THEN LET w == VarintWidth(rest)
                n == IF w + VarintOf(rest) <= Len(rest) THEN VarintOf(rest) ELSE Len(rest) - w
            IN  PairDone([pair EXCEPT !.bytes = SubSeq(rest, w + 1, w + n)], w + n)
       ELSE Reject
    /\ Kept

DecodePairBytes ==
    /\ stage = "pairBytes"
    /\ LET w == VarintWidth(rest)
           n == VarintOf(rest)
       IN  IF HasVarint(rest) /\ w + n <= Len(rest) /\ n <= MaxValueLength
           THEN PairDone([pair EXCEPT !.bytes = SubSeq(rest, w + 1, w + n)], w + n)
           ELSE Reject
    /\ Kept

DecodeStatus ==
    /\ stage = "status"
    /\ IF HasVarint(rest)
       THEN /\ Advance(VarintWidth(rest), "decoded")
            /\ out' = [out EXCEPT !.status = <<VarintOf(rest)>>]
            /\ UNCHANGED <<left, pair>>
       ELSE Reject
    /\ Kept

\* Whatever is left is the payload.
DecodePayload ==
    /\ stage = "payload"
    /\ Advance(Len(rest), "decoded")
    /\ out' = [out EXCEPT !.payload = <<rest>>]
    /\ UNCHANGED <<left, pair>>
    /\ Kept

Decode ==
    \/ DecodeType \/ DecodeAlias \/ DecodeGroup \/ DecodeObject \/ DecodePriority
    \/ DecodeCount \/ DecodePairType \/ DecodePairNumber \/ DecodePairBytes
    \/ DecodeStatus \/ DecodePayload

Next == Option \/ Build \/ Encode \/ EncodeInTwo \/ Decode

Spec == Init /\ [][Next]_vars

-----------------------------------------------------------------------------
(* Properties *)

DatagramType == [id : 0..45, extensions : BOOLEAN, endOfGroup : BOOLEAN,
                 objectId : BOOLEAN, priority : BOOLEAN, status : BOOLEAN]

\* A nullable field is a sequence of at most one value.
Datagram == [type : DatagramType, alias : Nat, group : Nat, object : Nat,
             priority : Seq(Byte), extensions : Seq(Seq(KeyValuePair)),
             status : Seq(Nat), payload : Seq(Seq(Byte))]

Stages == {"options", "refused", "built", "type", "alias", "group", "object", "priority",
           "count", "pairType", "pairNumber", "pairBytes", "status", "payload",
           "error", "decoded"}

\* Every variable keeps its type, and the decoder never counts a byte it was not
\* handed.
TypeOK ==
    /\ stage \in Stages
    /\ options \in 0..MaxOptions
    /\ dg \in Datagram
    /\ wire \in Seq(Byte) /\ rest \in Seq(Byte)
    /\ parsed \in Nat /\ left \in Nat
    /\ parsed + Len(rest) <= Len(wire)
    /\ pair \in KeyValuePair
    /\ out \in Datagram
    /\ \A d \in {dg, out} : /\ Len(d.priority) <= 1 /\ Len(d.extensions) <= 1
                            /\ Len(d.status) <= 1 /\ Len(d.payload) <= 1

Constructed == stage \notin {"options", "refused"}

\* Whatever options NewObjectDatagram was given, in whatever order and however
\* often, the type ID of the datagram it returns is one the decoder accepts and
\* says exactly which fields the datagram has.
TypeTellsFields ==
    Constructed =>
        /\ KnownTypeID(dg.type.id)
        /\ NewObjectDatagramType(dg.type.id) = dg.type
        /\ dg.type.priority = (dg.priority # <<>>)
        /\ dg.type.extensions = (dg.extensions # <<>>)
        /\ dg.type.status = (dg.status # <<>>)
        /\ dg.type.status = (dg.payload = <<>>)
        /\ ~dg.type.objectId => dg.object = 0

\* A datagram handed to the decoder whole is never refused, and is decoded to the
\* object that was encoded.
RoundTrip ==
    wire # <<>> /\ parsed + Len(rest) = Len(wire) =>
        /\ stage # "error"
        /\ stage = "decoded" => out = dg

\* A datagram cut short is refused, or it is the payload alone that is shorter:
\* no field of the object is ever taken from bytes that are missing.
CutsNeverMisread ==
    stage = "decoded" =>
        /\ [out EXCEPT !.payload = <<>>] = [dg EXCEPT !.payload = <<>>]
        /\ dg.payload # <<>> => out.payload # <<>> /\ IsPrefix(out.payload[1], dg.payload[1])

-----------------------------------------------------------------------------
(* What the comments say and the code does not do *)

\* "prefixed by the length of the serialized Key-Value-Pairs, in bytes"
\* (wire_encoder.go:51).
PrefixCountsBytes ==
    wire # <<>> /\ dg.extensions # <<>> =>
        LET ext == dg.extensions[1]
        IN  EncodeExtensions(ext) = Varint(Len(Pairs(ext))) \o Pairs(ext)

StatusOf(d) == IF d.status = <<>> THEN Normal ELSE d.status[1]
Held(field) == IF field = <<>> THEN <<>> ELSE field[1]

\* "If an endpoint receives extension headers on Objects with status that is not
\* Normal, it MUST close the session with a PROTOCOL_VIOLATION"
\* (pkg/model/object.go:32): what DecodeObjectDatagram returns without an error is
\* an object that NewMoqtObject would make.
DecodedIsAnObject ==
    stage = "decoded" =>
        NewMoqtObjectAccepts(StatusOf(out), Held(out.extensions), Held(out.payload))
=============================================================================
