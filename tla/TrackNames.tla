------------------------------ MODULE TrackNames ------------------------------
(***************************************************************************)
(* Full track names: a value built by some caller is rendered by ToString, *)
(* and StringToMoqtFullTrackName reads that string, or any other, one      *)
(* field after another with a running total of its bytes.                  *)
(*                                                                         *)
(* A string is a sequence of bytes; all that matters of a byte is whether  *)
(* it is the slash.                                                        *)
(***************************************************************************)
EXTENDS Naturals, Sequences, SequencesExt, Positions

CONSTANTS
    Letters,    \* the bytes that are no slash
    Slash,
    Strings,    \* strings handed to the parser
    Names,      \* full track names built by callers
    MinFields, MaxFields,   \* minFieldsInNamespace, maxFieldsInNamespace
    MaxBytes                \* maxBytesInFullTrackName

Byte == Letters \cup {Slash}
FullTrackName == [namespace : Seq(Seq(Byte)), name : Seq(Byte)]

ASSUME SlashAssumption == Slash \notin Letters
ASSUME StringsAssumption == Strings \subseteq Seq(Byte) /\ Names \subseteq FullTrackName
ASSUME LimitsAssumption == MinFields \in Nat \ {0} /\ MaxFields \in Nat /\ MaxBytes \in Nat

VARIABLES
    stage,  \* what is done next
    given,  \* the value rendered into str, if any: a sequence of at most one
    str,    \* the string to be parsed
    ftn,    \* the full track name read so far
    ftnLen  \* its length in bytes, the fields still to come left out

vars == <<stage, given, str, ftn, ftnLen>>

NoName == [namespace |-> <<>>, name |-> <<>>]

-----------------------------------------------------------------------------
(* The methods of MoqtFullTrackName *)

GetLength(t) == Len(FlattenSeq(t.namespace)) + Len(t.name)

IsValid(t) ==
    /\ Len(t.namespace) \in MinFields..MaxFields
    /\ t.name # <<>>
    /\ GetLength(t) <= MaxBytes

\* Mutant: slashes only between the fields.
RenderingJoined(t) ==
    FlattenSeq([i \in DOMAIN t.namespace |->
                    IF i = 1 THEN t.namespace[i] ELSE <<Slash>> \o t.namespace[i]]) \o t.name

\* The method ToString; the name is taken by the module TLC.
Rendering(t) ==
    FlattenSeq([i \in DOMAIN t.namespace |-> Append(t.namespace[i], Slash)]) \o t.name

Slashes(s) == {k \in DOMAIN s : s[k] = Slash}

\* What lies between two slashes, or between one and an end.
Split(s) ==
    LET at == InOrder(Slashes(s))
        ends == <<0>> \o at \o <<Len(s) + 1>>
    IN  [k \in 1..(Len(at) + 1) |-> SubSeq(s, ends[k] + 1, ends[k + 1] - 1)]

-----------------------------------------------------------------------------
Init ==
    /\ stage \in {"render", "split"}
    /\ ftn = NoName /\ ftnLen = 0
    /\ IF stage = "render" THEN str = <<>> /\ \E t \in Names : given = <<t>>
                           ELSE given = <<>> /\ str \in Strings

Render ==
    /\ stage = "render"
    /\ str' = Rendering(given[1])
    /\ stage' = "split"
    /\ UNCHANGED <<given, ftn, ftnLen>>

\* Mutant: the name is not set apart before the fields are counted.
FieldsAllowedMiscounted(n) == n >= MinFields + 1 /\ n <= MaxFields + 2

\* One part more than there are fields, for the name.
FieldsAllowed(n) == n >= MinFields + 1 /\ n <= MaxFields + 1

Refuse == stage' = "error" /\ ftn' = NoName

\* Mutant: the total starts without the name.
BeginUncounted ==
    /\ stage = "split"
    /\ IF FieldsAllowed(Len(Split(str)))
       THEN stage' = "fields" /\ ftn' = [NoName EXCEPT !.name = Last(Split(str))]
       ELSE Refuse
    /\ UNCHANGED <<given, str, ftnLen>>

Begin ==
    /\ stage = "split"
    /\ IF FieldsAllowed(Len(Split(str)))
       THEN /\ stage' = "fields"
            /\ ftn' = [NoName EXCEPT !.name = Last(Split(str))]
            /\ ftnLen' = Len(Last(Split(str)))
       ELSE Refuse /\ UNCHANGED ftnLen
    /\ UNCHANGED <<given, str>>

\* The limit is looked at after each field, and nowhere else.
TakeField ==
    /\ stage = "fields"
    /\ LET fields == Front(Split(str))
           field == fields[Len(ftn.namespace) + 1]
       IN  /\ ftnLen' = ftnLen + Len(field)
           /\ IF ftnLen' > MaxBytes
              THEN Refuse
              ELSE /\ ftn' = [ftn EXCEPT !.namespace = Append(@, field)]
                   /\ stage' = IF Len(ftn'.namespace) = Len(fields) THEN "parsed" ELSE "fields"
    /\ UNCHANGED <<given, str>>

Next == Render \/ Begin \/ TakeField

Spec == Init /\ [][Next]_vars

-----------------------------------------------------------------------------
(* Properties *)

\* Every variable keeps its type, no field that was read holds a slash, and a
\* namespace never grows past its limit.
TypeOK ==
    /\ stage \in {"render", "split", "fields", "parsed", "error"}
    /\ given \in Seq(FullTrackName) /\ Len(given) <= 1
    /\ str \in Seq(Byte)
    /\ ftn \in [namespace : Seq(Seq(Letters)), name : Seq(Letters)]
    /\ Len(ftn.namespace) <= MaxFields
    /\ ftnLen \in Nat

\* The running total refuses exactly the strings that are over a limit, also those
\* whose name alone is, which is looked at with the first field only.  What is
\* accepted is valid but for one thing: IsValid wants a name, and the parser takes
\* an empty one.
LimitsExact ==
    LET slashes == Cardinality(Slashes(str))
        within == slashes \in MinFields..MaxFields /\ Len(str) - slashes <= MaxBytes
    IN  /\ stage = "parsed" => within /\ (IsValid(ftn) <=> ftn.name # <<>>)
        /\ stage = "error" => ~within

HasSlash(t) == Contains(t.name, Slash) \/ \E i \in DOMAIN t.namespace : Contains(t.namespace[i], Slash)

\* What was parsed is written back as the same string, and a value that was rendered
\* and parsed is the same value unless one of its fields, or its name, holds a
\* slash: then it is always taken for another track.
NamesRoundTrip ==
    stage = "parsed" =>
        /\ Rendering(ftn) = str
        /\ given # <<>> => (ftn = given[1] <=> ~HasSlash(given[1]))
=============================================================================
