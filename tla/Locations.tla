------------------------------ MODULE Locations ------------------------------
(***************************************************************************)
(* The comparisons of MoqtLocation: three functions written one by one,    *)
(* which must together order the objects of a track.                       *)
(***************************************************************************)
EXTENDS Naturals

Location == [group : Nat, object : Nat]

LessThan(a, b) == a.group < b.group \/ (a.group = b.group /\ a.object < b.object)

Equal(a, b) == a.group = b.group /\ a.object = b.object

GreaterThan(a, b) == a.group > b.group \/ (a.group = b.group /\ a.object > b.object)
=============================================================================
