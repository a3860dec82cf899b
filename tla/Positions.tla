------------------------------ MODULE Positions ------------------------------
(***************************************************************************)
(* Positions in a sequence that are found by a test, such as the ends of   *)
(* the frames on a stream or the slashes in a name.                        *)
(***************************************************************************)
EXTENDS Naturals, FiniteSets

\* The positions of S from the first to the last.
InOrder(S) ==
    [k \in 1..Cardinality(S) |-> CHOOSE i \in S : Cardinality({j \in S : j <= i}) = k]
=============================================================================
