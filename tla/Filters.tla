------------------------------- MODULE Filters -------------------------------
(***************************************************************************)
(* The part of a sequence at some of its positions, in its order: what     *)
(* Vec::retain leaves.  It is written with the ranks of the positions and  *)
(* not with SelectSeq, whose recursion is out of reach of a proof.         *)
(***************************************************************************)
EXTENDS Naturals, Sequences, FiniteSets

\* How many of the positions come up to i.
Place(at, i) == Cardinality({j \in at : j <= i})

Among(s, at) ==
    [k \in 1..Cardinality(at) |-> s[CHOOSE i \in at : Place(at, i) = k]]

\* Vec::remove, and a filter that leaves one out.
WithoutAt(s, i) == Among(s, DOMAIN s \ {i})
=============================================================================
