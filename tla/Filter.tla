------------------------------- MODULE Filter -------------------------------
(***************************************************************************)
(* Array.prototype.filter on sequences: the elements of s at the places P, *)
(* in their order.                                                         *)
(***************************************************************************)
EXTENDS Naturals, Sequences, FiniteSets

\* How many places of P there are up to i.
Rank(P, i) == Cardinality({j \in P : j <= i})

At(s, P) ==
    [k \in 1..Cardinality(P) |-> s[CHOOSE i \in P : Rank(P, i) = k]]
=============================================================================
