------------------------------- MODULE Places -------------------------------
(***************************************************************************)
(* What is kept of a list: its entries at some of its places, in order, as *)
(* filter() of the code and $pull of the store leave them.                 *)
(***************************************************************************)
EXTENDS Naturals, Sequences, FiniteSets

\* The how many-th of S the place n is.
Rank(S, n) == Cardinality({m \in S : m <= n})

AtPlaces(list, S) ==
    [k \in 1 .. Cardinality(S) |-> list[CHOOSE n \in S : Rank(S, n) = k]]
=============================================================================
