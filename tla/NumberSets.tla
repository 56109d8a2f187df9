----------------------------- MODULE NumberSets -----------------------------
(***************************************************************************)
(* Finite sets of places in a list, read in order: what a loop that keeps  *)
(* some of the elements it walks over leaves behind.                       *)
(***************************************************************************)
EXTENDS Integers, FiniteSets

\* How many members of S lie below i.
Rank(S, i) == Cardinality({j \in S : j < i})

\* The members of S, smallest first.
InOrder(S) == [n \in 1 .. Cardinality(S) |-> CHOOSE i \in S : Rank(S, i) = n - 1]

\* The elements of list at the places in S, in their order.
Picked(list, S) == [n \in 1 .. Cardinality(S) |-> list[InOrder(S)[n]]]

=============================================================================
