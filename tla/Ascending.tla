------------------------------ MODULE Ascending ------------------------------
(***************************************************************************)
(* The order of an iteration: a loop that walks a vector and acts on some  *)
(* of its elements meets them in the order of their positions.             *)
(***************************************************************************)
EXTENDS Naturals, FiniteSets

\* The ways to list a set of positions from the lowest to the highest.
Listings(S) ==
  {s \in [1..Cardinality(S) -> S] : \A i, j \in 1..Cardinality(S) : i < j => s[i] < s[j]}

\* A finite set of positions in ascending order, as a sequence.
InOrder(S) == CHOOSE s \in Listings(S) : TRUE
=============================================================================
