----------------------------- MODULE MCRecords -------------------------------
(* TLC instance of Records. *)
EXTENDS Records, TLC

Symmetry == Permutations(Actor) \cup Permutations(Id) \cup Permutations(Token)
=============================================================================
