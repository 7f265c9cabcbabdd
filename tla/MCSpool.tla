------------------------------- MODULE MCSpool -------------------------------
(* TLC instances of Spool. *)
EXTENDS Spool

Symmetry == Permutations(Tenant) \cup Permutations(Key)
=============================================================================
