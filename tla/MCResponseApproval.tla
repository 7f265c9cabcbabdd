------------------------- MODULE MCResponseApproval --------------------------
(* TLC instance of ResponseApproval. *)
EXTENDS ResponseApproval, TLC

Symmetry == Permutations(Actor)
=============================================================================
