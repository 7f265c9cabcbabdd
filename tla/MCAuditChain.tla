---------------------------- MODULE MCAuditChain -----------------------------
(* TLC instances of AuditChain. *)
EXTENDS AuditChain
=============================================================================
