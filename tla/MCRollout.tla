------------------------------ MODULE MCRollout ------------------------------
(* TLC instances of Rollout. *)
EXTENDS Rollout

Symmetry == Permutations(Agent)

\* Everything but the history that only FailuresBlock reads.
NoFailureView == <<place, serverVars, agentVars, ops, restarts, applied>>

\* Bound: an agent falls silent only before the last request of an operator.
SilentEarly == ops = MaxOps => online = Agent
=============================================================================
