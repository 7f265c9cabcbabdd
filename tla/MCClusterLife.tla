---------------------------- MODULE MCClusterLife ----------------------------
(* TLC instances of ClusterLife. *)
EXTENDS ClusterLife, TLC

Symmetry == Permutations(Node)

\* Bound: a behaviour that takes a snapshot has neither replacements nor
\* requests that outlive their caller.
OneEvent == snaps # {} => resets = 0 /\ late = {}

\* Everything but the history no property of the run reads.
LifeView == <<nodeVars, driverVars, netVars, faults, lifeVars>>
=============================================================================
