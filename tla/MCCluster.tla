------------------------------ MODULE MCCluster ------------------------------
(* TLC instances of Cluster. *)
EXTENDS Cluster, TLC

Symmetry == Permutations(Node)

\* Everything but the history no action reads, for runs that do not either.
ReplicationView == <<nodeVars, driverVars, netVars, faults>>

\* Bound of the replication run: past the first hazard LogMatching and
\* CommitDurable claim nothing, and elections that overlap are the election
\* run's subject.
OrderlyElections ==
  /\ faults = {}
  /\ Cardinality({n \in Node : electing[n]}) <= 1
=============================================================================
