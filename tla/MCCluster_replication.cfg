SPECIFICATION Spec
CONSTANTS
  Node = {n1, n2, n3}
  Value = {v1}
  Nil = Nil
  BatchSize = 2
  MaxTerm = 2
  MaxLog = 2
  MaxLate = 0
SYMMETRY Symmetry
VIEW ReplicationView
CONSTRAINT OrderlyElections
INVARIANTS TypeOK LogMatching CommitDurable LeaderReachesPeers
CHECK_DEADLOCK FALSE
