SPECIFICATION Spec
CONSTANTS
  Node = {n1, n2, n3}
  Value = {v1}
  Nil = Nil
  BatchSize = 1
  MaxTerm = 2
  MaxLog = 0
  MaxLate = 1
SYMMETRY Symmetry
INVARIANTS ElectionInv OneVotePerTerm OneWinnerPerRound LeaderIdLed SplitOnlyByLateWin
CHECK_DEADLOCK FALSE
