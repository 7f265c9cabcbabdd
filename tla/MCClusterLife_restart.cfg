SPECIFICATION SpecLife
CONSTANTS
  Node = {n1, n2}
  Value = {v1}
  Nil = Nil
  BatchSize = 1
  MaxTerm = 2
  MaxLog = 2
  MaxLate = 1
  MaxReset = 1
  MaxSnap = 1
SYMMETRY Symmetry
VIEW LifeView
CONSTRAINT OneEvent
INVARIANT WellFormedUnlessCut
PROPERTY CommitNeverBack
CHECK_DEADLOCK FALSE
