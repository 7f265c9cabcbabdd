SPECIFICATION Spec
CONSTANTS
  Agent = {a1, a2}
  MaxVersion = 2
  CanarySoak = 1
  Ring1Soak = 1
  MaxFailures = 1
  Signed = TRUE
  Ask = {"canary", "ring-1"}
  MaxOps = 2
  MaxRestart = 1
SYMMETRY Symmetry
VIEW NoFailureView
CONSTRAINT SilentEarly
INVARIANT TypeOK
PROPERTIES AppliedRuns PromotedSoaked AssignedNotRolledBack
CHECK_DEADLOCK FALSE
