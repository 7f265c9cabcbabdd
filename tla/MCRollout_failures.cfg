SPECIFICATION Spec
CONSTANTS
  Agent = {a1, a2}
  MaxVersion = 2
  CanarySoak = 1
  Ring1Soak = 1
  MaxFailures = 1
  Signed = TRUE
  Ask = {"canary"}
  MaxOps = 1
  MaxRestart = 1
PROPERTY FailuresBlock
CHECK_DEADLOCK FALSE
