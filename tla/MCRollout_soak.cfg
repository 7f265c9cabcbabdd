SPECIFICATION LiveSpec
CONSTANTS
  Agent = {a1, a2}
  MaxVersion = 1
  CanarySoak = 2
  Ring1Soak = 1
  MaxFailures = 1
  Signed = FALSE
  Ask = {"canary"}
  MaxOps = 1
  MaxRestart = 0
PROPERTY HealthyCanaryPromoted
CHECK_DEADLOCK FALSE
