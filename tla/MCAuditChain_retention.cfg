SPECIFICATION AuditSpec
CONSTANTS
  Content = {"x", "y"}
  Interval = 0
  Retain = 2
  MaxRecords = 3
  MaxRewrites = 1
INVARIANT UntouchedVerifies
CHECK_DEADLOCK FALSE
