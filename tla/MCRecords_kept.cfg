SPECIFICATION RecordsSpec
CONSTANTS
  Content = {"x", "y"}
  Interval = 3
  Retain = 2
  MaxRecords = 4
  MaxRewrites = 2
  Channel = {"alert", "agent"}
  MaxBuffer = 2
  MaxEvents = 4
  MaxSubs = 2
  Id = {a, b, c}
  Actor = {p, q}
  Required = {1, 2}
  MaxReviews = 2
  AllowLive = TRUE
  MaxSigned = 3
  MaxRecorded = 3
  MaxRuns = 1
  Token = {s1, s2, s3}
  Ttl = {1, 2}
  MaxTime = 2
SYMMETRY Symmetry
INVARIANTS TamperEvident DropsCounted RunsBacked SessionsHonoured
CHECK_DEADLOCK FALSE
