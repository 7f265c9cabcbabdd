SPECIFICATION EndpointsSpec
CONSTANTS
  Token = {k1}
  MaxUses = 1
  AgentId = {a1, a2, a3}
  Old = {a1}
  MaxBoots = 3
  Thread = {t1, t2}
  MaxVersion = 3
  CounterOf <- BackPort
  Timeout = 1
  MaxWait = 1
  MaxTime = 3
  MaxSessions = 2
  MaxCommands = 2
SYMMETRY Alike
INVARIANTS EndpointsTypeOK TokenBound KeptUnlessLost Recoverable
PROPERTIES InstalledAsVerified TimeoutKept
CHECK_DEADLOCK FALSE
