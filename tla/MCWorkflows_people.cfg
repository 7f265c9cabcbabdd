SPECIFICATION WorkflowsSpec
CONSTANTS
  Policies <- Chains
  MaxWait = 1
  AgeCap = 3
  MaxEsc = 1
  MaxTold = 4
  Books <- Gated
  StepId <- Steps
  MaxExec = 2
INVARIANTS WorkflowsTypeOK GatesApproved
PROPERTIES ExpiredAllNotified EveryEscalationEnds ApprovedEnds
CHECK_DEADLOCK FALSE
