SPECIFICATION Spec
CONSTANTS
  Action = {"throttle", "kill_process", "disable_account", "isolate"}
  Host = {h1}
  Actor = {a1, a2, a3}
  DemoHost = h1
  DemoApprover = demo_approver
  DemoReviewer = demo_reviewer
  Sla = 1
  MaxRequests = 2
  MaxTime = 1
SYMMETRY Symmetry
INVARIANTS ApprovalInv LedgerTells ImpactControlled
PROPERTY ImplementsApproval
CHECK_DEADLOCK FALSE
