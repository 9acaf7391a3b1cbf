SPECIFICATION Spec
CONSTANTS
  Procs = {p1, p2}
  Invocations = {i1, i2}
  MaxIssues = 2
  MaxApprovals = 1
  MaxCloseouts = 2
  MaxTrouble = 1
  Troubles = {"append", "crash", "brake", "audit", "epoch", "result"}
  Outcomes <- MCOutcomes
SYMMETRY Symmetry
INVARIANTS
  InvocationTypeOK
  OneBoundPerApproval
  NoStaleResult
  LostBindingsAreTold
CHECK_DEADLOCK FALSE
