CONSTANTS
  p1 = p1
  p2 = p2
  e1 = e1
  e2 = e2
  t1 = t1
  r1 = r1
  o1 = o1
  o2 = o2
  Procs <- MCProcs
  Epochs <- MCOneEpoch
  Tasks <- MCTasks
  Runs <- MCRuns
  RunTask <- MCRunTask
  RunResult <- MCRunResult
  Asks <- MCAsks
  Policy <- MCPolicy
  Commands = {"fail", "brake"}
  TaskLists <- MCNoTasks
  Verdicts = {}
  Brakes <- MCBrakes
  MaxCloseouts = 1
  Faults = {"audit", "write", "unlink", "undo"}
  Owners <- MCOwners
  GovernedOps = {"start", "claim", "close"}
  MaxAudit = 3
SPECIFICATION GovernedSpec
SYMMETRY SymmetryOfOne
INVARIANT GovernedTypeOK
INVARIANT StartedIsReal
INVARIANT ChainUnbroken
PROPERTY DriveGoverns
INVARIANT OneOwner
INVARIANT OwnershipIsAudited
