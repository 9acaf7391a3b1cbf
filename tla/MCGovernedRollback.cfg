CONSTANTS
  p1 = p1
  p2 = p2
  e1 = e1
  e2 = e2
  t1 = t1
  r1 = r1
  o1 = o1
  o2 = o2
  Procs <- MCProcs
  Epochs <- MCEpochs
  Tasks <- MCTasks
  Runs <- MCRuns
  RunTask <- MCRunTask
  RunResult <- MCRunResult
  Asks <- MCAsks
  Policy <- MCPolicy
  Commands = {"check"}
  TaskLists <- MCNoTasks
  Verdicts = {}
  Brakes <- MCBrakes
  MaxCloseouts = 1
  Faults = {"audit"}
  Owners <- MCOneOwner
  GovernedOps = {"start"}
  MaxAudit = 1
SPECIFICATION GovernedSpec
SYMMETRY Symmetry
INVARIANT RollbackHolds
