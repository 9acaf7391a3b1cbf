CONSTANTS
  p1 = p1
  p2 = p2
  e1 = e1
  e2 = e2
  t1 = t1
  t2 = t2
  r1 = r1
  r2 = r2
  Procs <- MCProcs
  Epochs <- MCOneEpoch
  Tasks <- MCTheTask
  Runs <- MCRuns
  RunTask <- MCTaskOfBoth
  RunResult <- OneViolates
  Asks <- MCAsks
  Policy <- MCPolicy
  Commands = {"start", "complete", "fail", "brake", "check", "closeout"}
  TaskLists <- MCOneTask
  Verdicts = {"CONTINUE", "STOP"}
  Brakes <- MCBrakes
  MaxCloseouts = 2
  Faults = {"unlink"}
SPECIFICATION FairSpec
INVARIANT TypeOK
INVARIANT OneOutcome
PROPERTY LocksReturned
PROPERTY ImplementsRegistry
