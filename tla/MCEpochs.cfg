CONSTANTS
  p1 = p1
  p2 = p2
  e1 = e1
  e2 = e2
  t1 = t1
  t2 = t2
  r1 = r1
  r2 = r2
  Procs <- MCProcs
  Epochs <- MCEpochs
  Tasks <- MCTasks
  Runs <- MCOneRun
  RunTask <- MCItsTask
  RunResult <- ItSucceeds
  Asks <- MCAsks
  Policy <- MCPolicy
  Commands = {"start", "check", "fail", "complete", "closeout"}
  TaskLists <- MCBothTasks
  Verdicts = {"CONTINUE"}
  Brakes <- MCBrakes
  MaxCloseouts = 1
  Faults = {"unlink", "undo", "crash", "clear"}
SPECIFICATION Spec
SYMMETRY Symmetry
INVARIANT AtMostOneActive
PROPERTY NoLostUpdate
PROPERTY TerminalFrozen
INVARIANT ContinueBounded
