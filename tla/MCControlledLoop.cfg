SPECIFICATION Spec
CONSTANTS
  Parts = {"run", "runner", "stages"}
  Statuses = {"completed", "failed", "stopped", "task_completed"}
  MaxExtra = 2
  Window = 1
  Total = 2
  RetryFiles = {"retry1", "retry2"}
  RetryTerms = {"short", "long"}
INVARIANTS
  TypeOK
  OneChain
  OutcomeFitsEpoch
  OneRunner
  OneStageLine
  RunsOnOneLine
  CompletedByStarter
PROPERTIES
  ActedWhileApproved
  RetriedOnce
CHECK_DEADLOCK FALSE
