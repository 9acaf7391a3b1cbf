SPECIFICATION Spec
CONSTANTS
  Parts = {"stages"}
  Statuses = {"completed"}
  MaxExtra = 1
  Window = 1
  Total = 2
  RetryFiles = {"retry1"}
  RetryTerms = {"short"}
INVARIANT FailedStageMayBeRetried
CHECK_DEADLOCK FALSE
