SPECIFICATION Spec
CONSTANT Cases <- MCCases
INVARIANT ContinueExactlyWhenGoverned
INVARIANT ElectionJustified
INVARIANT ElectionFitsItsOwnCheck
CHECK_DEADLOCK FALSE
