SPECIFICATION Spec
CONSTANTS
  Runs = {r1, r2}
  Publishers = {g1, g2}
  Source = source
  DirtyPlans = {d1}
  CleanPlans = {c1, c2}
  Updates = {c2}
  MaxTrouble = 2
  Troubles = {"command", "crash", "audit", "answer", "operator"}
SYMMETRY Symmetry
INVARIANTS
  GitTypeOK
  CommitsOnlyWhereApproved
  OneApprovedCommit
  PublishedIsWhatWasChecked
PROPERTIES
  UndoneLeavesNoTrace
  SourceIsLeftAlone
CHECK_DEADLOCK FALSE
