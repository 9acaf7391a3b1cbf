SPECIFICATION Spec
CONSTANTS
  Runs = {r1, r2}
  Publishers = {g1}
  Source = source
  DirtyPlans = {d1, d2}
  CleanPlans = {}
  Updates = {}
  MaxTrouble = 0
  Troubles = {"command"}
INVARIANTS
  CommitsOnlyWhereApproved
CHECK_DEADLOCK FALSE
