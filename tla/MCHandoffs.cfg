CONSTANTS
  p1 = p1
  p2 = p2
  p3 = p3
  h1 = h1
  plain = plain
  gated = gated
  barred = barred
  Procs <- MCProcs
  Ids <- MCIds
  GivenIds <- PreparedByName
  Contents <- MCContents
  Gated = {gated}
  Barred = {barred}
  Brakes <- MCBrakes
  Faults = {"unlink", "undo", "write", "crash", "clear"}
SPECIFICATION Spec
SYMMETRY Symmetry
INVARIANT TypeOK
PROPERTY ClaimedWasAllowed
PROPERTY EndedForGood
PROPERTY ImplementsHandoffs
