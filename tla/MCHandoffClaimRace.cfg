CONSTANTS
  p1 = p1
  p2 = p2
  p3 = p3
  h1 = h1
  plain = plain
  gated = gated
  barred = barred
  Procs <- MCProcs
  Ids <- MCIds
  GivenIds <- CreatedByName
  Contents <- MCContents
  Gated = {gated}
  Barred = {barred}
  Brakes <- MCBrakes
  Faults = {}
SPECIFICATION Spec
SYMMETRY Symmetry
PROPERTY ClaimedWasAllowed
