SPECIFICATION Spec

CONSTANTS
  c1 = c1
  w1 = w1
  a1 = a1
  a2 = a2
  Cmds = {c1, w1}
  Writes = {w1}
  Applies = {a1, a2}
  None = None
  Torn = Torn
  MaxRefused = 2
  MaxTimeouts = 2
  MaxLosses = 1
  MaxCuts = 1
  MaxCrashes = 1
  MaxFaults = 2

CONSTRAINT Narrow

SYMMETRY Symmetry

INVARIANTS
  TypeOK
  RestoredExactly
  SnapshotStands
  OkMeansAllRan
  StartedOnce

CHECK_DEADLOCK FALSE
