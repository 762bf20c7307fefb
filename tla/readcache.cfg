SPECIFICATION FairSpec
CONSTANTS
  Keys = {k1, k2}
  Requests = {r1, r2, r3}
  MaxEntries = 1
  Mixes <- MCMixes
  MaxVersion = 1
  MaxPins = 1
  MaxFailures = 1
  Nothing = Nothing
INVARIANTS
  TypeOK
  OneRequest
PROPERTIES
  PinnedShown
  SettlesFresh
CHECK_DEADLOCK FALSE
