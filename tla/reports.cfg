SPECIFICATION Spec
CONSTANTS
  r1 = r1
  r2 = r2
  Reports = {r1, r2, r3}
  Low = {r3}
  MaxPending = 2
  MaxDeadLetter = 1
  RetryLimit = 2
  MaxPerHour = 1
  Mixes <- MCMixes
  MaxBoots = 3
  MaxHours = 1
  MaxTests = 1
  Nobody = Nobody
SYMMETRY Alike
CONSTRAINT FewStarts
INVARIANTS
  TypeOK
  FiledOnce
  NothingForgotten
  RateKept
CHECK_DEADLOCK FALSE
