SPECIFICATION Spec
CONSTANTS
  Repairs = {t1, t2}
  Configs = {good, bad}
  Healthy = {good}
  Torn = Torn
  NoBackup = NoBackup
  Rounds = 2
  Mixes <- MCMixes
SYMMETRY Symmetry
INVARIANTS
  TypeOK
  NothingLeft
  HealthyKept
  DamagedSaved
CHECK_DEADLOCK FALSE
