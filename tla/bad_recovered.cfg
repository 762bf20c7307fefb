SPECIFICATION Spec
CONSTANTS
  Repairs = {t1}
  Configs = {good, bad}
  Healthy = {good}
  Torn = Torn
  NoBackup = NoBackup
  Rounds = 2
  Mixes = {{"ssh"}}
INVARIANTS
  RecoveredKept
CHECK_DEADLOCK FALSE
