SPECIFICATION FairSpec
CONSTANTS
  c1 = c1
  c2 = c2
  c3 = c3
  Procs = {p1, p2}
  Calls = {c1, c2, c3}
  Jobs = {j1}
  MaxRetries = 2
  Mixes <- MCMixes
  MaxDue = 3
  MaxOutages = 1
  MaxRemounts = 1
  NoProc = NoProc
CONSTRAINT InOrder
INVARIANTS
  TypeOK
  OneWatchdog
PROPERTIES
  MissedIsHandled
CHECK_DEADLOCK FALSE
