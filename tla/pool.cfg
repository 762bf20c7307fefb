SPECIFICATION FairSpec

CONSTANTS
  o1 = o1
  o2 = o2
  o3 = o3
  e1 = e1
  e2 = e2
  s1 = s1
  s2 = s2
  s3 = s3
  s4 = s4
  s5 = s5
  Ops = {o1, o2, o3}
  Entries = {e1, e2}
  Sessions = {s1, s2, s3}
  None = None
  Permits = 2
  MaxFailures = 1
  MaxRefusals = 1
  Reconnects = TRUE
  Cancels = TRUE

CONSTRAINTS
  InOrder
  OneFault

INVARIANTS
  TypeOK
  PermitsConserved
  RunsAtMostOnce

PROPERTIES
  CallsReturn

CHECK_DEADLOCK FALSE
