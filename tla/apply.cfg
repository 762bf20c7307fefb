SPECIFICATION FairSpec

CONSTANTS
  c1 = c1
  c2 = c2
  c3 = c3
  p1 = p1
  cook1 = cook1
  Cmds = {c1, c2, p1}
  FileCmds = {p1}
  Wholes = {c2}
  UiApplies = {u1, u2}
  CookApplies = {cook1}
  Plan <- OnePlan
  Writers = {w1}
  Readers = {r1}
  Keys = {k1}
  TtlKeys = {k1}
  Mixes <- AllMixes
  MaxQueued = 2
  MaxApplies = 2
  MaxRemounts = 1
  MaxCrashes = 1
  NoApply = NoApply

CONSTRAINT InOrder

INVARIANTS
  TypeOK
  RunsInOrder
  CommandsAccounted
  TakenOutNeverRuns
  OkKeepsChanges
  OneApplyAtATime
  Recoverable
  CacheCurrent

PROPERTIES
  AppliesAreAtomic
  GuardReleased
  RecipeAnswered

CHECK_DEADLOCK FALSE
