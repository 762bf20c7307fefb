SPECIFICATION Spec

CONSTANTS
  c1 = c1
  c2 = c2
  c3 = c3
  p1 = p1
  cook1 = cook1
  Cmds = {c1, c2, c3, p1}
  FileCmds = {c3, p1}
  Wholes = {}
  UiApplies = {u1, u2}
  CookApplies = {cook1}
  Plan <- OnePlan
  Writers = {w1}
  Readers = {r1}
  Keys = {k1}
  TtlKeys = {k1}
  Mixes = {{"cook"}, {"remount"}}
  MaxQueued = 2
  MaxApplies = 2
  MaxRemounts = 1
  MaxCrashes = 1
  NoApply = NoApply

INVARIANTS
  Exclusive

CHECK_DEADLOCK FALSE
