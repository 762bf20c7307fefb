SPECIFICATION Spec

CONSTANTS
  d0 = d0
  d1 = d1
  d2 = d2
  d3 = d3
  b1 = b1
  main = main
  apply1 = apply1
  i1 = i1
  i2 = i2
  i3 = i3
  Docs = {d0, d1, d2, d3}
  BadDocs = {b1}
  EmptyDoc = d0
  First = d1
  Main = main
  Applies = {apply1}
  Labels = {"model"}
  ApplyLabel = "summary"
  NoInode = NoInode
  Inodes = {i1, i2, i3}
  Torn = Torn
  Cap = 2
  MaxClock = 3
  MaxShort = 1
  MaxCrashes = 1
  Mixes <- AllMixes

SYMMETRY Symmetry

INVARIANTS
  TypeOK
  ListedHaveFiles
  RecordedStayListed
  RollbackKeepsPromise

PROPERTIES
  ConfigIsVersioned

CHECK_DEADLOCK FALSE
