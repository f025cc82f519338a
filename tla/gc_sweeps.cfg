SPECIFICATION FairSpec
CONSTANTS
  t1 = t1  t2 = t2  u = u  b1 = b1  b2 = b2
  Trees = {t1, u}
  Blobs = {b1, b2}
  Children <- NestedChildren
  Order <- NestedOrder
  Steps = {s1, s2}
  MinAge = 3
  MaxStep = 1
  MaxMark = 1
  Rebuilds = FALSE
  MaxFaults = 1
INVARIANTS
  RootsComplete
  RunningStepsKeepObjects
PROPERTIES
  GarbageReclaimed
