SPECIFICATION FairSpec
CONSTANTS
  x1 = x1  x2 = x2  x3 = x3  x4 = x4  x5 = x5  i1 = i1  i2 = i2  i3 = i3
  NoId = NoId
  Ids = {i1, i2, i3}
  Deliveries = {x1, x2, x3, x4, x5}
  Handlers = {h1, h2}
  Id <- MixedId
  Signature <- MixedSignature
  Event <- MixedEvent
  Capacity = 2
  TTL = 2
  MaxTime = 2
  MaxRuns = 1
  MaxRestarts = 1
INVARIANTS
  BoundedMemory
PROPERTIES
  ReplayWindow
  GenuineDeliveryRuns
