SPECIFICATION FairSpec
CONSTANTS
  d1 = d1  d2 = d2  w1 = w1  w2 = w2
  None = None  Hole = Hole
  Digests = {d1, d2}
  Inodes = {i1, i2, i3}
  Writers = {w1}
  Readers = {}
  NChunks = 2
  Owns <- OwnsAll
  Kinds = {"bytes", "file"}
  Synced = FALSE
  Privileged = TRUE
  FsClones = TRUE
  EditSources = TRUE
  Faults = FALSE
  MaxKills = 2
  MaxPowerCuts = 0
PROPERTIES
  ObjectsImmutable
  EventuallyStored
