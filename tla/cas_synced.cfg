SPECIFICATION Spec
CONSTANTS
  d1 = d1  d2 = d2  w1 = w1  w2 = w2
  None = None  Hole = Hole
  Digests = {d1, d2}
  Inodes = {i1, i2, i3}
  Writers = {w1, w2}
  Readers = {r1}
  NChunks = 2
  Owns <- OwnsDisjoint
  Kinds = {"bytes"}
  Synced = TRUE
  Privileged = FALSE
  FsClones = FALSE
  EditSources = FALSE
  Faults = FALSE
  MaxKills = 0
  MaxPowerCuts = 2
SYMMETRY InodeSymmetry
INVARIANTS
  CompletedInsertSurvives
PROPERTIES
  ImplementsAtomicStore
