SPECIFICATION Spec
CONSTANTS
  None = None
  top = top  sub = sub  deep = deep  b1 = b1  b2 = b2
  Jobs = {j1, j2}
  Trees = {top, sub, deep}
  Blobs = {b1, b2}
  Entries <- Workspace
  Roots = {top, deep}
  Dests = {w1, w2}
  Foreign = {w2}
  StoreClones = TRUE
  MaxDepth = 1
  MaxMishaps = 1
SYMMETRY JobSymmetry
INVARIANTS
  StoreUntouched
  CompletedIsExact
PROPERTIES
  CompletedUndisturbed
