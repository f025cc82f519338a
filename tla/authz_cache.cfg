SPECIFICATION FairSpec
CONSTANTS
  Checks = {c1, c2}
  Admins = {a1}
  Keys = {k1}
  Allows <- Revoked
  MaxChanges = 1
  Forgetful = TRUE
  NoEntry = NoEntry
INVARIANTS
  TypeOK
  NoStaleDecision
  CurrentEntriesFresh
  SuspendedLockedOut
PROPERTIES
  BackstopConverges
