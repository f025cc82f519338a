SPECIFICATION Spec
CONSTANTS
  Base = 5
  NameMax = 2
  DigestLen = 1
  None = None
  TokenLookup = TRUE
  Bytes = 2
  MaxBytes = 6
  MaxShards = 16
  Repo <- MCRepo
  Sha = "c0ffee"
  ZeroSha = "000000"
INVARIANTS
  ManifestsSafe
  DigestsIdentify
  RunsHaveReasons
CHECK_DEADLOCK FALSE
