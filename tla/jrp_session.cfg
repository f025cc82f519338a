SPECIFICATION FairSpec
CONSTANTS
  CMin = 1  CMax = 1  SMin = 1  SMax = 2
  CCaps = {"cas", "log"}  SCaps = {"log", "bulk"}
  Hellos <- AnyRange
  Conforming = FALSE
  Requests = {"Ping", "Auth", "SubmitRun", "GetRun", "CasPut", "Goodbye"}
  Bodies = {"good", "unknown", "invalid", "garbled", "broken"}
  TokenLookup = TRUE
  Window = 3
  Buffered = 1
  StreamBits = 3
  MaxSent = 4
  Cuts = TRUE
INVARIANTS
  Agreement
  RepliesInStep
  StreamsDistinct
  GatedUntilAuthenticated
PROPERTIES
  CallsReturn
