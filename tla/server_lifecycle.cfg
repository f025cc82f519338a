SPECIFICATION FairSpec
CONSTANTS
  HttpRequests = {r1, r2}
  JrpSessions = {s1, s2}
  MaxServed = 4
  SignalFaults = TRUE
  TaskFaults = TRUE
  BindFaults = TRUE
INVARIANTS
  FailureReported
PROPERTIES
  NoRequestDropped
  CtrlCStops
