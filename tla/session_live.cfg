\* Handlers return; the pipe has no quota, as HostCommServer creates it.
SPECIFICATION FairSpec
CONSTANTS
  MaxSent = 3
  PipeQuota = 0
  PartialWrites = FALSE
  FaultyHandlers <- NoFaults
  SuspendedLaunch = TRUE
PROPERTIES
  StreamSpec
  StartupResolves
  DepartureNoticed
  ErrorReported
CHECK_DEADLOCK FALSE
