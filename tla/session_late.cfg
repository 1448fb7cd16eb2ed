\* LaunchTracer: the process runs before anyone can subscribe;
\* the pipe takes one message ahead of its reader.
SPECIFICATION Spec
CONSTANTS
  MaxSent = 4
  PipeQuota = 1
  PartialWrites = TRUE
  FaultyHandlers <- NoFaults
  SuspendedLaunch = FALSE
INVARIANTS
  ContiguousDelivery
CHECK_DEADLOCK FALSE
