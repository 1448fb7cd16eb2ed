\* The GUI's error handler throws inside the read loop.
SPECIFICATION Spec
CONSTANTS
  MaxSent = 3
  PipeQuota = 0
  PartialWrites = FALSE
  FaultyHandlers <- GuiFaults
  SuspendedLaunch = TRUE
INVARIANTS
  LoopFailsOnlyWithPipe
CHECK_DEADLOCK FALSE
