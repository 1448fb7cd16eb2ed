\* Hosts come and go, and launch at the same time.
SPECIFICATION FairSpec
CONSTANTS
  s1 = s1
  s2 = s2
  s3 = s3
  Servers = {s1, s2}
  MaxPipeCount = 2
  Serial = FALSE
  Closing = TRUE
INVARIANTS LaunchedServed
PROPERTIES ConnectResolves
CHECK_DEADLOCK FALSE
