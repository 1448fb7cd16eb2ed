\* Clicks of one GUI: the third finds both names taken.
SPECIFICATION Spec
CONSTANTS
  s1 = s1
  s2 = s2
  s3 = s3
  Servers = {s1, s2, s3}
  MaxPipeCount = 2
  Serial = TRUE
  Closing = FALSE
SYMMETRY Symmetry
INVARIANTS TypeOK UniqueNames OwnEngine LaunchedGetsIn
CHECK_DEADLOCK FALSE
