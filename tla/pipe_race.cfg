\* Two hosts list the pipes before either makes its own.
SPECIFICATION Spec
CONSTANTS
  s1 = s1
  s2 = s2
  s3 = s3
  Servers = {s1, s2}
  MaxPipeCount = 2
  Serial = FALSE
  Closing = FALSE
INVARIANTS UniqueNames
CHECK_DEADLOCK FALSE
