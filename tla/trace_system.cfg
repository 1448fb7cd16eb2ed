SPECIFICATION Spec
CONSTANTS
  t1 = t1
  t2 = t2
  Unmapped = Unmapped
  Null = Null
  Threads = {t1, t2}
  FunctionIds <- ThreeIds
  IntRange = 8
  MaxDepth = 1
  MaxLog = 4
  Traced <- AllMethods
  NoInfo <- NoMethods
  NoMetadata <- LastMethod
  Metadata <- Functions
  MaxSent = 5
  PipeQuota = 0
  FaultyHandlers <- GuiFaults
  SuspendedLaunch = TRUE
INVARIANTS TypeOK SidesAgree TreeNamesMethods PairsByName
PROPERTIES TreeIsStream
SYMMETRY Symmetry
CHECK_DEADLOCK FALSE
