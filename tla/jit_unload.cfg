SPECIFICATION Spec
CONSTANTS
  t1 = t1
  t2 = t2
  Unmapped = Unmapped
  Null = Null
  Threads = {t1, t2}
  FunctionIds <- WideIds
  IntRange = 4
  MaxUses = 1
  MaxDepth = 2
  MaxLog = 5
  Traced <- AllMethods
  NoInfo <- SecondUse
  NoMetadata <- NoMethods
INVARIANTS CompilationsAnnounced WellNested
PROPERTY CacheStable
SYMMETRY Symmetry
CHECK_DEADLOCK FALSE
