SPECIFICATION Spec
CONSTANTS
  t1 = t1
  t2 = t2
  Unmapped = Unmapped
  Null = Null
  Threads = {t1, t2}
  FunctionIds <- SmallIds
  IntRange = 8
  MaxUses = 0
  MaxDepth = 2
  MaxLog = 5
  Traced <- FirstTwo
  NoInfo <- NoMethods
  NoMetadata <- NoMethods
SYMMETRY Symmetry
INVARIANTS TypeOK NamesItsMethod OnlyTraced CompilationsAnnounced WellNested PairsMatch
CHECK_DEADLOCK FALSE
