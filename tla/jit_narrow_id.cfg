SPECIFICATION Spec
CONSTANTS
  t1 = t1
  t2 = t2
  Unmapped = Unmapped
  Null = Null
  Threads = {t1}
  FunctionIds <- WideIds
  IntRange = 4
  MaxUses = 0
  MaxDepth = 1
  MaxLog = 4
  Traced <- AllMethods
  NoInfo <- NoMethods
  NoMetadata <- NoMethods
INVARIANTS NamesItsMethod
CHECK_DEADLOCK FALSE
