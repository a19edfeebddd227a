SPECIFICATION SuiteSpec
CONSTANTS
  Nil = Nil
  Keys = {1, 2, 3}
  MaxHeight = 2
  Readers <- OneReader
  t1 = t1
  t2 = t2
  t3 = t3
CHECK_DEADLOCK FALSE
INVARIANTS
  AllTypesOK
  LogIsReadBack TablesAreRight CacheIsConsistent ListIsConsistent IteratorsAreRight
  EnvironmentIsRight MessagesAreKept
PROPERTIES
  CacheMakesRoom PartsFinish
