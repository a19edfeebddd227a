SPECIFICATION SuiteSpec
CONSTANTS
  t1 = t1
  t2 = t2
  t3 = t3
  Threads <- ThreeThreads
  Requests <- ThreeRequests
  MaxWrites = 1
  MaxFailures = 1
  SmallBatch = 1
  MaxBatch = 4
  WriteBuffer = 0
  L0Trigger = 1
  L0Slowdown = 1
  L0Stop = 2
  Nil = Nil
  NumLevels = 4
  StoreL0Trigger = 2
  StoreL0Stop = 3
  MaxMemCompactLevel = 1
  LevelOneBytes = 2
  LevelFactor = 2
  MaxGrandParentOverlap = 2
  ExpandedLimit = 6
  MaxOutputFileSize = 1
  MaxSequenceNumber = 99
  Keys = {1, 2}
  Kinds = {"Value", "Deletion"}
  StoreMaxWrites = 3
  MaxSnapshots = 1
  MaxManual = 1
  MaxSeeks = 1
  ManualRanges <- AllKeys
CHECK_DEADLOCK FALSE
INVARIANTS
  AllTypesOK ReadsSeeSnapshot LevelsAreInOrder
  QueueAnswersAreTrue QueueIsAttended
PROPERTIES
  LevelsSettle QueueNothingAfterFailedSync QueueWritesReturn
