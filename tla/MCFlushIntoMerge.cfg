SPECIFICATION Spec
CONSTANTS
  NumLevels = 4
  L0Trigger = 3
  L0Stop = 4
  MaxMemCompactLevel = 2
  LevelOneBytes = 4
  LevelFactor = 2
  MaxGrandParentOverlap = 9
  ExpandedLimit = 9
  MaxOutputFileSize = 9
  MaxSequenceNumber = 99
  Keys = {1,2,3}
  Kinds = {"Value"}
  MaxWrites = 5
  MaxSnapshots = 0
  MaxManual = 1
  MaxSeeks = 0
  ManualRanges <- AllKeys
  Nil = Nil
CHECK_DEADLOCK FALSE
INVARIANTS LevelsDoNotOverlap
