SPECIFICATION RepairSpec
CONSTANTS
  MaxWrites = 2
  MaxOpens = 2
  MaxMerges = 0
  MaxFaults = 1
  Setups <- TornAppend
  Nil = Nil
CHECK_DEADLOCK FALSE
INVARIANTS SyncedWritesSurvive
