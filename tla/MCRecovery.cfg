SPECIFICATION RepairSpec
CONSTANTS
  MaxWrites = 2
  MaxOpens = 3
  MaxMerges = 1
  MaxFaults = 1
  Setups <- Safe
  Nil = Nil
CHECK_DEADLOCK FALSE
INVARIANTS
  TypeOK SyncedWritesAreKept ShownIsRecovered NothingIsReused
PROPERTIES
  ImplementsStore RepairGivesBack
