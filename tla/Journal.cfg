CONSTANTS
  d1 = d1
  d2 = d2
  Drivers = {d1, d2}
  SnapshotEvery = 3
  StoreErrors = TRUE
  MaxGen = 3
  MaxLog = 3
  MaxErrors = 1
SPECIFICATION LiveSpec
INVARIANTS NoFork HolderUpToDate
PROPERTIES KeepsLedger EffectsSettle
CHECK_DEADLOCK FALSE
