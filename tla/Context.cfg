CONSTANTS
  Calls = {1,2}
  Files = 1
  Models <- TwoModels
  Sources = {"web"}
  Hooked = TRUE
  MidSequence = TRUE
  Window = 4
  Pressure = 3
  KeepRecent = 2
  FileBudget = 1
  Skew = 1
  ResultTokens = 2
  Inputs = {"submit", "compact", "interrupt", "switch", "reconfigure", "silent", "rewind", "erase"}
  MaxSeq = 6
  MaxInputs = 3
SPECIFICATION Spec
INVARIANTS RequestWhole Shorter 
PROPERTY RewindExact
CHECK_DEADLOCK FALSE
