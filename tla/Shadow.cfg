SPECIFICATION ShadowSpec
CONSTANTS
  Declared = {"a"}
  Background = {"b"}
  Staged = {"b"}
  Overlap = FALSE
  MaxEdits = 1
  MaxWrites = 2
  MaxRecords = 3
  MaxCrashes = 1
CHECK_DEADLOCK FALSE
 
PROPERTY Spared
