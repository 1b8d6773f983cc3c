CONSTANTS
  Calls = {"c1", "c2"}
  Order <- DirAndFile
  Folder <- FileInDir
  Above <- DirAbove
  Root = "/"
  MaxStaged = 1
  MaxEdits = 1
  MaxCrashes = 1
  Files = {"f", "g"}
  DirOf <- TwoFiles
  Base = "/"
  MaxWrites = 3
  MaxDirty = 2
  MaxMishaps = 1
SPECIFICATION FilesSpec
INVARIANT EditsKept
PROPERTY NothingMissed
CHECK_DEADLOCK FALSE
