CONSTANTS
  Fore = {"fore"}
  Back = {"back"}
  Cmds = {"cmd"}
  Askers = {"fore"}
  Slow = {"cmd"}
  MaxInputs = 2
SPECIFICATION Spec
INVARIANTS NoOrphans
CHECK_DEADLOCK FALSE
