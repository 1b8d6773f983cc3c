CONSTANTS
  Fore = {"fore"}
  Back = {"back"}
  Cmds = {"cmd"}
  Askers = {"fore"}
  Slow = {"cmd"}
  MaxInputs = 2
SPECIFICATION LiveSpec
INVARIANTS TaskOnce RewindQuiet
PROPERTIES AsksShown KillsEnd
CHECK_DEADLOCK FALSE
