CONSTANTS
  Clients = {c1,c2}
  Own = {"own"}
  Forwarded = {"sub"}
  Observers = {"o1"}
  CursorOf <- OwnCursors
  Commands = {"k"}
  Capacity = 1
  Recent = 1
  Remembered = 2
  MaxInputs = 5
  MaxHeard = 2
SPECIFICATION Spec
INVARIANTS Gapless  OneOutcome AtLeastOnce
CHECK_DEADLOCK FALSE
SYMMETRY Symmetry
