CONSTANTS
  Calls = {1, 2, 3, 4, 5, 6}
  Attr <- OfBoth
  Hooked = {}
  Unattended = FALSE
  Disposable = FALSE
  MaxContinuations = 1
  RewriteLimit = 1
  StepLimit = 20
  Signals = {}
  Controls = {}
  HookTags = {}
  HumanTags = {}
  Responders = {"human", "code", "auto", "env"}
  Failures = TRUE
  Budgeted = FALSE
  MaxInputs = 4
  MaxRestarts = 0
SPECIFICATION TurnsSpec
INVARIANTS WellPaired  Approved
PROPERTY CheckpointFirst
CHECK_DEADLOCK FALSE
