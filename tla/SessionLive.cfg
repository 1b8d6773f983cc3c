CONSTANTS
  Calls = {1, 2}
  Attr <- ReadBuy
  Hooked = {"UserSubmit", "PreSample", "Stop"}
  Unattended = TRUE
  Disposable = TRUE
  MaxContinuations = 1
  RewriteLimit = 1
  StepLimit = 20
  Signals = {"submit", "queue", "steer", "wake", "notify"}
  Controls = {"soft", "hard", "resume", "rewind"}
  HookTags = {"allow", "deny", "continue"}
  HumanTags = {"allow"}
  Responders = {"human", "env"}
  Failures = TRUE
  Budgeted = TRUE
  MaxInputs = 3
  MaxRestarts = 1
SPECIFICATION LiveSpec
INVARIANTS QueueServed NotRepeated
PROPERTY TurnsEnd
CHECK_DEADLOCK FALSE
