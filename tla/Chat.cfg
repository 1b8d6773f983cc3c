SPECIFICATION Live
CONSTANTS
  MaxTexts = 2
  MaxQuestions = 2
  Forwarded = {f}
  f = f
  MaxOutside = 1
  MaxEvents = 4
INVARIANT AskOnce
PROPERTY PromptReturns
CHECK_DEADLOCK FALSE
