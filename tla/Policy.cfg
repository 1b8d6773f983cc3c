SPECIFICATION Spec
CONSTANTS
  Words = {"ls", "sort", "-o", "/up", "$x", "out", "host"}
  Expanded = {"$x"}
  Reserved = {}
  Outside = {"/up"}
  Hosts = {"host"}
  SelfConfig <- ConfigFile
  Tools = {"read", "write", "bash", "agent"}
  Settings <- Written
  Given <- Beginnings
  Calls <- SomeCalls
  Facts <- SomeFacts
  MaxTokens = 5
  MaxEdits = 2
  MaxUsed = 1
CHECK_DEADLOCK FALSE
INVARIANTS LinesRead  ProjectTightens ChildWithin
