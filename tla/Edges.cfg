SPECIFICATION EdgesSpec
CONSTANTS
  Questions = {1, 2}
  Ruled = {1, 2}
  Fallbacks = {"none", "allow", "defer"}
  MaxKept = 2
  Sessions = {"s1", "s2"}
  Vendor <- Vendors
  Permits = 1
  MaxRetries = 2
  MaxSaid = 3
  MaxWire = 1
  Tools = {"t1", "t2"}
  Links = {"stdio", "http"}
  MaxMade = 4
  MaxPipe = 2
  MaxAsks = 1
INVARIANTS OutcomeFaithful AcceptedHeard AnswerMine
PROPERTIES GatesEnd ReplyFaithful RequestsEnd CallsEnd
CHECK_DEADLOCK FALSE
