SPECIFICATION Spec
CONSTANTS
  Closers = {"cleanup", "unbind"}
  Irps = {i1}
  MAX_REQUESTS = 2
  TimeOuts = {"finite"}
  MaxCalls = 2
  i1 = i1
INVARIANTS NoRequestLost
CHECK_DEADLOCK FALSE
