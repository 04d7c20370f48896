SPECIFICATION FairSpec
CONSTANTS
  Closers = {"cleanup", "unbind"}
  Irps = {i1, i2}
  MAX_REQUESTS = 1
  TimeOuts = {"immediate", "finite"}
  MaxCalls = 2
  i1 = i1
  i2 = i2
INVARIANTS AdapterClosedOnce OidHoldsAdapter ReleasedIsUnused RequestHasOneUser
PROPERTIES CleanupReturns UnbindReturns
CHECK_DEADLOCK FALSE
