SPECIFICATION FairSpec
CONSTANTS
  Closers = {unbind}
  Writers = {w1, w2}
  Dpcs = {d1, d2}
  TRANSMIT_PACKETS = 2
  Repeats = {1}
  Bursts = {3}
  WaitsExpire = FALSE
  Word = 8
  MaxCalls = 2
INVARIANTS
  PacketsHeld
  PendingIsExact
  NoUseOfClosedAdapter
PROPERTIES
  
  UnbindReturns
CHECK_DEADLOCK FALSE
