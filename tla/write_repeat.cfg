SPECIFICATION Spec
CONSTANTS
  Closers = {unbind}
  Writers = {w1}
  Dpcs = {d1}
  TRANSMIT_PACKETS = 2
  Repeats = {2}
  Bursts = {0}
  WaitsExpire = FALSE
  Word = 8
  MaxCalls = 2
INVARIANTS
  PacketsHeld
CHECK_DEADLOCK FALSE
