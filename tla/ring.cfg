SPECIFICATION Spec
CONSTANTS
  HdrSize = 2
  NCpu = 1
  BpfHdrSize = 2
  Align = 2
  Word = 64
  Frames <- MCLongFrames
  FilterResults = {2, 9}
  Dims = {7, 9, 10}
  MinToCopies = {0, 4}
  TimeOuts = {"infinite", "finite"}
  ReadLengths = {8}
  TransferResults = {"success"}
  Uniprocessor = TRUE
  MaxArrivals = 4
  MaxIoctls = 0
INVARIANTS
  TypeOK
  RingAccounting
  
  BlockedOnlyBelowMinToCopy
CHECK_DEADLOCK FALSE
