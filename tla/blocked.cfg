SPECIFICATION Spec
CONSTANTS
  HdrSize = 2
  NCpu = 2
  BpfHdrSize = 2
  Align = 2
  Word = 64
  Frames <- MCShortFrames
  FilterResults = {1, 2}
  Dims = {24}
  MinToCopies = {8}
  TimeOuts = {"finite"}
  ReadLengths = {4}
  TransferResults = {"success"}
  Uniprocessor = FALSE
  MaxArrivals = 4
  MaxIoctls = 0
INVARIANT BlockedOnlyBelowMinToCopy
