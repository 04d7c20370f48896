SPECIFICATION FairSpec
CONSTANTS
  HdrSize = 2
  NCpu = 2
  BpfHdrSize = 2
  Align = 2
  Word = 64
  Frames <- MCShortFrames
  FilterResults = {1, 2}
  Dims = {14}
  MinToCopies = {0, 8}
  TimeOuts = {"finite", "immediate"}
  ReadLengths = {4}
  TransferResults = {"success"}
  Uniprocessor = FALSE
  MaxArrivals = 2
  MaxIoctls = 0
PROPERTIES
  DeliversAll
  ReadReturns
