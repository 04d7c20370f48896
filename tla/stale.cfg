SPECIFICATION Spec
CONSTANTS
  HdrSize = 2
  NCpu = 2
  BpfHdrSize = 2
  Align = 2
  Word = 64
  Frames <- MCShortFrames
  FilterResults = {2}
  Dims = {14}
  MinToCopies = {0}
  TimeOuts = {"finite"}
  ReadLengths = {8}
  TransferResults = {"success"}
  Uniprocessor = FALSE
  MaxArrivals = 2
  MaxIoctls = 1
INVARIANT NoStalePacket
