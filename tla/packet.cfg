SPECIFICATION FairSpec
CONSTANTS
  t1 = t1
  t2 = t2
  p1 = p1
  p2 = p2
  c1 = c1
  c2 = c2
  Threads = {t1, t2}
  NoOne = NoOne
  FakeWan = "fakewan"
  MaxFaults = 1
  HdrSize = 2
  WanFrames = 3
  FrameLengths = {1, 3}
  RingSizes = {9}
  ReadSizes = {4, 9}
  MinToCopies = {5}
  WanCalls = 4
  Align = 2
  ProgramLength = 4
  Immediates = {0, 1, 2, 254}
  Jumps = {0, 1}
  MemWords = 1
  Half = 2
  StatPackets = 5
  StatCalls = 4
  Openers = {"a", "b"}
  ClockCpus = {1, 2}
  PowerChanges = 2
  Programs = {p1, p2}
  VxFrames = {1, 3}
  VxRings = {8, 12}
  VxHdr = 2
  VxAlign = 2
  TRANSMIT_PACKETS = 3
  MAX_REQUESTS = 1
  TcThreads = {c1, c2}
  TcPorts = {"tc0"}
  TcUshort = 16
INVARIANTS    WanReaderWoken StatisticsCount  VxdFIFO  TcReads
PROPERTIES WanFIFO CallsReturn
CHECK_DEADLOCK FALSE
