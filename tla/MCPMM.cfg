SPECIFICATION ScanSpec
CONSTANTS
  FrameSize = 4
  LowMem = 8
  Cap = 40
  MaxFrames = 10
  MaxRegions = 2
  Word = 1024
  BootInfos <- MCBootInfos
  ReserveRanges <- MCReserveRanges
  Counts = {0, 1, 2, 3}
  MaxPhys = {6, 22, 27, 100}
INVARIANTS Accounting Ownership NoSpuriousFailure Placement
PROPERTY ImplementsPMM
