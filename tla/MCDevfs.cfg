SPECIFICATION FairSpec
CONSTANTS
  Sec = 3
  MaxChunk = 2
  Sectors = 4
  Devs <- MCDevs
  Word = 64
  Offs = {0, 1, 4, 6, 11, 63}
  Lens = {0, 1, 3, 4, 8, 11}
  MaxCalls = 2
CHECK_DEADLOCK FALSE
INVARIANTS PrefixWritten ReadsWhatIsThere AllOrError
PROPERTIES PartitionIsolated CallReturns
