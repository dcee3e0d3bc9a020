SPECIFICATION Spec
CONSTANTS
  Fan = 3
  Low = 9
  FreeSets <- MCFreeSets
  Callers = {0, 9, 10, 27}
  Phys = {2, 40}
  Flags <- MCFlags
INVARIANTS Tree TLBCoherent WalkerReaches
PROPERTY ImplementsAddressSpace
