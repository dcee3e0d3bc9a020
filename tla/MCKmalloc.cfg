SPECIFICATION FairSpec
CONSTANTS
  HeapSize = 30
  HEADER_SIZE = 4
  Align = 2
  Sizes = {0, 1, 2, 5, 8}
INVARIANTS Tiling NoSpuriousFailure
PROPERTIES CallsReturn ImplementsHeap
