SPECIFICATION Spec
CONSTANTS
  Cols = 2
  Rows = 3
  Cap = 4
  Chars = {"a", "nl", "cr", "bs"}
INVARIANTS RingIsHistory
PROPERTIES ViewShowsWindow ViewPinned
