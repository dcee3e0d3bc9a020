SPECIFICATION RSpec
CONSTANTS
  Cols = 5
  Rows = 2
  Cap = 1
  Chars = {"a", "b", "o", ">", " ", "nl", "bs"}
  Letters = {"a", "b"}
  Output = {"o", "nl"}
  Prompt <- MCPrompt
  max_len = 4
  MaxShown = 3
CHECK_DEADLOCK FALSE
INVARIANTS EchoInSync EditedLineOnScreen
PROPERTY ImplementsEditor
