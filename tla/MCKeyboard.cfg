SPECIFICATION KSpec
CONSTANTS
  Keys = {"lshift", "lctrl", "rctrl", "alt", "caps", "a", "one", "enter", "home", "pause"}
  Serial = {"cr", "print", "other"}
  FifoMax = 6
  SerMax = 1
  MaxTyped = 3
CHECK_DEADLOCK FALSE
INVARIANTS NoStuckModifier
PROPERTY EventsAsPressed
