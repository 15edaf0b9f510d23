SPECIFICATION Spec
CONSTANTS
  Size = 3
  MaxPaths = 6
  MaxOuts = 5
  WordBits = 5
  Programs <- Enumerable
INVARIANT ReturnsExit
CHECK_DEADLOCK FALSE
