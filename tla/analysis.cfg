SPECIFICATION Spec
CONSTANTS
  Size = 5
  MaxPaths = 6
  MaxOuts = 5
  WordBits = 5
  Programs <- LastLive
INVARIANTS
  TypeOK
  StartsExact
  SetInBounds
  OutsExact
  PathsAreWalks
  PathsComplete
  PathsDistinct
  PathsCapped
PROPERTY Terminates
CHECK_DEADLOCK FALSE
