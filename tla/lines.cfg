SPECIFICATION Spec
CONSTANT Programs <- OpArrays
INVARIANTS
  TypeOK
  LinesExact
  DeadTriesDead
PROPERTY Ends
CHECK_DEADLOCK FALSE
