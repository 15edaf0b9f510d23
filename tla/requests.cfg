SPECIFICATION MCSpec
SYMMETRY Symmetry
CONSTANTS
  r1 = r1
  r2 = r2
  Threads = {t1, t2}
  Regexes = {r1, r2}
  Unset = Unset
  Invalid = Invalid
  NULL = NULL
  ExcludeChoices <- ExcludeUniform
  LateCode = FALSE
  MaxRefs = 2
INVARIANTS
  TypeOK
  TablesReady
  HitsOwn
  RecordsAsked
  ModeAgreesWithSurface
  RealXdebugOwns
  HookChain
  ExcludeOwn
CHECK_DEADLOCK FALSE
