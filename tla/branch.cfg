SPECIFICATION Spec
CONSTANTS
  a = a
  b = b
  x = x
  s = s
  p = p
  q = q
  Files = {a, b}
  TwoLines = {a}
  OpLines <- MCOpLines
  Executable <- MCExecutable
  Prefixes = {p, q}
  HasPrefix <- MCHasPrefix
  Under <- MCUnder
  Short <- MCShort
  Excluded <- MCExcluded
  Mode = "branch"
INVARIANTS
  AdmissionCachesCoherent
PROPERTY Refines
