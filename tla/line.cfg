SPECIFICATION Spec
CONSTANTS
  a = a
  b = b
  x = x
  s = s
  p = p
  q = q
  Files = {a, b, x, s}
  TwoLines = {a, b}
  OpLines <- MCOpLines
  Executable <- MCExecutable
  Prefixes = {p, q}
  HasPrefix <- MCHasPrefix
  Under <- MCUnder
  Short <- MCShort
  Excluded <- MCExcluded
  Mode = "line"
INVARIANTS
  TypeOK
  LogMirrorsTables
  DiscoveredPristine
  HitsReportable
PROPERTY Refines
