SPECIFICATION Spec
CONSTANTS
  g = g
  s1 = s1
  s2 = s2
  a = a
  b = b
  Key <- MCSourceKey
  Announced <- MCSourceAnnounced
  Local <- MCAllLocal
  Missing = Missing
  Truncated = Truncated
  ICD_SI_TEXP = 0
  MaxEntries = 2
  MaxTime = 1
  MaxFaults = 0
CHECK_DEADLOCK FALSE
INVARIANT PassCompletes
