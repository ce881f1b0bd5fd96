SPECIFICATION Spec
CONSTANTS
  Key = {k1}
  NoKey = NoKey
  Multicast = TRUE
  Acked = {}
  IMD_AS_TEXP = 1
  MaxEntries = 1
  MaxTime = 1
  MaxGarbage = 1
PROPERTY UnackedGetCap
