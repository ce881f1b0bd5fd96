SPECIFICATION FairSpec
CONSTANTS
  Key = {k1, k2}
  NoKey = NoKey
  Multicast = TRUE
  Acked = {k1}
  IMD_AS_TEXP = 0
  MaxEntries = 3
  MaxTime = 1
  MaxGarbage = 1
INVARIANTS
  TypeOK
  OneEntryPerLink
  CountedAreCopied
  VerdictFollowsSession
PROPERTY
  ActiveIsStored
