SPECIFICATION FairSpec
CONSTANTS
  g = g
  s1 = s1
  s2 = s2
  a = a
  b = b
  Key <- MCKey
  Announced <- MCAnnounced
  Local <- MCLocal
  Missing = Missing
  Truncated = Truncated
  ICD_SI_TEXP = 0
  MaxEntries = 2
  MaxTime = 1
  MaxFaults = 1
CHECK_DEADLOCK FALSE
INVARIANTS
  TypeOK
  OneEntryPerSender
  CountedAreListed
  JoinedMatchTable
  FailureExplained
PROPERTIES
  ListedIsJoined
  UnlistedIsLeft
