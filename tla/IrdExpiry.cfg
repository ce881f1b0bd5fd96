SPECIFICATION FairSpec
CONSTANTS
  Snsid = {s1, s2}
  IPRP_DD_MAX_LOST_PACKETS = 2
  IRD_T_EXP = 2
  INT_MAX = 7
  MaxPid = 2
  MaxDelay = 1
  Lag = 1
  StartTime = 3
  MaxTime = 6
  SampledAtStart = TRUE
  ICD_T_PORTS = 2
  MaxReboots = 0
  MaxKills = 1
INVARIANTS
  TypeOK
  AtMostOnce
  CopiesKnown
PROPERTY
  AgedRemoved
