SPECIFICATION Spec
CONSTANTS
  Snsid = {s1}
  IPRP_DD_MAX_LOST_PACKETS = 2
  IRD_T_EXP = 3
  INT_MAX = 7
  MaxPid = 7
  MaxDelay = 2
  Lag = 1
  StartTime = 4
  MaxTime = 4
  SampledAtStart = TRUE
  ICD_T_PORTS = 2
  MaxReboots = 1
  MaxKills = 0
INVARIANTS
  AtMostOnce
  DropJustified
  MissingAreListed
PROPERTY
  AppSpec
