SPECIFICATION FairSpec
CONSTANTS
  i1 = i1
  i2 = i2
  i3 = i3
  NoKey = NoKey
  Key = {k1}
  Ind <- MCInd
  HostInd <- MCHostInd
  CapInds <- MCCapInds
  IPRP_PB_TEXP = 1
  NbQueues = 4
  OtherQueues = {2}
  SCHAR_MAX = 3
  MaxBases = 1
  MaxTime = 2
CHECK_DEADLOCK FALSE
PROPERTY LockReleased
