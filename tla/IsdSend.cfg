SPECIFICATION FairSpec
CONSTANTS
  Ind = {i1, i2}
  Faulty = {i2}
  UINT32_MAX = 2
  MaxPackets = 3
  MaxVersion = 3
CHECK_DEADLOCK FALSE
INVARIANTS
  TypeOK
  OneBasePerPacket
  AllPathsUsed
PROPERTIES
  HandlerStarts
  CacheConverges
  RepSpec
