SPECIFICATION FairSpec
CONSTANTS
  p1 = p1
  p2 = p2
  Port <- MCPort
  Files <- MCFiles
  IPRP_DATA_PORT = data
  Word = word
  IPRP_MAX_MONITORED_PORTS = 2
  ICD_T_PORTS = 2
  OPEN_MAX = 3
  MaxEdits = 1
  Generations = 1
CHECK_DEADLOCK FALSE
PROPERTY KeepsReading
