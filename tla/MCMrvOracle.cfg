SPECIFICATION Spec
CONSTANTS
  AdminKeys = {ad}
  OracleKeys = {o1, o2}
  Project = {p1}
  Reading <- MCReading
  MaxI128 = 127
  MaxHistory = 2
  MaxTime = 1
  MaxReadings = 2
  None = None
INVARIANTS
  HistoryIsRecentWindow
  FlagsCompareNeighbours
  OneNoncePerReading
  MeanWithinPeriod
