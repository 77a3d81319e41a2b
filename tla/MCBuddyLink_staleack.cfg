SPECIFICATION LinkSpec
CONSTANTS
  RingSize = 2
  MaxRecords = 3
  MaxSessions = 2
INVARIANT
  Accounted
CHECK_DEADLOCK FALSE
