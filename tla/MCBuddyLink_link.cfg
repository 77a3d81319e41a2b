SPECIFICATION LinkFairSpec
CONSTANTS
  RingSize = 2
  MaxRecords = 4
  MaxSessions = 3
INVARIANTS
  Delivered
  AckMatches
  CommandsHandled
PROPERTIES
  AnswerComplete
  SessionEnds
CHECK_DEADLOCK FALSE
