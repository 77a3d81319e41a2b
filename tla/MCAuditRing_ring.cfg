SPECIFICATION FairSpec
CONSTANTS
  RingSize = 3
  MaxRecords = 7
INVARIANTS
  TypeOK
  PendingExact
  Window
  OldestFirst
  OverwrittenAreOld
PROPERTIES
  QueueSpec
  FlushEnds
