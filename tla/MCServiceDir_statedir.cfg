SPECIFICATION DirSpec
CONSTANTS
  MaxBuddies = 2
  s1 = s1
  s2 = s2
  SvcLists <- MCSvcLists
INVARIANTS
  OneBuddy
  Reachable
  ScriptsMatch
CHECK_DEADLOCK FALSE
PROPERTY LeftoversGo
