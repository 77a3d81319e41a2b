SPECIFICATION FairSpec
CONSTANTS
  Pid = {1, 2}
  Inputs = {"START"}
  Faults = {"race"}
  KillTimeouts = {1}
  UserRatelimit = 0
  Randomize = FALSE
  RunawayRatelimit = 0
  RestartWindow = 0
  MaxRestarts = 1
  TermTries = 1
  KillTries = 3
  CounterMod = 6
  MaxElapsed = 3
PROPERTIES
  RestartsChild
