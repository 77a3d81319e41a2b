SPECIFICATION FairSpec
CONSTANTS
  Pid = {1, 2}
  Inputs = {"START", "STOP", "SHUTDOWN", "TERM"}
  Faults = {"noscript", "nofork"}
  KillTimeouts <- DefaultTimeout
  UserRatelimit = 1
  Randomize = TRUE
  RunawayRatelimit = 3
  RestartWindow = 3
  MaxRestarts = 1
  TermTries = 1
  KillTries = 3
  CounterMod = 4
  MaxElapsed = 3
PROPERTIES
  RestartsChild
  TermHonoured
  ShutdownCompletes
