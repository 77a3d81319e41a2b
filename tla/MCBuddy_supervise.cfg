SPECIFICATION Spec
CONSTANTS
  Pid = {1, 2}
  Inputs = {"SHUTDOWN", "STATUS", "START", "STOP", "RELOAD", "RUNONCE", "CUSTOM", "SIGNAL", "TERM"}
  Faults = {"noscript", "nofork", "race"}
  KillTimeouts <- BothTimeouts
  UserRatelimit = 0
  Randomize = FALSE
  RunawayRatelimit = 1
  RestartWindow = 1
  MaxRestarts = 1
  TermTries = 1
  KillTries = 3
  CounterMod = 5
  MaxElapsed = 1
INVARIANTS
  TypeOK
  PidTruth
  StartProtected
  WaitsUnmasked
  GraceBeforeKill
PROPERTIES
  StopHolds
