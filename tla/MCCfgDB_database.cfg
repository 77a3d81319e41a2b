SPECIFICATION Spec
CONSTANTS
  Controllers = {c1,c2}
  MaxInodes = 2
  Passwd <- MCPasswd
  OneShort <- MCOneShort
  Configs <- MCConfigs
  Readings <- AllReadings
  MaxStarts = 2
  MaxFaults = 1
SYMMETRY Symmetry
INVARIANTS
  OneController
  LayersAgree
  OwnIdentity
  Recorded
CHECK_DEADLOCK FALSE
