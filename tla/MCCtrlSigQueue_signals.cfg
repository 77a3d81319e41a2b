SPECIFICATION SigFairSpec
CONSTANTS
  MaxNodes = 5
  Buddies = {"b1", "b2"}
INVARIANT
  QueueFaithful
PROPERTIES
  TermExits
  Reaped
