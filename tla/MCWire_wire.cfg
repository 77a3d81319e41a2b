SPECIFICATION WireSpec
CONSTANTS
  Messages <- MCMessages
  Followers <- MCFollowers
  MaxSent = 3
  MaxShort = 1
  MaxString = 4
  MaxPacket = 64
INVARIANTS Intact NeverAltered
PROPERTY Settles
CHECK_DEADLOCK FALSE
