SPECIFICATION SessFairSpec
CONSTANTS
  MaxNodes = 3
  MaxClients = 3
  MaxRequests = 4
  Requests = {"action", "badaction", "ignored", "disconnect"}
INVARIANTS
  ReplyMatches
  LeaveTaken
  PendingCounts
PROPERTIES
  Answered
CHECK_DEADLOCK FALSE
