SPECIFICATION Spec
CONSTANTS
  Syncs = {s1}
  Publishes = {p1}
  NoCall = NoCall
  MaxPolls = 2
  MaxAttempts = 1
  MaxTokens = 3
  MaxDisconnects = 1
  MaxFaults = 1
CHECK_DEADLOCK FALSE
PROPERTY DisconnectedStays
