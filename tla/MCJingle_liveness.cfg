SPECIFICATION FairSpec
CONSTANTS
  c1 = c1
  c2 = c2
  Calls = {c1}
  None = None
  MaxTries = 3
  MaxEvents = 3
  SilentTrackers = FALSE
PROPERTIES
  EventuallySignalled
CHECK_DEADLOCK FALSE
