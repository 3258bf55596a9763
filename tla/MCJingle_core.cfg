SPECIFICATION Spec
CONSTANTS
  c1 = c1
  c2 = c2
  Calls = {c1, c2}
  None = None
  MaxTries = 1
  MaxEvents = 1
  SilentTrackers = TRUE
SYMMETRY CallSymmetry
INVARIANTS
  RegisteredIffLive
  MissedXorHandled
  NothingLeftBuffered
  SignallingOrder
PROPERTIES
  SilentAfterEnd
  LifecycleSpec
CHECK_DEADLOCK FALSE
