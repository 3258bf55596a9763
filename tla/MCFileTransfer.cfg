SPECIFICATION FairSpec
CONSTANTS
  Addresses <- MCAddresses
  Size = 2
  MaxBreaks = 1
INVARIANTS
  OneStream
  CancelHolds
  FailedForAReason
PROPERTY
  FileArrives
CHECK_DEADLOCK FALSE
