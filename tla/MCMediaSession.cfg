SPECIFICATION FairSpec
INVARIANTS
  PartsInPlace
  QuietAtTheEnd
  SoundStarts
PROPERTY
  CallEnds
CHECK_DEADLOCK FALSE
