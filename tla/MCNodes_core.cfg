SPECIFICATION FairSpec
CONSTANTS
  c1 = c1
  c2 = c2
  r1 = r1
  r2 = r2
  t1 = t1
  Callers = {c1, c2}
  Relays = {r1, r2}
  Trackers = {t1}
  None = None
  MaxTries = 2
  MaxAsks = 5
INVARIANTS
  HeardOnce
  LatestIsServed
PROPERTY
  RequestEnds
