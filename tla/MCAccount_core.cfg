SPECIFICATION FairSpec
CONSTANTS
  n1 = n1
  n2 = n2
  Conns = {n1, n2}
  Nobody = Nobody
  Stub = Stub
  r1 = r1
  r2 = r2
  r3 = r3
  Rooms = {r1}
  RetryLimit = 4
  AutoReconnect = TRUE
  StreamErrors = TRUE
  ProfileErrors = TRUE
INVARIANTS
  OneConnection
  SignedOutStaysOut
  DeckHonest
  InitOfThisConnection
  GivenUpForGood
PROPERTIES
  EventuallySettled
  EventuallyInitialized
