SPECIFICATION Spec
CONSTANTS
  r1 = r1
  r2 = r2
  r3 = r3
  r4 = r4
  Relays = {r1, r2, r3}
  MaxRelays = 3
  Interval = 3
  MaxThreads = 1
PROPERTY
  RelayLastsAsAdvertised
