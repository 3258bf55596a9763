SPECIFICATION FairSpec
CONSTANTS
  r1 = r1
  r2 = r2
  r3 = r3
  r4 = r4
  Relays = {r1, r2, r3}
  MaxRelays = 2
  Interval = 1
  MaxThreads = 2
PROPERTIES
  IdleRelayCloses
  AllocateReturns
  ShutdownEnds
INVARIANTS
  NoLostWakeup
  OneHandOnTheTable
  EveryRelayServed
