SPECIFICATION FairSpec
CONSTANTS
  c1 = c1
  c2 = c2
  c3 = c3
  relay = relay
  Candidates = {c1, c2}
  JNRelays = {relay}
INVARIANTS
  NeverRefused
  CredentialsFirst
  NothingLeftBehind
PROPERTY
  FreeDataReturns
CHECK_DEADLOCK FALSE
