SPECIFICATION Spec
CONSTANTS
  Agents <- MCAgents
  Controlling = "A"
  NComponents = 2
  Gathered <- MCGathered
  Signalled <- MCSignalled
  Component <- MCComponent
  Type <- MCType
  Machine <- MCMachine
  SocketAt <- MCSocketAt
  Seen <- MCSeen
  Networks <- MCNetworks
  Transmissions = 2
  MaxLost = 1
INVARIANTS SelectedWorks ConnectsInTheEnd EndedForAReason
CHECK_DEADLOCK FALSE
