SPECIFICATION FairSpec
CONSTANTS
  Run = {r1, r2}
  ReusedPid = {r1}
  NoTunnel = none
INVARIANTS
  ConnectedTunnelIsSafe
  OnlyLateTunnelsUnrecorded
  RecoveredBeforeCreate
  CleanShutdownCleansUp
PROPERTIES
  ShutdownEnds
CHECK_DEADLOCK FALSE
