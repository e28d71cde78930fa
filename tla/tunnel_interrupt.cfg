SPECIFICATION Spec
CONSTANTS
  Run = {r1, r2}
  ReusedPid = {}
  NoTunnel = none
SYMMETRY RunSymmetry
INVARIANTS
  FirstRequestCleansUp
CHECK_DEADLOCK FALSE
