SPECIFICATION Spec
CONSTANTS
  Process = {p1, p2}
  Binding = {b1, b2}
  NoBinding = none
  Faults = {"write"}
  Alone = TRUE
  MaxVersion = 3
SYMMETRY Symmetry
INVARIANTS
  RevocationHonored
  PairingKept
  FreshMapIsFile
