SPECIFICATION Spec
CONSTANTS
  Task = {t1, t2}
  Binding = {b1, b2}
  None = none
  MaxFaults = 1
SYMMETRY Symmetric
CONSTRAINT FirstRace
INVARIANTS SavedIsBound SavedHasKey SavedIsKept
CHECK_DEADLOCK FALSE
