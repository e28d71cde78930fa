SPECIFICATION Spec
CONSTANTS
  Socket = {s1, s2}
  NoSocket = none
  MaxRetries = 1
  MaxConnections = 2
  MaxOthers = 1
INVARIANTS
  NoProtocolError
  OneAttempt
  RejectedOnlyIfRevoked
PROPERTIES
  FailedRests
  AttemptEnds
  RevokedIsDetached
