SPECIFICATION Spec
CONSTANTS
  Null = Null
  r1 = r1
  r2 = r2
  s1 = s1
  Sweeps <- MCSweeps
  Requests <- MCRequests
  AISeats <- MCNone
  PER_MOVE = 1
  RESERVE = 1
  LOCK_TTL = 1
  Horizon = 2
  MaxEvents = 3
  MaxFaults = 0
  Faults <- MCExpiry
SYMMETRY RequestSymmetry
PROPERTY NoLostUpdate
CHECK_DEADLOCK FALSE
