SPECIFICATION FairSpec
CONSTANTS
  Null = Null
  r1 = r1
  r2 = r2
  s1 = s1
  Sweeps <- MCSweeps
  Requests <- MCOneRequest
  AISeats <- MCNone
  PER_MOVE = 2
  RESERVE = 1
  LOCK_TTL = 2
  Horizon = 2
  MaxEvents = 3
  MaxFaults = 1
  Faults <- MCFinal

PROPERTY InactivityEndsGame
CHECK_DEADLOCK FALSE
