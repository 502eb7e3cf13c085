SPECIFICATION Spec
CONSTANTS
  Null = Null
  Sweeper = Sweeper
  r1 = r1
  r2 = r2
  Users <- MCUsers
  Modes <- MCModes
  Elo <- MCElo
  BASE = 0
  STEP = 1
  MAX_WINDOW = 1
  MaxAge = 1
  Requests <- MCTwo
  MaxSearches <- MCOnce
  MaxFailures = 0
INVARIANTS QueuedOnlyWhileSearching
CHECK_DEADLOCK FALSE
