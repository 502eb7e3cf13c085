SPECIFICATION FairSpec
CONSTANTS
  Null = Null
  Sweeper = Sweeper
  r1 = r1
  r2 = r2
  Users <- MCUsers
  Modes <- MCRanked
  Elo <- MCElo
  BASE = 0
  STEP = 1
  MAX_WINDOW = 1
  MaxAge = 1
  Requests <- MCTwo
  MaxSearches <- MCAgain
  MaxFailures = 1
INVARIANT TicketsOK
PROPERTIES EventuallyPaired
CHECK_DEADLOCK FALSE
