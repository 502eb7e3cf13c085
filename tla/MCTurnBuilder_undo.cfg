SPECIFICATION ClientSpec
CONSTANTS
  POINT_COUNT = 6
  CHECKERS_PER_PLAYER = 2
  HOME = 2
  MAX_DIE = 2
  Variant = "LONG_NARDA"
  HeadDoubles <- MCHeadDoubles
  InitialPoints <- MCNoPoints
  UseDoublingCube = FALSE
  MaxCube = 1
  JacobyRule = FALSE
  Null = Null
  Me = "White"
  UndoWhileBusy = TRUE
INVARIANTS BusyOnlyWhileHopping
CHECK_DEADLOCK FALSE
