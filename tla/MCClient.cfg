SPECIFICATION SidesSpec
CONSTANTS
  POINT_COUNT = 6
  CHECKERS_PER_PLAYER = 2
  HOME = 3
  MAX_DIE = 3
  Variant = "LONG_NARDA"
  HeadDoubles <- MCHeadDoubles
  InitialPoints <- MCNoPoints
  UseDoublingCube = FALSE
  MaxCube = 1
  JacobyRule = FALSE
  Null = Null
  None = None
  Me = "White"
  UndoWhileBusy = FALSE
  Boards <- MCBoards
  Position <- MCPosition
  Dice <- MCDice
  Scales <- MCScales
  MaxRenders = 3
  MaxToggles = 1
  Clients <- MCClients
  Owner <- MCOwner
  Seated <- MCSeated
  Final = 3
  NoView = NoView
  MaxDrops = 1
INVARIANTS
  BuilderOK SomethingOffered MissesOnlyBearOffs BusyOnlyWhileHopping
  BoardOK TapHits
  ShowsNewest RosterOK
PROPERTIES
  ComesToRest BackOnlyByJoin
CHECK_DEADLOCK FALSE
