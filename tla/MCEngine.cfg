SPECIFICATION Spec
CONSTANTS
  LongGame <- MCLong
  ShortGame <- MCShort
  Null = Null
INVARIANTS
  StateOK
  ValidatesWhatItGenerates NeverStuck
  MutatorsNeverThrow ResultFitsBoard AIPlays
PROPERTIES TurnsObeyRules CubeChangesHands
CHECK_DEADLOCK FALSE
