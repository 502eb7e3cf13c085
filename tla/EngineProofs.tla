---------------------------- MODULE EngineProofs ----------------------------
(***************************************************************************)
(* The theorems about the game engine, of the games of MCEngine: of any    *)
(* size, one of Long Narda and one of backgammon.                          *)
(***************************************************************************)
EXTENDS MCEngine, TLAPS

(***************************************************************************)
(* What the engine assumes of its constants, of the games                  *)
(***************************************************************************)

LEMMA LongBoard ==
  /\ {LongGame.points, LongGame.checkers, LongGame.home, LongGame.die} \subseteq Nat \ {0}
  /\ LongGame.points % 2 = 0
  /\ 2 * LongGame.home <= LongGame.points
  /\ LongGame.die <= LongGame.home
  /\ "LONG_NARDA" \in {"BACKGAMMON", "LONG_NARDA"}
BY EngineAssumption DEF Sized

LEMMA LongConfig ==
  /\ [x \in 1..LongGame.points |-> 0] \in [Long!Point -> -LongGame.checkers..LongGame.checkers]
  /\ Long!Long
  /\ {FALSE} \subseteq BOOLEAN
  /\ 1 \in Long!CubeValue
  /\ LongGame.headDoubles \subseteq Long!Die
  /\ Null \notin Long!Player \cup Long!Roll \cup Long!GameResult
<1>1. LongGame.checkers \in Nat /\ 0 \in -LongGame.checkers..LongGame.checkers
  BY LongBoard
<1>2. 1 \in Long!CubeValue
  BY DEF Long!CubeValue
<1>3. LongGame.headDoubles \subseteq Long!Die
  BY EngineAssumption DEF Long!Die
<1>4. Null \notin Long!Player \cup Long!Roll \cup Long!GameResult
  BY EngineAssumption
<1>. QED BY <1>1, <1>2, <1>3, <1>4 DEF Long!Point, Long!Long

LEMMA ShortBoard ==
  /\ {ShortGame.points, ShortGame.checkers, ShortGame.home, ShortGame.die} \subseteq Nat \ {0}
  /\ ShortGame.points % 2 = 0
  /\ 2 * ShortGame.home <= ShortGame.points
  /\ ShortGame.die <= ShortGame.home
  /\ "BACKGAMMON" \in {"BACKGAMMON", "LONG_NARDA"}
BY EngineAssumption DEF Sized

LEMMA ShortConfig ==
  /\ ShortGame.start \in [Short!Point -> -ShortGame.checkers..ShortGame.checkers]
  /\ \A p \in Short!Player :
       Short!totalCheckers(Short!NoneOff(ShortGame.start), p) = ShortGame.checkers
  /\ ~Short!Long
  /\ {ShortGame.cube, ShortGame.jacoby} \subseteq BOOLEAN
  /\ ShortGame.maxCube \in Short!CubeValue
  /\ {} \subseteq Short!Die
  /\ Null \notin Short!Player \cup Short!Roll \cup Short!GameResult
<1>1. Short!Player = Long!Player /\ Short!Player = {"White", "Black"}
  BY DEF Short!Player, Long!Player
<1>2. Short!GameResult = Long!GameResult
  BY DEF Short!GameResult, Long!GameResult, Short!Player, Long!Player, Short!Reason, Long!Reason
<1>3. Null \notin Short!Player \cup Short!Roll \cup Short!GameResult
  BY <1>1, <1>2, EngineAssumption
<1>4. /\ ShortGame.start \in [Short!Point -> -ShortGame.checkers..ShortGame.checkers]
      /\ \A p \in Short!Player :
           Short!totalCheckers(Short!NoneOff(ShortGame.start), p) = ShortGame.checkers
  BY <1>1, EngineAssumption DEF Short!Point
<1>5. /\ {ShortGame.cube, ShortGame.jacoby} \subseteq BOOLEAN
      /\ ShortGame.maxCube \in Short!CubeValue
  BY EngineAssumption
<1>6. ~Short!Long
  BY DEF Short!Long
<1>. QED BY <1>3, <1>4, <1>5, <1>6

(***************************************************************************)
(* The games behave as the engine does                                     *)
(***************************************************************************)

LEMMA LongIsPlayed ==
  /\ InLong /\ Spec => Long!Spec /\ []InLong
  /\ ~InLong /\ Spec => []~InLong
<1>1. Init /\ InLong => Long!Init
  BY DEF Init, InLong
<1>2. InLong /\ [Next]_<<variant, engine>> => InLong' /\ [Long!Next]_(Long!vars)
  BY DEF Next, InLong, engine
<1>3. ~InLong /\ [Next]_<<variant, engine>> => ~InLong'
  BY DEF Next, InLong, engine
<1>. QED BY <1>1, <1>2, <1>3, PTL DEF Spec, Long!Spec

LEMMA ShortIsPlayed ==
  /\ InShort /\ Spec => Short!Spec /\ []InShort
  /\ ~InShort /\ Spec => []~InShort
<1>1. Init /\ InShort => Short!Init
  BY DEF Init, InShort
<1>2. InShort /\ [Next]_<<variant, engine>> => InShort' /\ [Short!Next]_(Short!vars)
  BY DEF Next, InShort, engine, Long!vars, Short!vars
<1>3. ~InShort /\ [Next]_<<variant, engine>> => ~InShort'
  BY DEF Next, InShort, engine
<1>. QED BY <1>1, <1>2, <1>3, PTL DEF Spec, Short!Spec

(***************************************************************************)
(* The theorems                                                            *)
(***************************************************************************)

(* Over any number of turns, hits, entries and bear-offs, with whatever    *)
(* cube and concessions, the state of a game is well-formed and none of    *)
(* its checkers is lost, made up or changes hands.                         *)
THEOREM GamesKeepTheirCheckers == Spec => []StateOK
<1>1. Long!Spec => []Long!StateOK
  BY Long!CheckersAreConserved, LongBoard, LongConfig
<1>2. Short!Spec => []Short!StateOK
  BY Short!CheckersAreConserved, ShortBoard, ShortConfig
<1>3. (InLong => Long!StateOK) /\ (InShort => Short!StateOK) => StateOK
  BY DEF StateOK
<1>. QED BY <1>1, <1>2, <1>3, LongIsPlayed, ShortIsPlayed, PTL

(* validateTurn, which judges a submitted turn move by move, accepts       *)
(* exactly the turns that generateTurns finds by searching.                *)
THEOREM TheJudgeAgreesWithTheSearch == Spec => []ValidatesWhatItGenerates
<1>1. Long!Spec => []Long!ValidatesWhatItGenerates
  BY Long!ValidationAgreesWithSearch, LongBoard, LongConfig
<1>2. Short!Spec => []Short!ValidatesWhatItGenerates
  BY Short!ValidationAgreesWithSearch, ShortBoard, ShortConfig
<1>3. (InLong => Long!ValidatesWhatItGenerates) /\ (InShort => Short!ValidatesWhatItGenerates)
        => ValidatesWhatItGenerates
  BY DEF ValidatesWhatItGenerates
<1>. QED BY <1>1, <1>2, <1>3, LongIsPlayed, ShortIsPlayed, PTL

(* Who must move has a turn that is accepted, if only the forced pass, and *)
(* as long as the game is not over one of the players can move with some   *)
(* die: blocks, the head rule and the bar never stop a game for ever.      *)
THEOREM GamesAreNeverStuck == Spec => []NeverStuck
<1>1. Long!Spec => []Long!NeverStuck
  BY Long!NobodyIsBlockedForEver, LongBoard, LongConfig, EngineAssumption DEF Sized
<1>2. Short!Spec => []Short!NeverStuck
  BY Short!NobodyIsBlockedForEver, ShortBoard, ShortConfig, EngineAssumption DEF Sized
<1>3. (InLong => Long!NeverStuck) /\ (InShort => Short!NeverStuck) => NeverStuck
  BY DEF NeverStuck, Short!NeverStuck
<1>. QED BY <1>1, <1>2, <1>3, LongIsPlayed, ShortIsPlayed, PTL

(* No line that the search generates makes a mutator of the board throw.   *)
THEOREM TheMutatorsNeverThrow == Spec => []MutatorsNeverThrow
<1>1. Short!Spec => []Short!MutatorsNeverThrow
  BY Short!SearchNeverThrows, ShortBoard, ShortConfig
<1>2. (InShort => Short!MutatorsNeverThrow) => MutatorsNeverThrow
  BY DEF MutatorsNeverThrow
<1>. QED BY <1>1, <1>2, ShortIsPlayed, PTL

(* A single game, a gammon or a backgammon fits the final position, and    *)
(* the Jacoby rule the cube.                                               *)
THEOREM ResultsFitTheirBoard == Spec => []ResultFitsBoard
<1>1. Short!Spec => []Short!ResultFitsBoard
  BY Short!ResultsFitTheBoard, ShortBoard, ShortConfig
<1>2. (InShort => Short!ResultFitsBoard) => ResultFitsBoard
  BY DEF ResultFitsBoard
<1>. QED BY <1>1, <1>2, ShortIsPlayed, PTL

(* Every turn keeps the head rule, goes forward, sets the other player     *)
(* back only by hitting, and leaves the board as it is only when no die    *)
(* could be played.                                                        *)
THEOREM TurnsAreThoseOfTheRules == Spec => TurnsObeyRules
<1>1. Long!Spec => [][Long!TurnObeysRules]_(Long!vars)
  BY Long!EveryTurnObeysTheRules, LongBoard, LongConfig DEF Long!TurnsObeyRules
<1>2. Short!Spec => [][Short!TurnObeysRules]_(Short!vars)
  BY Short!EveryTurnObeysTheRules, ShortBoard, ShortConfig DEF Short!TurnsObeyRules
<1>3. ~(InLong /\ InShort)
  BY DEF InLong, InShort
<1>4. InLong /\ ~InShort /\ [Long!TurnObeysRules]_(Long!vars)
        => [(InLong => Long!TurnObeysRules) /\ (InShort => Short!TurnObeysRules)]_engine
  BY DEF engine
<1>5. InShort /\ ~InLong /\ [Short!TurnObeysRules]_(Short!vars)
        => [(InLong => Long!TurnObeysRules) /\ (InShort => Short!TurnObeysRules)]_engine
  BY DEF engine, Long!vars, Short!vars
<1>6. ~InLong /\ ~InShort
        => [(InLong => Long!TurnObeysRules) /\ (InShort => Short!TurnObeysRules)]_engine
  OBVIOUS
<1>. QED BY <1>1, <1>2, <1>3, <1>4, <1>5, <1>6, LongIsPlayed, ShortIsPlayed, PTL
         DEF TurnsObeyRules

(* An owned cube is turned only by its owner, and goes to the other side   *)
(* at twice the value.                                                     *)
THEOREM CubeGoesToAndFro == Spec => CubeChangesHands
<1>1. Short!Spec => [][Short!TurnedByItsOwner]_(Short!vars)
  BY Short!CubeGoesToTheOtherSide, ShortBoard, ShortConfig DEF Short!CubeChangesHands
<1>2. InShort /\ [Short!TurnedByItsOwner]_(Short!vars)
        => [InShort => Short!TurnedByItsOwner]_engine
  BY DEF engine, Long!vars, Short!vars
<1>3. ~InShort => [InShort => Short!TurnedByItsOwner]_engine
  OBVIOUS
<1>. QED BY <1>1, <1>2, <1>3, ShortIsPlayed, PTL DEF CubeChangesHands
=============================================================================
