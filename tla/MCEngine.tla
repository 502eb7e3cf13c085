------------------------------ MODULE MCEngine ------------------------------
(***************************************************************************)
(* The engine on small boards for TLC, with two-faced dice and home boards *)
(* of two points: a game is one of Long Narda or one of backgammon, played *)
(* by people or by the computer.                                           *)
(***************************************************************************)
EXTENDS Integers

CONSTANTS
  LongGame,    \* sizes and rules of the game of Long Narda
  ShortGame,   \* and of the game of backgammon
  Null

VARIABLES
  variant,
  board, activePlayer, phase, dice, cube, pendingDoubler, result, isOpeningTurn

Long ==
  INSTANCE GameStateProofs WITH
    POINT_COUNT <- LongGame.points, CHECKERS_PER_PLAYER <- LongGame.checkers,
    HOME <- LongGame.home, MAX_DIE <- LongGame.die,
    Variant <- "LONG_NARDA", HeadDoubles <- LongGame.headDoubles,
    InitialPoints <- [x \in 1..LongGame.points |-> 0],
    UseDoublingCube <- FALSE, MaxCube <- 1, JacobyRule <- FALSE

Short ==
  INSTANCE GameStateProofs WITH
    POINT_COUNT <- ShortGame.points, CHECKERS_PER_PLAYER <- ShortGame.checkers,
    HOME <- ShortGame.home, MAX_DIE <- ShortGame.die,
    Variant <- "BACKGAMMON", HeadDoubles <- {},
    InitialPoints <- ShortGame.start,
    UseDoublingCube <- ShortGame.cube, MaxCube <- ShortGame.maxCube,
    JacobyRule <- ShortGame.jacoby

(* What the games must be like: boards with two equal halves, homes within *)
(* them, dice of several faces that do not reach beyond a home, all the    *)
(* checkers on the board to begin with. A board of four points is too      *)
(* small for Long Narda, see SomeoneCanMove.                               *)
Sized(game) ==
  /\ {game.points, game.checkers, game.home, game.die} \subseteq Nat \ {0}
  /\ game.points % 2 = 0 /\ 2 * game.home <= game.points
  /\ 1 < game.die /\ game.die <= game.home

ASSUME EngineAssumption ==
  /\ Sized(LongGame) /\ LongGame.points > 4
  /\ LongGame.headDoubles \subseteq 1..LongGame.die
  /\ Sized(ShortGame)
  /\ ShortGame.start \in [1..ShortGame.points -> -ShortGame.checkers..ShortGame.checkers]
  /\ \A p \in {"White", "Black"} :
       Short!totalCheckers(Short!NoneOff(ShortGame.start), p) = ShortGame.checkers
  /\ {ShortGame.cube, ShortGame.jacoby} \subseteq BOOLEAN
  /\ ShortGame.maxCube \in Short!CubeValue
  /\ Null \notin Long!Player \cup Long!Roll \cup Short!Roll \cup Long!GameResult

(***************************************************************************)
(* Small games for TLC                                                     *)
(***************************************************************************)

MCLong == [points |-> 6, checkers |-> 3, home |-> 2, die |-> 2, headDoubles |-> {2}]

(* All checkers on the far ends. *)
MCShort ==
  [points |-> 4, checkers |-> 4, home |-> 2, die |-> 2,
   start |-> [x \in 1..4 |-> CASE x = 1 -> -4 [] x = 4 -> 4 [] OTHER -> 0],
   cube |-> TRUE, maxCube |-> 2, jacoby |-> TRUE]

(* Played by the computer, with as many candidates to look beyond as make  *)
(* a difference on so small a board.                                       *)
Lookahead == [EXPERT |-> 2, GRANDMASTER |-> 4]

AILong ==
  INSTANCE AIPlayer WITH
    POINT_COUNT <- 4, CHECKERS_PER_PLAYER <- 3, HOME <- 2, MAX_DIE <- 2,
    Variant <- "LONG_NARDA", HeadDoubles <- {2}, InitialPoints <- [x \in 1..4 |-> 0],
    UseDoublingCube <- FALSE, MaxCube <- 1, JacobyRule <- FALSE,
    LookaheadCandidates <- Lookahead

AIShort ==
  INSTANCE AIPlayer WITH
    POINT_COUNT <- 4, CHECKERS_PER_PLAYER <- 3, HOME <- 2, MAX_DIE <- 2,
    Variant <- "BACKGAMMON", HeadDoubles <- {},
    InitialPoints <- [x \in 1..4 |-> CASE x = 1 -> -3 [] x = 4 -> 3 [] OTHER -> 0],
    UseDoublingCube <- FALSE, MaxCube <- 1, JacobyRule <- FALSE,
    LookaheadCandidates <- Lookahead

Init ==
  \/ variant = "LONG_NARDA" /\ Long!Init
  \/ variant = "BACKGAMMON" /\ Short!Init
  \/ variant = "AI_LONG" /\ AILong!Init
  \/ variant = "AI_BACKGAMMON" /\ AIShort!Init

Next ==
  /\ UNCHANGED variant
  /\ \/ variant = "LONG_NARDA" /\ Long!Next
     \/ variant = "BACKGAMMON" /\ Short!Next
     \/ variant = "AI_LONG" /\ AILong!NextAi
     \/ variant = "AI_BACKGAMMON" /\ AIShort!NextAi

engine == Long!vars

Spec == Init /\ [][Next]_<<variant, engine>>

-----------------------------------------------------------------------------
(* The properties of GameState, for the variants they are checked on.       *)

InLong == variant = "LONG_NARDA"
InShort == variant = "BACKGAMMON"

StateOK == (InLong => Long!StateOK) /\ (InShort => Short!StateOK)
ValidatesWhatItGenerates ==
  (InLong => Long!ValidatesWhatItGenerates) /\ (InShort => Short!ValidatesWhatItGenerates)
NeverStuck == (InLong => Long!NeverStuck) /\ (InShort => Short!SomeoneCanMove)
AIPlays ==
  /\ variant = "AI_LONG" => AILong!AIPlays
  /\ variant = "AI_BACKGAMMON" => AIShort!AIPlays
MutatorsNeverThrow == InShort => Short!MutatorsNeverThrow
ResultFitsBoard == InShort => Short!ResultFitsBoard

TurnsObeyRules ==
  [][(InLong => Long!TurnObeysRules) /\ (InShort => Short!TurnObeysRules)]_engine
CubeChangesHands == [][InShort => Short!TurnedByItsOwner]_engine
=============================================================================
