------------------------------ MODULE GameState ------------------------------
(***************************************************************************)
(* The game state machine of packages/game-engine/src/domain/game-state.ts *)
(* for both variants: opening, rolls, turns, doubling cube, scoring,       *)
(* resignation and forfeit. Every legal call is an action; a call in the   *)
(* wrong phase, or with an illegal turn, throws and changes nothing.       *)
(***************************************************************************)
EXTENDS NardaTurns

CONSTANTS
  InitialPoints,    \* the signed points of the backgammon start
  UseDoublingCube,  \* config.useDoublingCube
  MaxCube,          \* config.maxCube
  JacobyRule,       \* config.jacobyRule
  Null              \* no dice, no cube owner, no pending doubler, no result

VARIABLES
  board,
  activePlayer,
  phase,
  dice,             \* the roll to play, or Null
  cube,
  pendingDoubler,
  result,
  isOpeningTurn     \* no TURN_PLAYED among the events yet

vars == <<board, activePlayer, phase, dice, cube, pendingDoubler, result,
          isOpeningTurn>>

Phase == {"AWAITING_ROLL", "AWAITING_MOVE", "AWAITING_DOUBLE_RESPONSE", "GAME_OVER"}
Reason == {"SINGLE", "GAMMON", "BACKGAMMON", "DOUBLE_DECLINED", "RESIGNATION",
           "FORFEIT"}
GameResult == [winner : Player, points : Nat, reason : Reason]

CubeValue == {1, 2, 4, 8, 16, 32, 64}

NoneOff(points) ==
  [points |-> points, bar |-> [p \in Player |-> 0], off |-> [p \in Player |-> 0]]

(* All the checkers of both sides are on the board to begin with, and the  *)
(* cube stops at one of its faces.                                         *)
ASSUME ConfigAssumption ==
  /\ InitialPoints \in [Point -> -CHECKERS_PER_PLAYER..CHECKERS_PER_PLAYER]
  /\ ~Long => \A p \in Player :
                totalCheckers(NoneOff(InitialPoints), p) = CHECKERS_PER_PLAYER
  /\ {UseDoublingCube, JacobyRule} \subseteq BOOLEAN
  /\ MaxCube \in CubeValue
  /\ HeadDoubles \subseteq Die
  /\ Null \notin Player \cup Roll \cup GameResult

-----------------------------------------------------------------------------
initialLongNarda ==
  [x \in Point |-> IF x = headPoint("White") THEN CHECKERS_PER_PLAYER
                   ELSE IF x = headPoint("Black") THEN -CHECKERS_PER_PLAYER ELSE 0]

(* The opening picks the starter. Long Narda then rolls a fresh pair, in   *)
(* backgammon the two unequal opening dice are played.                     *)
Openings ==
  IF Long THEN Player \X Roll
  ELSE {o \in Player \X Roll :
          ~isDouble(o[2]) /\ (o[1] = "White" <=> o[2].first > o[2].second)}

Init ==
  /\ board = NoneOff(IF Long THEN initialLongNarda ELSE InitialPoints)
  /\ \E o \in Openings : activePlayer = o[1] /\ dice = o[2]
  /\ phase = "AWAITING_MOVE"
  /\ cube = [value |-> 1, owner |-> Null]
  /\ pendingDoubler = Null
  /\ result = Null
  /\ isOpeningTurn = TRUE

-----------------------------------------------------------------------------
inactivePlayer == opponent(activePlayer)
currentMaxFromHead == maxFromHeadFor(dice, isOpeningTurn)
maximalNow == maximal(board, activePlayer, dice, currentMaxFromHead)

(* Everything a client could submit that is legal move by move.            *)
Submissions ==
  {l.moves : l \in enumerate(board, activePlayer, dice, MaxMoves)}

(* The lines that playTurn accepts.                                        *)
Accepted ==
  LET maxLen == maximalNow.maxLen
  IN  UNION {validateTurn(board, activePlayer, dice, moves, currentMaxFromHead, maxLen) :
               moves \in Submissions}

roll ==
  /\ phase = "AWAITING_ROLL"
  /\ \E r \in Roll : dice' = r
  /\ phase' = "AWAITING_MOVE"
  /\ UNCHANGED <<board, activePlayer, cube, pendingDoubler, result, isOpeningTurn>>

trapped(b, winner, loser) ==
  \/ b.bar[loser] > 0
  \/ \E x \in Point : pipDistance(winner, x) <= HOME /\ Owns(b, loser, x)

jacoby_Ignored == FALSE   \* mutant
jacoby == JacobyRule /\ cube.value = 1

(* Long Narda: mars doubles, no cube. Backgammon: gammon and backgammon,   *)
(* which under the Jacoby rule count only once the cube was turned.        *)
scoreWin(b, winner) ==
  LET loser == opponent(winner)
      gammon == b.off[loser] = 0
      times == IF Long THEN (IF gammon THEN 2 ELSE 1)
               ELSE IF ~gammon \/ jacoby THEN 1
               ELSE IF trapped(b, winner, loser) THEN 3 ELSE 2
  IN  [winner |-> winner,
       points |-> IF Long THEN times ELSE cube.value * times,
       reason |-> CASE times = 1 -> "SINGLE"
                    [] times = 2 -> "GAMMON"
                    [] times = 3 -> "BACKGAMMON"]

(* playTurn once the turn l was accepted.                                  *)
PlayLine(l) ==
  /\ board' = l.board
  /\ dice' = Null
  /\ isOpeningTurn' = FALSE
  /\ IF hasBorneOffAll(board', activePlayer)
     THEN /\ result' = scoreWin(board', activePlayer)
          /\ phase' = "GAME_OVER"
          /\ UNCHANGED activePlayer
     ELSE /\ activePlayer' = inactivePlayer
          /\ phase' = "AWAITING_ROLL"
          /\ UNCHANGED result
  /\ UNCHANGED <<cube, pendingDoubler>>

playTurn ==
  /\ phase = "AWAITING_MOVE"
  /\ \E l \in Accepted : PlayLine(l)

canOfferDouble ==
  /\ UseDoublingCube
  /\ phase = "AWAITING_ROLL"
  /\ cube.value < MaxCube
  /\ cube.owner \in {Null, activePlayer}

offerDouble ==
  /\ canOfferDouble
  /\ phase' = "AWAITING_DOUBLE_RESPONSE"
  /\ pendingDoubler' = activePlayer
  /\ UNCHANGED <<board, activePlayer, dice, cube, result, isOpeningTurn>>

(* Mutant: the cube stays with the doubler.                                *)
acceptDouble_KeepsOwner ==
  /\ phase = "AWAITING_DOUBLE_RESPONSE"
  /\ cube' = [value |-> cube.value * 2, owner |-> pendingDoubler]
  /\ phase' = "AWAITING_ROLL"
  /\ pendingDoubler' = Null
  /\ UNCHANGED <<board, activePlayer, dice, result, isOpeningTurn>>

acceptDouble ==
  /\ phase = "AWAITING_DOUBLE_RESPONSE"
  /\ cube' = [value |-> cube.value * 2, owner |-> opponent(pendingDoubler)]
  /\ phase' = "AWAITING_ROLL"
  /\ pendingDoubler' = Null
  /\ UNCHANGED <<board, activePlayer, dice, result, isOpeningTurn>>

declineDouble ==
  /\ phase = "AWAITING_DOUBLE_RESPONSE"
  /\ result' = [winner |-> pendingDoubler, points |-> cube.value,
                reason |-> "DOUBLE_DECLINED"]
  /\ phase' = "GAME_OVER"
  /\ pendingDoubler' = Null
  /\ UNCHANGED <<board, activePlayer, dice, cube, isOpeningTurn>>

(* Mutant: the phase goes on.                                              *)
Concede_PhaseGoesOn(p, reason) ==
  /\ phase # "GAME_OVER"
  /\ result' = [winner |-> opponent(p), points |-> cube.value, reason |-> reason]
  /\ UNCHANGED <<board, activePlayer, phase, dice, cube, pendingDoubler, isOpeningTurn>>

(* resign and forfeit differ in the reason only. Dice and a pending double *)
(* are left as they are.                                                   *)
Concede(p, reason) ==
  /\ phase # "GAME_OVER"
  /\ result' = [winner |-> opponent(p), points |-> cube.value, reason |-> reason]
  /\ phase' = "GAME_OVER"
  /\ UNCHANGED <<board, activePlayer, dice, cube, pendingDoubler, isOpeningTurn>>

resign(p) == Concede(p, "RESIGNATION")
forfeit(p) == Concede(p, "FORFEIT")

Next ==
  \/ roll \/ playTurn
  \/ offerDouble \/ acceptDouble \/ declineDouble
  \/ \E p \in Player : resign(p) \/ forfeit(p)

Spec == Init /\ [][Next]_vars
-----------------------------------------------------------------------------
(* The type invariant and the properties.                                  *)

TypeOK ==
  /\ board \in Board
  /\ activePlayer \in Player
  /\ phase \in Phase
  /\ dice \in Roll \cup {Null}
  /\ cube \in [value : {v \in CubeValue : v <= MaxCube}, owner : Player \cup {Null}]
  /\ pendingDoubler \in Player \cup {Null}
  /\ result \in GameResult \cup {Null}
  /\ isOpeningTurn \in BOOLEAN
  /\ phase = "AWAITING_MOVE" => dice # Null
  /\ phase = "GAME_OVER" <=> result # Null

(* Board.totalCheckers "should be 15": over any number of turns, hits,     *)
(* entries and bear-offs no checker is lost, made up or changes hands.     *)
Conserved == \A p \in Player : totalCheckers(board, p) = CHECKERS_PER_PLAYER

(* The state is well-formed and holds all the checkers.                    *)
StateOK == TypeOK /\ Conserved

(* The board's mutators throw rather than corrupt the board; no generated  *)
(* line ever makes them.                                                   *)
MutatorsNeverThrow ==
  phase = "AWAITING_MOVE" =>
    \A l \in enumerate(board, activePlayer, dice, currentMaxFromHead) :
      \A d \in Left(l.left) : \A m \in SingleMoves(l.board, activePlayer, d) :
        ~Throws(l.board, activePlayer, m)

(* validateTurn, which judges a submitted turn move by move, accepts       *)
(* exactly the turns that generateTurns finds by searching: a turn the AI  *)
(* or the menu offers is never refused and no other is let in.             *)
ValidatesWhatItGenerates ==
  phase = "AWAITING_MOVE" => Accepted = maximalNow.lines

(* A player who must move always has a turn that is accepted, if only the  *)
(* forced pass; the comment on enumerate fears that the head rule together *)
(* with the maximum-dice rule rejects the whole roll.                      *)
AlwaysATurn == phase = "AWAITING_MOVE" => Accepted # {}

(* Nobody can be blocked for ever: while the game runs one of the players  *)
(* could move with some die, so forced passes never go on without end.     *)
SomeoneCanMove ==
  phase # "GAME_OVER" =>
    \E p \in Player, d \in Die : SingleMoves(board, p, d) # {}

(* The game goes on until it is over.                                      *)
NeverStuck == AlwaysATurn /\ SomeoneCanMove

(* A turn that leaves the board as it is was forced: no die of the roll    *)
(* had a move (mustPass).                                                  *)
PassIsForced ==
  phase = "AWAITING_MOVE" /\ isOpeningTurn' = FALSE /\ board' = board
    /\ phase' = "AWAITING_ROLL" =>
  \A d \in {dice.first, dice.second} : SingleMoves(board, activePlayer, d) = {}

(* Head rule: a turn takes one checker off the head, or two when it is the *)
(* first turn of the game and rolled on one of the privileged doubles.     *)
LeavesHeadAlone ==
  \A p \in Player :
    LET taken == CountAt(board, p, headPoint(p)) - CountAt(board', p, headPoint(p))
    IN  taken > 1 => /\ taken = 2 /\ isOpeningTurn
                     /\ dice.first = dice.second /\ dice.first \in HeadDoubles

(* The checkers that have so many pips to go, or more.                     *)
Behind(b, p, pips) ==
  Cardinality(CheckersOn(b, p, {x \in Point : Pip(p, x) >= pips})) + b.bar[p]

(* A turn never brings the mover's own checkers back, whichever distance   *)
(* one counts them from, and sets the other player back only by hitting -- *)
(* never in Long Narda.                                                    *)
MovesForward ==
  /\ \A pips \in 1..BAR_PIP :
       /\ Behind(board', activePlayer, pips) <= Behind(board, activePlayer, pips)
       /\ Behind(board', inactivePlayer, pips) >= Behind(board, inactivePlayer, pips)
  /\ Long \/ board'.bar[inactivePlayer] = board.bar[inactivePlayer] =>
       \A x \in Point : CountAt(board', inactivePlayer, x) = CountAt(board, inactivePlayer, x)

(* A turn is one the rules know: it keeps the head rule, goes forward and  *)
(* passes only when stuck.                                                 *)
TurnObeysRules == MovesForward /\ PassIsForced /\ (Long => LeavesHeadAlone)
TurnsObeyRules == [][TurnObeysRules]_vars

(* An offer and its answer: an owned cube is turned only by its owner, and *)
(* goes to the other side at the doubled value.                            *)
TurnedByItsOwner ==
  cube' # cube =>
    /\ cube.owner \in {Null, activePlayer}
    /\ cube' = [value |-> 2 * cube.value, owner |-> inactivePlayer]
CubeChangesHands == [][TurnedByItsOwner]_vars

(* A result over the board fits the final position: the winner is off, the *)
(* loser is not, more than a single game means the loser bore off nothing  *)
(* (and, under Jacoby, that the cube was turned), a backgammon that a      *)
(* checker of the loser was left behind.                                   *)
ResultFitsBoard ==
  result # Null /\ result.reason \in {"SINGLE", "GAMMON", "BACKGAMMON"} =>
    LET loser == opponent(result.winner)
        more == result.reason # "SINGLE"
    IN  /\ board.off[result.winner] = CHECKERS_PER_PLAYER
        /\ board.off[loser] < CHECKERS_PER_PLAYER
        /\ more => board.off[loser] = 0
        /\ more /\ JacobyRule /\ ~Long => cube.value > 1
        /\ result.reason = "BACKGAMMON" =>
             ~Long /\ ~allCheckersInHome(board, loser)
=============================================================================
