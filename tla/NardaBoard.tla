----------------------------- MODULE NardaBoard -----------------------------
(***************************************************************************)
(* The board of packages/game-engine: geometry, checkers, single moves of  *)
(* both variants (domain/board.ts, domain/geometry.ts, domain/move.ts and  *)
(* long-narda/geometry.ts, long-narda/move.ts).                            *)
(*                                                                         *)
(* As in the code a point holds a signed count, positive for White. The    *)
(* sizes are parameters: the real board has 24 points, 15 checkers, home   *)
(* boards of six points and six-sided dice.                                *)
(***************************************************************************)
EXTENDS Integers, FiniteSets, FiniteSetsExt

CONSTANTS
  POINT_COUNT,          \* points on the board
  CHECKERS_PER_PLAYER,
  HOME,                 \* points in a home board
  MAX_DIE,              \* faces of a die
  Variant               \* the rules: "BACKGAMMON" or "LONG_NARDA"

ASSUME BoardAssumption ==
  /\ {POINT_COUNT, CHECKERS_PER_PLAYER, HOME, MAX_DIE} \subseteq Nat \ {0}
  /\ POINT_COUNT % 2 = 0
  /\ 2 * HOME <= POINT_COUNT
  /\ MAX_DIE <= HOME
  /\ Variant \in {"BACKGAMMON", "LONG_NARDA"}

Player == {"White", "Black"}
Point == 1..POINT_COUNT
Die == 1..MAX_DIE
Long == Variant = "LONG_NARDA"
opponent(p) == IF p = "White" THEN "Black" ELSE "White"

Board == [points : [Point -> -CHECKERS_PER_PLAYER..CHECKERS_PER_PLAYER],
          bar : [Player -> 0..CHECKERS_PER_PLAYER],
          off : [Player -> 0..CHECKERS_PER_PLAYER]]

(* Sentinels outside Point: where a move comes from, or goes to.           *)
BAR == 0
OFF == 0
Move == [from : Point \cup {BAR}, to : Point \cup {OFF}, die : Die]

-----------------------------------------------------------------------------
(* Geometry. In backgammon the players travel towards each other, in Long  *)
(* Narda the same way round from opposite heads.                           *)

Half == POINT_COUNT \div 2
pipDistance(p, x) == IF p = "White" THEN x ELSE POINT_COUNT + 1 - x

pipToOff(p, x) ==
  IF p = "White" THEN x ELSE IF x > Half THEN x - Half ELSE x + Half
pointAtPip(p, pip) ==
  IF p = "White" THEN pip ELSE IF pip <= Half THEN pip + Half ELSE pip - Half
headPoint(p) == pointAtPip(p, POINT_COUNT)
entryPoint(p, d) == IF p = "White" THEN POINT_COUNT + 1 - d ELSE d

(* Pips to go from a point, and back: of the variant in play.              *)
Pip(p, x) == IF Long THEN pipToOff(p, x) ELSE pipDistance(p, x)
PointAt(p, pip) == IF Long THEN pointAtPip(p, pip) ELSE pipDistance(p, pip)
BAR_PIP == POINT_COUNT + 1

-----------------------------------------------------------------------------
(* Queries.                                                                *)

Sign(p) == IF p = "White" THEN 1 ELSE -1
Owns(b, p, x) == Sign(p) * b.points[x] > 0
Owned(b, p) == {x \in Point : Owns(b, p, x)}
CountAt(b, p, x) == IF Owns(b, p, x) THEN Sign(p) * b.points[x] ELSE 0
isBlot(b, p, x) == CountAt(b, opponent(p), x) = 1
hasBorneOffAll(b, p) == b.off[p] >= CHECKERS_PER_PLAYER

(* Mutant: a blot may be landed on in both variants.                       *)
canLandOn_Hits(b, p, x) == CountAt(b, opponent(p), x) <= 1

(* Where a checker may land: Long Narda knows no hits.                     *)
canLandOn(b, p, x) ==
  CountAt(b, opponent(p), x) <= IF Long THEN 0 ELSE 1

(* The player's checkers on some points: a point and a height each.        *)
CheckersOn(b, p, points) == UNION {{x} \X (1..CountAt(b, p, x)) : x \in points}

totalCheckers(b, p) == Cardinality(CheckersOn(b, p, Point)) + b.bar[p] + b.off[p]
pipCount(b, p) ==
  MapThenSumSet(LAMBDA x : CountAt(b, p, x) * Pip(p, x), Point)
    + b.bar[p] * BAR_PIP

-----------------------------------------------------------------------------
(* Mutators. Each throws rather than corrupt the board, see Throws.        *)

addChecker(b, p, x) == [b EXCEPT !.points[x] = @ + Sign(p)]
removeChecker(b, p, x) == [b EXCEPT !.points[x] = @ - Sign(p)]

(* Mutant: the victim is not put on the bar.                               *)
hitBlot_Lost(b, p, x) == [b EXCEPT !.points[x] = 0]

hitBlot(b, p, x) ==
  [b EXCEPT !.points[x] = 0, !.bar[opponent(p)] = @ + 1]
enterFromBar(b, p, x) == [addChecker(b, p, x) EXCEPT !.bar[p] = @ - 1]
bearOff(b, p, x) == [removeChecker(b, p, x) EXCEPT !.off[p] = @ + 1]

Throws(b, p, m) ==
  \/ m.from = BAR /\ (Long \/ b.bar[p] = 0)
  \/ m.from # BAR /\ ~Owns(b, p, m.from)
  \/ m.to # OFF /\ ~canLandOn(b, p, m.to)

(* applyMove and applyMoveLong: a hit is resolved from the board.          *)
applyMove(b, p, m) ==
  LET landing == IF ~Long /\ m.to # OFF /\ isBlot(b, p, m.to)
                 THEN hitBlot(b, p, m.to) ELSE b
  IN  IF m.from = BAR THEN enterFromBar(landing, p, m.to)
      ELSE IF m.to = OFF THEN bearOff(landing, p, m.from)
      ELSE addChecker(removeChecker(landing, p, m.from), p, m.to)

-----------------------------------------------------------------------------
(* The single moves of one die.                                            *)

InHome(p, x) == Pip(p, x) <= HOME

(* Mutant: all checkers must still be on the board.                        *)
allCheckersInHome_IgnoresOff(b, p) ==
  MapThenSumSet(LAMBDA x : IF InHome(p, x) THEN CountAt(b, p, x) ELSE 0, Point)
    = CHECKERS_PER_PLAYER

allCheckersInHome(b, p) ==
  b.bar[p] = 0 /\ \A x \in Owned(b, p) : InHome(p, x)

hasHomeCheckerFartherThan(b, p, pip) ==
  \E x \in Owned(b, p) : InHome(p, x) /\ Pip(p, x) > pip

MayBearOff(b, p, x, d) ==
  /\ allCheckersInHome(b, p)
  /\ \/ Pip(p, x) = d
     \/ Pip(p, x) < d /\ ~hasHomeCheckerFartherThan(b, p, Pip(p, x))

Steps(b, p, d) ==
  {[from |-> x, to |-> PointAt(p, Pip(p, x) - d), die |-> d] :
      x \in {y \in Owned(b, p) : /\ Pip(p, y) > d
                                 /\ canLandOn(b, p, PointAt(p, Pip(p, y) - d))}}
BearOffs(b, p, d) ==
  {[from |-> x, to |-> OFF, die |-> d] :
      x \in {y \in Owned(b, p) : Pip(p, y) <= d /\ MayBearOff(b, p, y, d)}}
(* Mutant: a blocked entry is offered.                                     *)
Entries_Blocked(b, p, d) == {[from |-> BAR, to |-> entryPoint(p, d), die |-> d]}

Entries(b, p, d) ==
  {[from |-> BAR, to |-> x, die |-> d] :
      x \in {y \in {entryPoint(p, d)} : canLandOn(b, p, y)}}

generateSingleMovesLong(b, p, d) == Steps(b, p, d) \cup BearOffs(b, p, d)

generateSingleMoves(b, p, d) ==
  IF b.bar[p] > 0 THEN Entries(b, p, d)
  ELSE Steps(b, p, d) \cup BearOffs(b, p, d)

SingleMoves(b, p, d) ==
  IF Long THEN generateSingleMovesLong(b, p, d) ELSE generateSingleMoves(b, p, d)
=============================================================================
