------------------------------- MODULE AIPlayer -------------------------------
(***************************************************************************)
(* The computer player of packages/game-engine (ai/ai-player.ts,           *)
(* ai/evaluate.ts and long-narda/evaluate.ts): the levels, the static      *)
(* evaluations and the choice of a turn, over the game state machine. Both *)
(* sides of a game are played by some level.                               *)
(*                                                                         *)
(* Scores are exact: one point of the code's score is Unit here, which     *)
(* makes every weight an integer. Which of several best turns is taken     *)
(* depends on the order of the search and is left open.                    *)
(***************************************************************************)
EXTENDS GameState

CONSTANT
  LookaheadCandidates   \* how many turns EXPERT and GRANDMASTER look beyond, from 1

AiLevel == {"EASY", "MEDIUM", "HARD", "EXPERT", "GRANDMASTER"}
Unit == 300

LEVELS ==
  LET level(full, noise, lookahead) ==
        [full |-> full, noise |-> noise, lookahead |-> lookahead]
  IN  [EASY |-> level(FALSE, 8, 0), MEDIUM |-> level(TRUE, 3, 0), HARD |-> level(TRUE, 0, 0),
       EXPERT |-> level(TRUE, 0, LookaheadCandidates.EXPERT),
       GRANDMASTER |-> level(TRUE, 0, LookaheadCandidates.GRANDMASTER)]

-----------------------------------------------------------------------------
(* Points made, and the stretches of them.                                 *)

Made(b, p) == {x \in Point : CountAt(b, p, x) >= 2}
Runs(points) ==
  {r \in points \X points :
     /\ r[1] <= r[2]
     /\ r[1]..r[2] \subseteq points
     /\ {r[1] - 1, r[2] + 1} \cap points = {}}
Length(r) == r[2] - r[1] + 1

(* The gain of a checker borne off, and of a pip, against the other side's. *)
Progress(b, p, off, pip, pips) ==
  LET opp == opponent(p)
  IN  off * (b.off[p] - b.off[opp]) + pip * (pips[opp] - pips[p])

-----------------------------------------------------------------------------
(* Backgammon.                                                             *)

Pips(b) == [p \in Player |-> pipCount(b, p)]

(* Mutant: shots always come from below.                                   *)
directShots_OneWay(b, p, x) ==
  Cardinality({d \in Die : x - d \in Owned(b, opponent(p))})

directShots(b, p, x) ==
  LET dir == -Sign(opponent(p))
  IN  Cardinality({d \in Die : x - dir * d \in Owned(b, opponent(p))})

blotPenalty(b, p, x) ==
  (directShots(b, p, x) * (3 * Unit + pipDistance(p, x) * 36)) \div MAX_DIE

primeBonus(b, p) ==
  LET best == Max({Length(r) : r \in Runs(Made(b, p))} \cup {0})
  IN  IF best >= 2 THEN best * best * 180 ELSE 0

evaluate(b, p) ==
  LET made == Made(b, p)
      blots == {x \in Point : CountAt(b, p, x) = 1}
  IN  Progress(b, p, 16 * Unit, 120, Pips(b))
        - 12 * Unit * b.bar[p] + 8 * Unit * b.bar[opponent(p)]
        + 2 * Unit * Cardinality(made)
        + 480 * Cardinality({x \in made : pipDistance(p, x) <= HOME})
        - MapThenSumSet(LAMBDA x : blotPenalty(b, p, x), blots)
        + primeBonus(b, p)

simpleEvaluate(b, p) ==
  Progress(b, p, 16 * Unit, 120, Pips(b)) - 10 * Unit * b.bar[p]

(* The 21 rolls, a double half as likely as the others: the expectation is *)
(* a sum here, all of whose terms the code divides by 36. The opponent may *)
(* also leave the board as it is.                                          *)
expectedAfterReply(b, p) ==
  LET worst(r) ==
        Min({evaluate(x, p) : x \in {b} \cup generateTurns(b, opponent(p), r, MaxMoves)})
  IN  MapThenSumSet(LAMBDA r : (IF isDouble(r) THEN 1 ELSE 2) * worst(r),
                    {r \in Roll : r.first <= r.second})

(* Each score moves by at most the noise: a turn can come out on top when  *)
(* it is within twice the noise of the best.                               *)
Scored(score) == {[board |-> b, score |-> score[b]] : b \in DOMAIN score}
Top(scored, noise) ==
  LET best == Max({x.score : x \in scored})
  IN  {x.board : x \in {y \in scored : y.score + 2 * noise >= best}}

(* What the sort may put into the first n places.                          *)
FirstPlaces(scored, n) ==
  {c \in kSubset(Min({n, Cardinality(scored)}), scored) :
     \A x \in c, y \in scored \ c : x.score >= y.score}

(* The best of the candidates, whichever these are, once the opponent has  *)
(* replied.                                                                *)
BestBeyond(candidates, p) ==
  LET replied == Scored([x \in UNION candidates |-> expectedAfterReply(x, p)])
  IN  UNION {Top({x \in replied : x.board \in c}, 0) : c \in candidates}

chooseTurn(boards, p, level) ==
  LET config == LEVELS[level]
      scored == Scored([x \in boards |-> IF config.full THEN evaluate(x, p)
                                         ELSE simpleEvaluate(x, p)])
  IN  IF config.lookahead = 0 THEN Top(scored, config.noise * Unit)
      ELSE BestBeyond({{x.board : x \in c} : c \in FirstPlaces(scored, config.lookahead)}, p)

-----------------------------------------------------------------------------
(* Long Narda.                                                             *)

pipCountLong(b, p) == MapThenSumSet(LAMBDA x : CountAt(b, p, x) * pipToOff(p, x), Point)
PipsLong(b) == [p \in Player |-> pipCountLong(b, p)]

(* Mutant: the sides of the race are swapped.                              *)
evaluateLong_RaceSwapped(b, p) == Progress(b, p, -(20 * Unit), -180, PipsLong(b))

evaluateLong(b, p) ==
  LET foe == opponent(p)
      foeMaxPip == Max({pipToOff(foe, x) : x \in Owned(b, foe)} \cup {0})
      made == Made(b, p)
      walls == {r \in Runs(made) : Length(r) >= 2}
  IN  Progress(b, p, 20 * Unit, 180, PipsLong(b))
        + 60 * Cardinality(made)
        + 150 * Cardinality({x \in made : pipToOff(foe, x) < foeMaxPip})
        + MapThenSumSet(LAMBDA r : Length(r) * Length(r) * 36, walls)

chooseTurnLong(boards, p, level) ==
  LET scored == Scored([x \in boards |-> evaluateLong(x, p)])
  IN  CASE level = "EASY" -> boards
        [] level = "MEDIUM" -> Top(scored, 4 * Unit)
        [] OTHER -> Top(scored, 0)

-----------------------------------------------------------------------------
(* The turns a level chooses from, and what it may go for among them.      *)

(* Mutant: the head rule is forgotten.                                     *)
TurnsToChoose_AnyHead == generateTurns(board, activePlayer, dice, MaxMoves)

TurnsToChoose ==
  generateTurns(board, activePlayer, dice, IF Long THEN currentMaxFromHead ELSE MaxMoves)

chooseTurnFor(level) ==
  IF Long THEN chooseTurnLong(TurnsToChoose, activePlayer, level)
  ELSE chooseTurn(TurnsToChoose, activePlayer, level)

(* The service plays the turn of the level like anybody's.                 *)
playAi(level) ==
  /\ phase = "AWAITING_MOVE"
  /\ \E b \in chooseTurnFor(level) :
       \E l \in Accepted : l.board = b /\ PlayLine(l)

NextAi == roll \/ \E level \in AiLevel : playAi(level)

-----------------------------------------------------------------------------
(* The properties. choice is what each level may go for, legal the boards  *)
(* of the turns that the game accepts.                                     *)

(* "All levels pick from the legal turns": whatever a level goes for, the  *)
(* game accepts; the match never waits for an AI whose turn was refused.   *)
NeverCheats(choice, legal) ==
  \A level \in AiLevel : choice[level] \in SUBSET legal \ {{}}

(* No mixture of weights, noise and look-ahead makes a level miss a turn   *)
(* that ends the game, but for the level that plays Long Narda at random.  *)
TakesTheWin(choice, legal) ==
  LET winning == {b \in legal : hasBorneOffAll(b, activePlayer)}
  IN  winning # {} =>
        \A level \in AiLevel \ (IF Long THEN {"EASY"} ELSE {}) :
          choice[level] \subseteq winning

PlaysWell(choice, legal) == NeverCheats(choice, legal) /\ TakesTheWin(choice, legal)

(* The board seen from the other side of the table.                        *)
Mirror(b) ==
  [points |-> [x \in Point |-> -b.points[POINT_COUNT + 1 - x]],
   bar |-> [p \in Player |-> b.bar[opponent(p)]],
   off |-> [p \in Player |-> b.off[opponent(p)]]]

(* In backgammon the computer plays White and Black alike: shots, homes    *)
(* and walls are found the right way round for either.                     *)
EvenHanded ==
  ~Long =>
    \A p \in Player :
      /\ evaluate(board, p) = evaluate(Mirror(board), opponent(p))
      /\ simpleEvaluate(board, p) = simpleEvaluate(Mirror(board), opponent(p))

(* A turn of the computer is legal, wins where it can, and does not depend *)
(* on the side it plays.                                                   *)
AIPlays ==
  /\ phase = "AWAITING_MOVE" =>
       PlaysWell([level \in AiLevel |-> chooseTurnFor(level)], {l.board : l \in Accepted})
  /\ EvenHanded
=============================================================================
