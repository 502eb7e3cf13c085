----------------------------- MODULE NardaTurns -----------------------------
(***************************************************************************)
(* Whole turns (domain/turn.ts and long-narda/turn.ts): the lines a roll   *)
(* allows, the maximal ones -- as many dice as possible, the higher die if *)
(* only one can be played, the head rule -- and the server's validation of *)
(* a turn that a client submitted.                                         *)
(***************************************************************************)
EXTENDS NardaBoard, Sequences

CONSTANT
  HeadDoubles   \* faces whose double lets two checkers leave the head

Roll == [first : Die, second : Die]
isDouble(roll) == roll.first = roll.second
High(roll) == IF roll.first > roll.second THEN roll.first ELSE roll.second

(* The dice to play, as a count per face: four of a double.                *)
diceOf(roll) ==
  [d \in Die |-> IF isDouble(roll) THEN (IF d = roll.first THEN 4 ELSE 0)
                 ELSE IF d \in {roll.first, roll.second} THEN 1 ELSE 0]
Left(left) == {d \in Die : left[d] > 0}
MaxMoves == 4

(* Mutant: the allowance is not tied to the opening turn.                  *)
maxFromHeadFor_Always(roll, opening) ==
  IF isDouble(roll) /\ roll.first \in HeadDoubles THEN 2 ELSE 1

maxFromHeadFor(roll, opening) ==
  IF opening /\ isDouble(roll) /\ roll.first \in HeadDoubles THEN 2 ELSE 1

-----------------------------------------------------------------------------
(* Enumeration. A line is what the depth-first search holds in a call: the *)
(* moves so far, the board and the dice left, the checkers off the head.   *)

Start(b, roll) == [moves |-> <<>>, board |-> b, left |-> diceOf(roll), head |-> 0]
FromHead(p, m) == IF Long /\ m.from = headPoint(p) THEN 1 ELSE 0

Play(l, p, m) ==
  [moves |-> Append(l.moves, m),
   board |-> applyMove(l.board, p, m),
   left |-> [l.left EXCEPT ![m.die] = @ - 1],
   head |-> l.head + FromHead(p, m)]

(* The moves of the search's inner loop; a move beyond the head allowance  *)
(* is pruned here, not at the end.                                         *)
NextMoves(l, p, maxFromHead) ==
  {m \in UNION {SingleMoves(l.board, p, d) : d \in Left(l.left)} :
     l.head + FromHead(p, m) <= maxFromHead}

Extend(lines, p, maxFromHead) ==
  UNION {{Play(l, p, m) : m \in NextMoves(l, p, maxFromHead)} : l \in lines}

(* Every line that goes on from l, finished or not: one that can go on is  *)
(* never maximal. No roll has more than MaxMoves dice.                     *)
LinesFrom(l, p, maxFromHead) ==
  LET lines[k \in 0..MaxMoves] ==
        IF k = 0 THEN {l} ELSE Extend(lines[k - 1], p, maxFromHead)
  IN  UNION {lines[k] : k \in 0..MaxMoves}

enumerate(b, p, roll, maxFromHead) == LinesFrom(Start(b, roll), p, maxFromHead)

Longest(lines) == Max({Len(l.moves) : l \in lines})

(* Mutant: the head rule filters finished lines instead of pruning.        *)
maximal_Filtered(b, p, roll, maxFromHead) ==
  LET all == enumerate(b, p, roll, MaxMoves)
      maxLen == Longest(all)
  IN  [maxLen |-> maxLen,
       lines |-> {l \in all : Len(l.moves) = maxLen /\ l.head <= maxFromHead}]

(* Mutant: no higher-die rule.                                             *)
maximal_AnyDie(b, p, roll, maxFromHead) ==
  LET all == enumerate(b, p, roll, maxFromHead)
      maxLen == Longest(all)
  IN  [maxLen |-> maxLen, lines |-> {l \in all : Len(l.moves) = maxLen}]

maximal(b, p, roll, maxFromHead) ==
  LET all == enumerate(b, p, roll, maxFromHead)
      maxLen == Longest(all)
      longest == {l \in all : Len(l.moves) = maxLen}
      high == {l \in longest : l.moves[1].die = High(roll)}
  IN  [maxLen |-> maxLen,
       lines |-> IF maxLen = 1 /\ ~isDouble(roll) /\ high # {}
                 THEN high ELSE longest]

(* What generateTurns offers, one turn per resulting board.                *)
generateTurns(b, p, roll, maxFromHead) ==
  {l.board : l \in maximal(b, p, roll, maxFromHead).lines}

-----------------------------------------------------------------------------
(* Validation of submitted moves: each in sequence with a die still there, *)
(* then the head rule, the number of dice and the higher die. The result   *)
(* is the set with the line played, empty when the turn is rejected.       *)

PlayNext(lines, p, m) ==
  {Play(l, p, m) :
     l \in {x \in lines : m.die \in Left(x.left) /\ m \in SingleMoves(x.board, p, m.die)}}

Played(b, p, roll, moves) ==
  LET after[k \in 0..Len(moves)] ==
        IF k = 0 THEN {Start(b, roll)} ELSE PlayNext(after[k - 1], p, moves[k])
  IN  after[Len(moves)]

SkipsHigherDie(b, p, roll, moves) ==
  /\ ~isDouble(roll)
  /\ SingleMoves(b, p, High(roll)) # {}
  /\ moves[1].die # High(roll)

(* Mutants: fewer dice than possible are accepted; a turn may skip the     *)
(* higher die.                                                             *)
validateTurn_Underplay(b, p, roll, moves, maxFromHead, maxLen) ==
  {l \in Played(b, p, roll, moves) :
     /\ l.head <= maxFromHead
     /\ maxLen = 1 /\ Len(moves) = 1 => ~SkipsHigherDie(b, p, roll, moves)}

validateTurn_AnyDie(b, p, roll, moves, maxFromHead, maxLen) ==
  {l \in Played(b, p, roll, moves) : l.head <= maxFromHead /\ Len(moves) = maxLen}

(* maxLen is maximal(...).maxLen, computed first.                          *)
validateTurn(b, p, roll, moves, maxFromHead, maxLen) ==
  {l \in Played(b, p, roll, moves) :
     /\ l.head <= maxFromHead
     /\ Len(moves) = maxLen
     /\ maxLen = 1 => ~SkipsHigherDie(b, p, roll, moves)}
=============================================================================
