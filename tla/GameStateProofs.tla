-------------------------- MODULE GameStateProofs --------------------------
(***************************************************************************)
(* Proofs about the game engine, for boards, homes and dice of any size,   *)
(* both variants, any start position and any configuration of the cube.    *)
(***************************************************************************)
EXTENDS GameState, FiniteSetTheorems, WellFoundedInduction, TLAPS

(***************************************************************************)
(* Geometry                                                                *)
(***************************************************************************)

LEMMA Sizes ==
  /\ POINT_COUNT \in Nat /\ CHECKERS_PER_PLAYER \in Nat /\ HOME \in Nat /\ MAX_DIE \in Nat
  /\ POINT_COUNT > 0 /\ CHECKERS_PER_PLAYER > 0 /\ HOME > 0 /\ MAX_DIE > 0
  /\ Half \in Nat /\ POINT_COUNT = 2 * Half /\ HOME <= Half /\ MAX_DIE <= HOME
BY BoardAssumption DEF Half

LEMMA Opponents ==
  ASSUME NEW p \in Player
  PROVE  opponent(p) \in Player /\ opponent(p) # p /\ opponent(opponent(p)) = p
           /\ Player = {p, opponent(p)}
BY DEF Player, opponent

(* Pips to go and the point so many pips away are inverse to each other.   *)
LEMMA PipAndBack ==
  ASSUME NEW p \in Player, NEW k \in Point
  PROVE  /\ Pip(p, k) \in Point /\ PointAt(p, Pip(p, k)) = k
         /\ PointAt(p, k) \in Point /\ Pip(p, PointAt(p, k)) = k
BY Sizes DEF Player, Point, Pip, PointAt, pipToOff, pointAtPip, pipDistance

LEMMA HeadIsFarthest ==
  ASSUME Long, NEW p \in Player
  PROVE  headPoint(p) \in Point /\ Pip(p, headPoint(p)) = POINT_COUNT
           /\ headPoint(opponent(p)) # headPoint(p)
<1>1. POINT_COUNT \in Point
  BY Sizes DEF Point
<1>2. headPoint(p) = PointAt(p, POINT_COUNT)
  BY DEF headPoint, PointAt
<1>3. headPoint(opponent(p)) # headPoint(p)
  BY Sizes DEF headPoint, pointAtPip, opponent, Player
<1>. QED BY <1>1, <1>2, <1>3, PipAndBack

(* From the bar one enters on the point that many pips in.                 *)
LEMMA EntryPip ==
  ASSUME ~Long, NEW p \in Player, NEW d \in Die
  PROVE  entryPoint(p, d) \in Point /\ Pip(p, entryPoint(p, d)) = BAR_PIP - d
BY Sizes DEF Player, Point, Die, Pip, pipDistance, entryPoint, BAR_PIP

(***************************************************************************)
(* Checkers on points                                                      *)
(***************************************************************************)

AnyBoard == [points : [Point -> Int], bar : [Player -> Int], off : [Player -> Int]]

LEMMA BoardsAreAny ==
  ASSUME NEW b \in Board
  PROVE  b \in AnyBoard
<1>1. CHECKERS_PER_PLAYER \in Nat
  BY Sizes
<1>2. b.points \in [Point -> Int] /\ b.bar \in [Player -> Int] /\ b.off \in [Player -> Int]
  BY <1>1 DEF Board
<1>. QED BY <1>2 DEF Board, AnyBoard

LEMMA Counts ==
  ASSUME NEW b \in AnyBoard, NEW p \in Player, NEW x \in Point
  PROVE  /\ CountAt(b, p, x) \in Nat
         /\ CountAt(b, p, x) > 0 <=> Owns(b, p, x)
         /\ CountAt(b, p, x) > 0 => CountAt(b, opponent(p), x) = 0
BY DEF AnyBoard, Player, CountAt, Owns, Sign, opponent

LEMMA PointsFromCounts ==
  ASSUME NEW b \in AnyBoard, NEW x \in Point
  PROVE  b.points[x] = CountAt(b, "White", x) - CountAt(b, "Black", x)
BY DEF AnyBoard, CountAt, Owns, Sign

(* What the three changes to the points do to the two sides' counts.       *)
LEMMA Adding ==
  ASSUME NEW b \in AnyBoard, NEW p \in Player, NEW x \in Point,
         CountAt(b, opponent(p), x) = 0
  PROVE  /\ addChecker(b, p, x) \in AnyBoard
         /\ addChecker(b, p, x).bar = b.bar /\ addChecker(b, p, x).off = b.off
         /\ \A y \in Point :
              /\ CountAt(addChecker(b, p, x), p, y) = CountAt(b, p, y) + (IF y = x THEN 1 ELSE 0)
              /\ CountAt(addChecker(b, p, x), opponent(p), y) = CountAt(b, opponent(p), y)
<1>1. /\ addChecker(b, p, x) \in AnyBoard
      /\ addChecker(b, p, x).bar = b.bar /\ addChecker(b, p, x).off = b.off
      /\ addChecker(b, p, x).points = [b.points EXCEPT ![x] = @ + Sign(p)]
  BY DEF AnyBoard, addChecker, Sign
<1>2. ASSUME NEW y \in Point
      PROVE  /\ CountAt(addChecker(b, p, x), p, y) = CountAt(b, p, y) + (IF y = x THEN 1 ELSE 0)
             /\ CountAt(addChecker(b, p, x), opponent(p), y) = CountAt(b, opponent(p), y)
  <2>1. addChecker(b, p, x).points[y] = b.points[y] + (IF y = x THEN Sign(p) ELSE 0)
    BY <1>1 DEF AnyBoard, Sign
  <2>2. CASE p = "White"
    BY <2>1, <2>2 DEF AnyBoard, CountAt, Owns, Sign, opponent
  <2>3. CASE p = "Black"
    BY <2>1, <2>3 DEF AnyBoard, CountAt, Owns, Sign, opponent
  <2>. QED BY <2>2, <2>3 DEF Player
<1>. QED BY <1>1, <1>2

LEMMA Removing ==
  ASSUME NEW b \in AnyBoard, NEW p \in Player, NEW x \in Point, Owns(b, p, x)
  PROVE  /\ removeChecker(b, p, x) \in AnyBoard
         /\ removeChecker(b, p, x).bar = b.bar /\ removeChecker(b, p, x).off = b.off
         /\ \A y \in Point :
              /\ CountAt(removeChecker(b, p, x), p, y)
                   = CountAt(b, p, y) - (IF y = x THEN 1 ELSE 0)
              /\ CountAt(removeChecker(b, p, x), opponent(p), y) = CountAt(b, opponent(p), y)
<1>1. /\ removeChecker(b, p, x) \in AnyBoard
      /\ removeChecker(b, p, x).bar = b.bar /\ removeChecker(b, p, x).off = b.off
      /\ removeChecker(b, p, x).points = [b.points EXCEPT ![x] = @ - Sign(p)]
  BY DEF AnyBoard, removeChecker, Sign
<1>2. ASSUME NEW y \in Point
      PROVE  /\ CountAt(removeChecker(b, p, x), p, y)
                  = CountAt(b, p, y) - (IF y = x THEN 1 ELSE 0)
             /\ CountAt(removeChecker(b, p, x), opponent(p), y) = CountAt(b, opponent(p), y)
  <2>1. removeChecker(b, p, x).points[y] = b.points[y] - (IF y = x THEN Sign(p) ELSE 0)
    BY <1>1 DEF AnyBoard, Sign
  <2>2. CASE p = "White"
    BY <2>1, <2>2 DEF AnyBoard, CountAt, Owns, Sign, opponent
  <2>3. CASE p = "Black"
    BY <2>1, <2>3 DEF AnyBoard, CountAt, Owns, Sign, opponent
  <2>. QED BY <2>2, <2>3 DEF Player
<1>. QED BY <1>1, <1>2

LEMMA Hitting ==
  ASSUME NEW b \in AnyBoard, NEW p \in Player, NEW x \in Point, isBlot(b, p, x)
  PROVE  /\ hitBlot(b, p, x) \in AnyBoard
         /\ hitBlot(b, p, x).off = b.off
         /\ hitBlot(b, p, x).bar = [b.bar EXCEPT ![opponent(p)] = @ + 1]
         /\ \A y \in Point :
              /\ CountAt(hitBlot(b, p, x), p, y) = CountAt(b, p, y)
              /\ CountAt(hitBlot(b, p, x), opponent(p), y)
                   = IF y = x THEN 0 ELSE CountAt(b, opponent(p), y)
<1>1. /\ hitBlot(b, p, x) \in AnyBoard
      /\ hitBlot(b, p, x).bar = [b.bar EXCEPT ![opponent(p)] = @ + 1]
      /\ hitBlot(b, p, x).off = b.off
      /\ hitBlot(b, p, x).points = [b.points EXCEPT ![x] = 0]
  <2>1. opponent(p) \in Player
    BY Opponents
  <2>2. /\ hitBlot(b, p, x).points = [b.points EXCEPT ![x] = 0]
        /\ hitBlot(b, p, x).bar = [b.bar EXCEPT ![opponent(p)] = @ + 1]
        /\ hitBlot(b, p, x).off = b.off
    BY DEF AnyBoard, hitBlot
  <2>3. /\ [b.points EXCEPT ![x] = 0] \in [Point -> Int]
        /\ [b.bar EXCEPT ![opponent(p)] = @ + 1] \in [Player -> Int]
    BY <2>1 DEF AnyBoard
  <2>4. [b EXCEPT !.points[x] = 0] \in AnyBoard
    BY <2>3 DEF AnyBoard
  <2>5. hitBlot(b, p, x) = [[b EXCEPT !.points[x] = 0] EXCEPT !.bar[opponent(p)] = @ + 1]
    BY DEF hitBlot
  <2>6. hitBlot(b, p, x) \in AnyBoard
    <3>. DEFINE c == [b EXCEPT !.points[x] = 0]
    <3>1. c \in AnyBoard
      BY <2>4
    <3>. HIDE DEF c
    <3>2. [c EXCEPT !.bar[opponent(p)] = @ + 1] \in AnyBoard
      BY <2>1, <3>1 DEF AnyBoard
    <3>. QED BY <2>5, <3>2 DEF c
  <2>. QED BY <2>2, <2>6
<1>2. ASSUME NEW y \in Point
      PROVE  /\ CountAt(hitBlot(b, p, x), p, y) = CountAt(b, p, y)
             /\ CountAt(hitBlot(b, p, x), opponent(p), y)
                  = IF y = x THEN 0 ELSE CountAt(b, opponent(p), y)
  <2>1. hitBlot(b, p, x).points[y] = IF y = x THEN 0 ELSE b.points[y]
    BY <1>1 DEF AnyBoard
  <2>2. CASE p = "White"
    BY <2>1, <2>2 DEF AnyBoard, CountAt, Owns, Sign, opponent, isBlot
  <2>3. CASE p = "Black"
    BY <2>1, <2>3 DEF AnyBoard, CountAt, Owns, Sign, opponent, isBlot
  <2>. QED BY <2>2, <2>3 DEF Player
<1>. QED BY <1>1, <1>2

(***************************************************************************)
(* Cardinalities of sets of checkers                                       *)
(***************************************************************************)

(* The checkers on the points S when point x holds c[x] of them.           *)
Pile(c, S) == UNION {{x} \X (1..c[x]) : x \in S}
Tally(b, p) == [x \in Point |-> CountAt(b, p, x)]
In(x, S) == IF x \in S THEN 1 ELSE 0

LEMMA PileElements ==
  ASSUME NEW c, NEW S, NEW e
  PROVE  e \in Pile(c, S) <=> \E x \in S : \E h \in 1..c[x] : e = <<x, h>>
BY DEF Pile

LEMMA PileMember ==
  ASSUME NEW c, NEW S, NEW x, NEW h
  PROVE  <<x, h>> \in Pile(c, S) <=> x \in S /\ h \in 1..c[x]
BY PileElements

LEMMA PileFinite ==
  ASSUME NEW M \in Nat, NEW c \in [Point -> 0..M], NEW S \in SUBSET Point
  PROVE  IsFiniteSet(Pile(c, S)) /\ Cardinality(Pile(c, S)) \in Nat
<1>1. IsFiniteSet(Point) /\ IsFiniteSet(1..M)
  BY FS_Interval, Sizes DEF Point
<1>2. IsFiniteSet(Point \X (1..M))
  BY <1>1, FS_Product
<1>3. Pile(c, S) \subseteq Point \X (1..M)
  <2>1. ASSUME NEW e \in Pile(c, S)
        PROVE  e \in Point \X (1..M)
    <3>0. PICK x \in S : \E h \in 1..c[x] : e = <<x, h>>
      BY PileElements
    <3>1. PICK h \in 1..c[x] : e = <<x, h>>
      BY <3>0
    <3>2. c[x] \in 0..M
      BY <3>1
    <3>3. h \in 1..M
      BY <3>1, <3>2
    <3>. QED BY <3>1, <3>3
  <2>. QED BY <2>1
<1>. QED BY <1>2, <1>3, FS_Subset, FS_CardinalityType

(* One checker more on y.                                                  *)
LEMMA PileGrows ==
  ASSUME NEW M \in Nat, NEW c \in [Point -> 0..M], NEW d \in [Point -> 0..M],
         NEW S \in SUBSET Point, NEW y \in Point,
         \A x \in Point : d[x] = c[x] + (IF x = y THEN 1 ELSE 0)
  PROVE  Cardinality(Pile(d, S)) = Cardinality(Pile(c, S)) + In(y, S)
<1>1. IsFiniteSet(Pile(c, S))
  BY PileFinite
<1>2. CASE y \in S
  <2>1. <<y, d[y]>> \notin Pile(c, S)
    BY PileMember
  <2>2. ASSUME NEW e
        PROVE  e \in Pile(d, S) <=> e \in Pile(c, S) \cup {<<y, d[y]>>}
    <3>1. ASSUME e \in Pile(d, S)
          PROVE  e \in Pile(c, S) \cup {<<y, d[y]>>}
      <4>0. PICK x \in S : \E h \in 1..d[x] : e = <<x, h>>
        BY <3>1, PileElements
      <4>1. PICK h \in 1..d[x] : e = <<x, h>>
        BY <4>0
      <4>2. CASE h \in 1..c[x]
        BY <4>1, <4>2, PileMember
      <4>3. CASE h \notin 1..c[x]
        <5>1. x \in Point /\ c[x] \in Nat /\ d[x] = c[x] + (IF x = y THEN 1 ELSE 0)
          OBVIOUS
        <5>2. x = y /\ h = d[y]
          BY <4>3, <5>1
        <5>. QED BY <4>1, <5>2
      <4>. QED BY <4>2, <4>3
    <3>2. ASSUME e \in Pile(c, S)
          PROVE  e \in Pile(d, S)
      <4>0. PICK x \in S : \E h \in 1..c[x] : e = <<x, h>>
        BY <3>2, PileElements
      <4>1. PICK h \in 1..c[x] : e = <<x, h>>
        BY <4>0
      <4>2. x \in Point /\ c[x] \in Nat /\ d[x] = c[x] + (IF x = y THEN 1 ELSE 0)
        OBVIOUS
      <4>3. h \in 1..d[x]
        BY <4>2
      <4>. QED BY <4>1, <4>3, PileMember
    <3>3. <<y, d[y]>> \in Pile(d, S)
      <4>1. c[y] \in Nat /\ d[y] = c[y] + 1
        OBVIOUS
      <4>. QED BY <1>2, <4>1, PileMember
    <3>. QED BY <3>1, <3>2, <3>3
  <2>3. Pile(d, S) = Pile(c, S) \cup {<<y, d[y]>>}
    BY <2>2
  <2>. QED BY <1>1, <1>2, <2>1, <2>3, FS_AddElement DEF In
<1>3. CASE y \notin S
  <2>1. \A x \in S : d[x] = c[x]
    BY <1>3
  <2>2. Pile(d, S) = Pile(c, S)
    BY <2>1 DEF Pile
  <2>. QED BY <1>1, <1>3, <2>2, FS_CardinalityType DEF In
<1>. QED BY <1>2, <1>3

(* A checker goes from s to t; neither needs to be a point.                *)
LEMMA PileShifts ==
  ASSUME NEW M \in Nat, NEW c \in [Point -> 0..M], NEW d \in [Point -> 0..M],
         NEW S \in SUBSET Point, NEW s, NEW t,
         s \in Point => c[s] > 0,
         \A x \in Point : d[x] = c[x] - (IF x = s THEN 1 ELSE 0) + (IF x = t THEN 1 ELSE 0)
  PROVE  Cardinality(Pile(d, S)) + In(s, S) = Cardinality(Pile(c, S)) + In(t, S)
<1>. DEFINE e == [x \in Point |-> c[x] - (IF x = s THEN 1 ELSE 0)]
<1>1. e \in [Point -> 0..M]
  OBVIOUS
<1>2. \A x \in Point : c[x] = e[x] + (IF x = s THEN 1 ELSE 0)
  OBVIOUS
<1>3. \A x \in Point : d[x] = e[x] + (IF x = t THEN 1 ELSE 0)
  OBVIOUS
<1>. HIDE DEF e
<1>4. Cardinality(Pile(c, S)) = Cardinality(Pile(e, S)) + In(s, S)
  <2>1. CASE s \in Point
    BY <1>1, <1>2, <2>1, PileGrows
  <2>2. CASE s \notin Point
    <3>1. c = e
      BY <1>1, <1>2, <2>2
    <3>. QED BY <2>2, <3>1, PileFinite DEF In
  <2>. QED BY <2>1, <2>2
<1>5. Cardinality(Pile(d, S)) = Cardinality(Pile(e, S)) + In(t, S)
  <2>1. CASE t \in Point
    BY <1>1, <1>3, <2>1, PileGrows
  <2>2. CASE t \notin Point
    <3>1. d = e
      BY <1>1, <1>3, <2>2
    <3>. QED BY <2>2, <3>1, PileFinite DEF In
  <2>. QED BY <2>1, <2>2
<1>6. Cardinality(Pile(e, S)) \in Nat /\ In(s, S) \in Nat /\ In(t, S) \in Nat
  BY <1>1, PileFinite DEF In
<1>. QED BY <1>4, <1>5, <1>6

(* The checkers that stand on one point.                                   *)
LEMMA Column ==
  ASSUME NEW y, NEW n \in Nat
  PROVE  Cardinality({y} \X (1..n)) = n
<1>1. IsFiniteSet({y}) /\ Cardinality({y}) = 1
  BY FS_Singleton
<1>2. IsFiniteSet(1..n) /\ Cardinality(1..n) = n
  BY FS_Interval
<1>3. Cardinality({y} \X (1..n)) = 1 * n
  BY <1>1, <1>2, FS_Product
<1>. QED BY <1>3

LEMMA PileHolds ==
  ASSUME NEW M \in Nat, NEW c \in [Point -> 0..M], NEW S \in SUBSET Point, NEW y \in S
  PROVE  c[y] <= Cardinality(Pile(c, S))
<1>1. Cardinality({y} \X (1..c[y])) = c[y]
  <2>1. c[y] \in Nat
    OBVIOUS
  <2>. QED BY <2>1, Column
<1>2. {y} \X (1..c[y]) \subseteq Pile(c, S)
  BY DEF Pile
<1>. QED BY <1>1, <1>2, PileFinite, FS_Subset

LEMMA OnePile ==
  ASSUME NEW M \in Nat, NEW c \in [Point -> 0..M], NEW y \in Point,
         \A x \in Point : x # y => c[x] = 0
  PROVE  Cardinality(Pile(c, Point)) = c[y]
<1>1. Cardinality({y} \X (1..c[y])) = c[y]
  <2>1. c[y] \in Nat
    OBVIOUS
  <2>. QED BY <2>1, Column
<1>2. Pile(c, Point) = {y} \X (1..c[y])
  <2>1. \A e : e \in Pile(c, Point) => e \in {y} \X (1..c[y])
    BY PileElements
  <2>2. {y} \X (1..c[y]) \subseteq Pile(c, Point)
    BY DEF Pile
  <2>. QED BY <2>1, <2>2
<1>. QED BY <1>1, <1>2

LEMMA CheckersArePiles ==
  ASSUME NEW b, NEW p, NEW S \in SUBSET Point
  PROVE  CheckersOn(b, p, S) = Pile(Tally(b, p), S)
BY DEF CheckersOn, Pile, Tally

(***************************************************************************)
(* Single moves                                                            *)
(***************************************************************************)

Hit(b, p, t) == ~Long /\ t \in Point /\ CountAt(b, opponent(p), t) = 1

(* The board c is b after a checker of p went from s, or from the bar, to  *)
(* t, or off the board.                                                    *)
Moved(b, c, p, s, t) ==
  LET q == opponent(p)
  IN  /\ c \in AnyBoard
      /\ \A x \in Point :
           /\ CountAt(c, p, x) = CountAt(b, p, x) - (IF x = s THEN 1 ELSE 0)
                                                  + (IF x = t THEN 1 ELSE 0)
           /\ CountAt(c, q, x) = IF x = t /\ Hit(b, p, t) THEN 0 ELSE CountAt(b, q, x)
      /\ c.bar[p] = b.bar[p] - (IF s = BAR THEN 1 ELSE 0)
      /\ c.bar[q] = b.bar[q] + (IF Hit(b, p, t) THEN 1 ELSE 0)
      /\ c.off[p] = b.off[p] + (IF t = OFF THEN 1 ELSE 0)
      /\ c.off[q] = b.off[q]

(* What a move must be like for a player to make it.                       *)
CanMove(b, p, s, t) ==
  /\ s \in Point \cup {BAR} /\ t \in Point \cup {OFF}
  /\ s # t
  /\ s = BAR => ~Long /\ b.bar[p] > 0
  /\ s # BAR => Owns(b, p, s)
  /\ t # OFF => canLandOn(b, p, t)

LEMMA SamePoints ==
  ASSUME NEW b, NEW c, b.points = c.points
  PROVE  \A p \in Player, x \in Point : CountAt(c, p, x) = CountAt(b, p, x)
BY DEF CountAt, Owns

LEMMA ApplyMove ==
  ASSUME NEW b \in AnyBoard, NEW p \in Player, NEW m \in Move, CanMove(b, p, m.from, m.to)
  PROVE  Moved(b, applyMove(b, p, m), p, m.from, m.to)
<1>. DEFINE q == opponent(p)
            s == m.from
            t == m.to
            l == IF ~Long /\ t # OFF /\ isBlot(b, p, t) THEN hitBlot(b, p, t) ELSE b
            c == applyMove(b, p, m)
<1>0. 0 \notin Point
  BY DEF Point
<1>1. q \in Player /\ q # p
  BY Opponents
<1>2. /\ s \in Point \cup {BAR} /\ t \in Point \cup {OFF} /\ s # t
      /\ s # BAR => Owns(b, p, s)
      /\ t # OFF => canLandOn(b, p, t)
  BY DEF CanMove
<1>3. /\ l \in AnyBoard
      /\ l.off = b.off
      /\ l.bar[p] = b.bar[p]
      /\ l.bar[q] = b.bar[q] + (IF Hit(b, p, t) THEN 1 ELSE 0)
      /\ \A x \in Point : /\ CountAt(l, p, x) = CountAt(b, p, x)
                          /\ CountAt(l, q, x) = IF x = t /\ Hit(b, p, t) THEN 0
                                                ELSE CountAt(b, q, x)
  <2>0. b.bar[p] \in Int /\ b.bar[q] \in Int /\ b.bar \in [Player -> Int]
    BY <1>1 DEF AnyBoard
  <2>1. CASE ~Long /\ t # OFF /\ isBlot(b, p, t)
    <3>1. t \in Point /\ Hit(b, p, t)
      BY <1>2, <2>1 DEF Hit, isBlot
    <3>2. l = hitBlot(b, p, t)
      BY <2>1
    <3>. HIDE DEF l, t
    <3>3. /\ l \in AnyBoard /\ l.off = b.off
          /\ l.bar = [b.bar EXCEPT ![q] = @ + 1]
          /\ \A x \in Point : /\ CountAt(l, p, x) = CountAt(b, p, x)
                              /\ CountAt(l, q, x) = IF x = t THEN 0 ELSE CountAt(b, q, x)
      BY <2>1, <3>1, <3>2, Hitting
    <3>4. l.bar[p] = b.bar[p] /\ l.bar[q] = b.bar[q] + 1
      BY <1>1, <2>0, <3>3
    <3>. QED BY <3>1, <3>3, <3>4
  <2>2. CASE ~(~Long /\ t # OFF /\ isBlot(b, p, t))
    <3>1. ~Hit(b, p, t)
      BY <1>0, <2>2 DEF Hit, isBlot, OFF
    <3>2. l = b
      BY <2>2
    <3>. QED BY <2>0, <3>1, <3>2
  <2>. QED BY <2>1, <2>2
<1>4. t \in Point => CountAt(l, q, t) = 0
  <2>1. HAVE t \in Point
  <2>2. CountAt(b, q, t) \in Nat
    BY <1>1, <2>1, Counts
  <2>3. CountAt(b, q, t) <= IF Long THEN 0 ELSE 1
    BY <1>0, <1>2, <2>1 DEF canLandOn, OFF
  <2>4. CountAt(b, q, t) = 0 \/ Hit(b, p, t)
    BY <2>1, <2>2, <2>3 DEF Hit
  <2>. QED BY <1>3, <2>1, <2>4
<1>5. s \in Point => Owns(l, p, s)
  <2>1. HAVE s \in Point
  <2>2. CountAt(b, p, s) > 0
    BY <1>0, <1>2, <2>1, Counts DEF BAR
  <2>3. CountAt(l, p, s) > 0
    BY <1>3, <2>1, <2>2
  <2>. QED BY <1>3, <2>1, <2>3, Counts
<1>6. c = IF s = BAR THEN enterFromBar(l, p, t)
          ELSE IF t = OFF THEN bearOff(l, p, s)
          ELSE addChecker(removeChecker(l, p, s), p, t)
  BY DEF applyMove
<1>. HIDE DEF l, c, s, t, q
<1>7. CASE s = BAR
  <2>1. t \in Point /\ s \notin Point
    BY <1>0, <1>2, <1>7 DEF BAR, OFF
  <2>. DEFINE a == addChecker(l, p, t)
  <2>2. /\ a \in AnyBoard /\ a.bar = l.bar /\ a.off = l.off
        /\ \A x \in Point :
             /\ CountAt(a, p, x) = CountAt(l, p, x) + (IF x = t THEN 1 ELSE 0)
             /\ CountAt(a, q, x) = CountAt(l, q, x)
    BY <1>3, <1>4, <2>1, Adding DEF q
  <2>. HIDE DEF a
  <2>3. c = [a EXCEPT !.bar[p] = @ - 1]
    BY <1>6, <1>7 DEF enterFromBar, a
  <2>4. /\ c \in AnyBoard /\ c.points = a.points /\ c.off = a.off
        /\ c.bar[p] = a.bar[p] - 1 /\ c.bar[q] = a.bar[q]
    BY <1>1, <2>2, <2>3 DEF AnyBoard
  <2>5. \A x \in Point : CountAt(c, p, x) = CountAt(a, p, x) /\ CountAt(c, q, x) = CountAt(a, q, x)
    BY <1>1, <2>4, SamePoints
  <2>6. t # OFF
    BY <1>0, <2>1 DEF OFF
  <2>7. b.off[p] \in Int /\ b.off[q] \in Int
    BY <1>1 DEF AnyBoard
  <2>8. \A x \in Point : CountAt(b, p, x) \in Nat
    BY Counts
  <2>9. \A x \in Point : CountAt(c, p, x) = CountAt(b, p, x) - (IF x = s THEN 1 ELSE 0)
                                                  + (IF x = t THEN 1 ELSE 0)
    BY <1>3, <2>1, <2>2, <2>5, <2>8
  <2>. QED BY <1>3, <1>7, <2>2, <2>4, <2>5, <2>6, <2>7, <2>9 DEF Moved, q, s, t, c
<1>8. CASE s # BAR
  <2>1. s \in Point
    BY <1>2, <1>8
  <2>. DEFINE r == removeChecker(l, p, s)
  <2>2. /\ r \in AnyBoard /\ r.bar = l.bar /\ r.off = l.off
        /\ \A x \in Point :
             /\ CountAt(r, p, x) = CountAt(l, p, x) - (IF x = s THEN 1 ELSE 0)
             /\ CountAt(r, q, x) = CountAt(l, q, x)
    BY <1>3, <1>5, <2>1, Removing DEF q
  <2>. HIDE DEF r
  <2>3. b.off[p] \in Int /\ b.off[q] \in Int /\ b.bar[p] \in Int
    BY <1>1 DEF AnyBoard
  <2>4. \A x \in Point : CountAt(b, p, x) \in Nat
    BY Counts
  <2>5. CASE t = OFF
    <3>1. c = [r EXCEPT !.off[p] = @ + 1]
      BY <1>6, <1>8, <2>5 DEF bearOff, r
    <3>2. /\ c \in AnyBoard /\ c.points = r.points /\ c.bar = r.bar
          /\ c.off[p] = r.off[p] + 1 /\ c.off[q] = r.off[q]
      BY <1>1, <2>2, <3>1 DEF AnyBoard
    <3>3. \A x \in Point : CountAt(c, p, x) = CountAt(r, p, x) /\ CountAt(c, q, x) = CountAt(r, q, x)
      BY <1>1, <3>2, SamePoints
    <3>4. t \notin Point
      BY <1>0, <2>5 DEF OFF
    <3>5. \A x \in Point : CountAt(c, p, x) = CountAt(b, p, x) - (IF x = s THEN 1 ELSE 0)
                                                  + (IF x = t THEN 1 ELSE 0)
      BY <1>3, <2>2, <2>4, <3>3, <3>4
    <3>. QED BY <1>3, <1>8, <2>2, <2>3, <2>5, <3>2, <3>3, <3>5 DEF Moved, q, s, t, c
  <2>6. CASE t # OFF
    <3>1. t \in Point
      BY <1>2, <2>6
    <3>2. c = addChecker(r, p, t)
      BY <1>6, <1>8, <2>6 DEF r
    <3>3. /\ c \in AnyBoard /\ c.bar = r.bar /\ c.off = r.off
          /\ \A x \in Point :
               /\ CountAt(c, p, x) = CountAt(r, p, x) + (IF x = t THEN 1 ELSE 0)
               /\ CountAt(c, q, x) = CountAt(r, q, x)
      BY <1>4, <2>2, <3>1, <3>2, Adding DEF q
    <3>4. \A x \in Point : CountAt(c, p, x) = CountAt(b, p, x) - (IF x = s THEN 1 ELSE 0)
                                                  + (IF x = t THEN 1 ELSE 0)
      BY <1>3, <2>2, <2>4, <3>3
    <3>. QED BY <1>3, <1>8, <2>2, <2>3, <2>6, <3>3, <3>4 DEF Moved, q, s, t, c
  <2>. QED BY <2>5, <2>6
<1>. QED BY <1>7, <1>8

(* Every generated move can be made and brings a checker nearer.           *)
FromPip(p, m) == IF m.from = BAR THEN BAR_PIP ELSE Pip(p, m.from)
ToPip(p, m) == IF m.to = OFF THEN 0 ELSE Pip(p, m.to)

LEMMA GeneratedMoves ==
  ASSUME NEW b \in AnyBoard, NEW p \in Player, NEW d \in Die, NEW m \in SingleMoves(b, p, d)
  PROVE  /\ m \in Move /\ m.die = d
         /\ CanMove(b, p, m.from, m.to)
         /\ ~Throws(b, p, m)
         /\ ToPip(p, m) < FromPip(p, m)
<1>0. 0 \notin Point /\ d \in Nat /\ d > 0 /\ d <= POINT_COUNT /\ POINT_COUNT \in Nat
  BY Sizes DEF Point, Die
<1>1. \/ m \in Steps(b, p, d) \cup BearOffs(b, p, d)
      \/ ~Long /\ b.bar[p] > 0 /\ m \in Entries(b, p, d)
  BY DEF SingleMoves, generateSingleMoves, generateSingleMovesLong
<1>2. CASE m \in Steps(b, p, d)
  <2>1. PICK x \in Owned(b, p) :
          /\ Pip(p, x) > d /\ canLandOn(b, p, PointAt(p, Pip(p, x) - d))
          /\ m = [from |-> x, to |-> PointAt(p, Pip(p, x) - d), die |-> d]
    BY <1>2 DEF Steps
  <2>2. x \in Point /\ Owns(b, p, x)
    BY DEF Owned
  <2>3. Pip(p, x) \in Point
    BY <2>2, PipAndBack
  <2>4. Pip(p, x) - d \in Point
    BY <1>0, <2>1, <2>3 DEF Point
  <2>5. /\ PointAt(p, Pip(p, x) - d) \in Point
        /\ Pip(p, PointAt(p, Pip(p, x) - d)) = Pip(p, x) - d
    BY <2>4, PipAndBack
  <2>6. Pip(p, x) - d < Pip(p, x)
    BY <1>0, <2>3 DEF Point
  <2>7. PointAt(p, Pip(p, x) - d) # x
    <3>1. Pip(p, x) \in Int /\ Pip(p, x) - d # Pip(p, x)
      BY <1>0, <2>3 DEF Point
    <3>. QED BY <2>5, <3>1
  <2>. QED BY <1>0, <2>1, <2>2, <2>5, <2>6, <2>7
         DEF Move, CanMove, Throws, ToPip, FromPip, BAR, OFF
<1>3. CASE m \in BearOffs(b, p, d)
  <2>1. PICK x \in Owned(b, p) : m = [from |-> x, to |-> OFF, die |-> d]
    BY <1>3 DEF BearOffs
  <2>2. x \in Point /\ Owns(b, p, x)
    BY DEF Owned
  <2>3. Pip(p, x) \in Point
    BY <2>2, PipAndBack
  <2>4. 0 < Pip(p, x)
    BY <2>3 DEF Point
  <2>. QED BY <1>0, <2>1, <2>2, <2>4
         DEF Move, CanMove, Throws, ToPip, FromPip, BAR, OFF
<1>4. CASE ~Long /\ b.bar[p] > 0 /\ m \in Entries(b, p, d)
  <2>1. /\ m = [from |-> BAR, to |-> entryPoint(p, d), die |-> d]
        /\ canLandOn(b, p, entryPoint(p, d))
    BY <1>4 DEF Entries
  <2>2. entryPoint(p, d) \in Point /\ Pip(p, entryPoint(p, d)) = BAR_PIP - d
    BY <1>4, EntryPip
  <2>3. BAR_PIP - d < BAR_PIP
    BY <1>0 DEF BAR_PIP
  <2>4. b.bar[p] # 0
    BY <1>4 DEF AnyBoard
  <2>. QED BY <1>0, <1>4, <2>1, <2>2, <2>3, <2>4
         DEF Move, CanMove, Throws, ToPip, FromPip, BAR, OFF
<1>. QED BY <1>1, <1>2, <1>3, <1>4

(***************************************************************************)
(* A move keeps a sound board sound and goes forward                       *)
(***************************************************************************)

(* A board that holds all the checkers of both sides.                      *)
Sound(b) == b \in Board /\ \A p \in Player : totalCheckers(b, p) = CHECKERS_PER_PLAYER

LEMMA Tallies ==
  ASSUME NEW b \in Board, NEW p \in Player
  PROVE  Tally(b, p) \in [Point -> 0..CHECKERS_PER_PLAYER]
<1>1. ASSUME NEW x \in Point PROVE CountAt(b, p, x) \in 0..CHECKERS_PER_PLAYER
  <2>1. b.points[x] \in -CHECKERS_PER_PLAYER..CHECKERS_PER_PLAYER /\ CHECKERS_PER_PLAYER \in Nat
    BY Sizes DEF Board
  <2>. QED BY <2>1 DEF CountAt, Owns, Sign, Player
<1>. QED BY <1>1 DEF Tally

LEMMA Totals ==
  ASSUME NEW b \in AnyBoard, NEW M \in Nat, NEW p \in Player, Tally(b, p) \in [Point -> 0..M]
  PROVE  /\ totalCheckers(b, p) = Cardinality(Pile(Tally(b, p), Point)) + b.bar[p] + b.off[p]
         /\ Cardinality(Pile(Tally(b, p), Point)) \in Nat
         /\ \A x \in Point : CountAt(b, p, x) <= Cardinality(Pile(Tally(b, p), Point))
<1>1. \A x \in Point : Tally(b, p)[x] = CountAt(b, p, x)
  BY DEF Tally
<1>. QED BY <1>1, CheckersArePiles, PileFinite, PileHolds DEF totalCheckers

(* Nothing more than totals is needed for a board to be well-typed.        *)
LEMMA TotalsBound ==
  ASSUME NEW b \in AnyBoard, NEW M \in Nat,
         \A p \in Player : /\ Tally(b, p) \in [Point -> 0..M]
                           /\ totalCheckers(b, p) = CHECKERS_PER_PLAYER
                           /\ b.bar[p] \in Nat /\ b.off[p] \in Nat
  PROVE  Sound(b)
<1>0. CHECKERS_PER_PLAYER \in Nat
  BY Sizes
<1>1. ASSUME NEW p \in Player
      PROVE  /\ b.bar[p] \in 0..CHECKERS_PER_PLAYER /\ b.off[p] \in 0..CHECKERS_PER_PLAYER
             /\ \A x \in Point : CountAt(b, p, x) \in 0..CHECKERS_PER_PLAYER
  <2>1. /\ Cardinality(Pile(Tally(b, p), Point)) + b.bar[p] + b.off[p] = CHECKERS_PER_PLAYER
        /\ Cardinality(Pile(Tally(b, p), Point)) \in Nat
        /\ \A x \in Point : CountAt(b, p, x) <= Cardinality(Pile(Tally(b, p), Point))
    BY Totals
  <2>2. b.bar[p] \in Nat /\ b.off[p] \in Nat /\ \A x \in Point : CountAt(b, p, x) \in Nat
    BY Counts
  <2>. QED BY <1>0, <2>1, <2>2
<1>2. ASSUME NEW x \in Point
      PROVE  b.points[x] \in -CHECKERS_PER_PLAYER..CHECKERS_PER_PLAYER
  <2>1. /\ CountAt(b, "White", x) \in 0..CHECKERS_PER_PLAYER
        /\ CountAt(b, "Black", x) \in 0..CHECKERS_PER_PLAYER
    BY <1>1 DEF Player
  <2>. QED BY <1>0, <2>1, PointsFromCounts
<1>3. /\ b.points \in [Point -> -CHECKERS_PER_PLAYER..CHECKERS_PER_PLAYER]
      /\ b.bar \in [Player -> 0..CHECKERS_PER_PLAYER]
      /\ b.off \in [Player -> 0..CHECKERS_PER_PLAYER]
  BY <1>1, <1>2 DEF AnyBoard
<1>4. b = [points |-> b.points, bar |-> b.bar, off |-> b.off]
  BY DEF AnyBoard
<1>5. b \in Board
  BY <1>3, <1>4 DEF Board
<1>. QED BY <1>5 DEF Sound

LEMMA MovedTallies ==
  ASSUME NEW b, Sound(b), NEW p \in Player, NEW s, NEW t, NEW c,
         CanMove(b, p, s, t), Moved(b, c, p, s, t)
  PROVE  /\ \A a \in Player : /\ Tally(b, a) \in [Point -> 0..(CHECKERS_PER_PLAYER + 1)]
                              /\ Tally(c, a) \in [Point -> 0..(CHECKERS_PER_PLAYER + 1)]
         /\ \A S \in SUBSET Point :
              /\ Cardinality(Pile(Tally(c, p), S)) + In(s, S)
                   = Cardinality(Pile(Tally(b, p), S)) + In(t, S)
              /\ Cardinality(Pile(Tally(c, opponent(p)), S))
                   + (IF Hit(b, p, t) THEN In(t, S) ELSE 0)
                   = Cardinality(Pile(Tally(b, opponent(p)), S))
<1>. DEFINE M == CHECKERS_PER_PLAYER + 1
            q == opponent(p)
<1>0. M \in Nat /\ CHECKERS_PER_PLAYER \in Nat /\ b \in Board /\ b \in AnyBoard /\ c \in AnyBoard
  BY Sizes, BoardsAreAny DEF Sound, Moved
<1>1. q \in Player /\ q # p /\ Player = {p, q}
  BY Opponents
<1>2. \A a \in Player, x \in Point : CountAt(b, a, x) \in 0..CHECKERS_PER_PLAYER
  BY <1>0, Tallies DEF Tally
<1>3. s \in Point => CountAt(b, p, s) > 0
  <2>1. 0 \notin Point
    BY DEF Point
  <2>. QED BY <1>0, <2>1, Counts DEF CanMove, BAR
<1>4. \A x \in Point : /\ CountAt(c, p, x) = CountAt(b, p, x) - (IF x = s THEN 1 ELSE 0)
                                                  + (IF x = t THEN 1 ELSE 0)
                       /\ CountAt(c, q, x) = IF x = t /\ Hit(b, p, t) THEN 0 ELSE CountAt(b, q, x)
  BY DEF Moved
<1>5. ASSUME NEW x \in Point
      PROVE  CountAt(c, p, x) \in 0..M /\ CountAt(c, q, x) \in 0..M
  <2>1. CountAt(b, p, x) \in 0..CHECKERS_PER_PLAYER /\ CountAt(b, q, x) \in 0..CHECKERS_PER_PLAYER
    BY <1>1, <1>2
  <2>2. CountAt(c, p, x) \in 0..M
    <3>1. x = s => CountAt(b, p, x) > 0
      BY <1>3
    <3>. QED BY <1>0, <1>4, <2>1, <3>1
  <2>3. CountAt(c, q, x) \in 0..M
    BY <1>0, <1>4, <2>1
  <2>. QED BY <2>2, <2>3
<1>6. \A a \in Player, x \in Point : CountAt(b, a, x) \in 0..M
  BY <1>0, <1>2
<1>7. /\ Tally(b, p) \in [Point -> 0..M] /\ Tally(b, q) \in [Point -> 0..M]
      /\ Tally(c, p) \in [Point -> 0..M] /\ Tally(c, q) \in [Point -> 0..M]
  BY <1>1, <1>5, <1>6 DEF Tally
<1>8. ASSUME NEW S \in SUBSET Point
      PROVE  Cardinality(Pile(Tally(c, p), S)) + In(s, S)
               = Cardinality(Pile(Tally(b, p), S)) + In(t, S)
  <2>1. \A x \in Point : Tally(c, p)[x] = Tally(b, p)[x] - (IF x = s THEN 1 ELSE 0)
                                                  + (IF x = t THEN 1 ELSE 0)
    BY <1>4 DEF Tally
  <2>2. s \in Point => Tally(b, p)[s] > 0
    BY <1>3 DEF Tally
  <2>. QED BY <1>0, <1>7, <2>1, <2>2, PileShifts
<1>9. ASSUME NEW S \in SUBSET Point
      PROVE  Cardinality(Pile(Tally(c, q), S)) + (IF Hit(b, p, t) THEN In(t, S) ELSE 0)
               = Cardinality(Pile(Tally(b, q), S))
  <2>1. CASE Hit(b, p, t)
    <3>1. t \in Point /\ CountAt(b, q, t) = 1
      BY <2>1 DEF Hit
    <3>2. 0 \notin Point
      BY DEF Point
    <3>3. \A x \in Point : CountAt(c, q, x) = CountAt(b, q, x) - (IF x = t THEN 1 ELSE 0)
                                                  + (IF x = 0 THEN 1 ELSE 0)
      BY <1>1, <1>2, <1>4, <2>1, <3>1, <3>2
    <3>4. \A x \in Point : Tally(c, q)[x] = Tally(b, q)[x] - (IF x = t THEN 1 ELSE 0)
                                                  + (IF x = 0 THEN 1 ELSE 0)
      BY <3>3 DEF Tally
    <3>5. Tally(b, q)[t] > 0
      BY <3>1 DEF Tally
    <3>6. Cardinality(Pile(Tally(c, q), S)) + In(t, S)
            = Cardinality(Pile(Tally(b, q), S)) + In(0, S)
      <4>. DEFINE f == Tally(b, q)
                  g == Tally(c, q)
                  top == M
      <4>1. top \in Nat /\ f \in [Point -> 0..top] /\ g \in [Point -> 0..top]
        BY <1>0, <1>7
      <4>2. \A x \in Point : g[x] = f[x] - (IF x = t THEN 1 ELSE 0) + (IF x = 0 THEN 1 ELSE 0)
        BY <3>4
      <4>3. t \in Point => f[t] > 0
        BY <3>5
      <4>. HIDE DEF f, g, top
      <4>4. Cardinality(Pile(g, S)) + In(t, S) = Cardinality(Pile(f, S)) + In(0, S)
        BY <4>1, <4>2, <4>3, PileShifts
      <4>. QED BY <4>4 DEF f, g
    <3>7. In(0, S) = 0
      BY <3>2 DEF In
    <3>8. Cardinality(Pile(Tally(b, q), S)) \in Nat
      BY <1>0, <1>7, PileFinite
    <3>. QED BY <2>1, <3>6, <3>7, <3>8
  <2>2. CASE ~Hit(b, p, t)
    <3>1. Tally(c, q) = Tally(b, q)
      BY <1>4, <2>2 DEF Tally
    <3>2. Cardinality(Pile(Tally(b, q), S)) \in Nat
      BY <1>0, <1>7, PileFinite
    <3>. QED BY <2>2, <3>1, <3>2
  <2>. QED BY <2>1, <2>2
<1>. QED BY <1>1, <1>7, <1>8, <1>9

LEMMA MoveKeepsSound ==
  ASSUME NEW b, Sound(b), NEW p \in Player, NEW s, NEW t, NEW c,
         CanMove(b, p, s, t), Moved(b, c, p, s, t)
  PROVE  Sound(c)
<1>. DEFINE M == CHECKERS_PER_PLAYER + 1
            q == opponent(p)
<1>0. M \in Nat /\ CHECKERS_PER_PLAYER \in Nat /\ b \in Board /\ b \in AnyBoard /\ c \in AnyBoard
  BY Sizes, BoardsAreAny DEF Sound, Moved
<1>1. q \in Player /\ q # p /\ Player = {p, q}
  BY Opponents
<1>2. \A a \in Player : Tally(b, a) \in [Point -> 0..M] /\ Tally(c, a) \in [Point -> 0..M]
  BY MovedTallies
<1>3. \A a \in Player :
        /\ totalCheckers(b, a) = Cardinality(Pile(Tally(b, a), Point)) + b.bar[a] + b.off[a]
        /\ totalCheckers(c, a) = Cardinality(Pile(Tally(c, a), Point)) + c.bar[a] + c.off[a]
        /\ Cardinality(Pile(Tally(b, a), Point)) \in Nat
        /\ Cardinality(Pile(Tally(c, a), Point)) \in Nat
        /\ totalCheckers(b, a) = CHECKERS_PER_PLAYER
        /\ b.bar[a] \in Nat /\ b.off[a] \in Nat
  <2>1. \A a \in Player : b.bar[a] \in Nat /\ b.off[a] \in Nat
    BY <1>0 DEF Board
  <2>. QED BY <1>0, <1>2, <2>1, Totals DEF Sound
<1>4. 0 \notin Point
  BY DEF Point
<1>5. /\ totalCheckers(c, p) = CHECKERS_PER_PLAYER
      /\ c.bar[p] \in Nat /\ c.off[p] \in Nat
  <2>1. Cardinality(Pile(Tally(c, p), Point)) + In(s, Point)
          = Cardinality(Pile(Tally(b, p), Point)) + In(t, Point)
    BY MovedTallies
  <2>2. In(s, Point) = (IF s = BAR THEN 0 ELSE 1) /\ In(t, Point) = (IF t = OFF THEN 0 ELSE 1)
    BY <1>4 DEF In, CanMove, BAR, OFF
  <2>3. /\ c.bar[p] = b.bar[p] - (IF s = BAR THEN 1 ELSE 0)
        /\ c.off[p] = b.off[p] + (IF t = OFF THEN 1 ELSE 0)
        /\ s = BAR => b.bar[p] > 0
    BY DEF Moved, CanMove
  <2>4. /\ totalCheckers(c, p) = Cardinality(Pile(Tally(c, p), Point)) + c.bar[p] + c.off[p]
        /\ CHECKERS_PER_PLAYER = Cardinality(Pile(Tally(b, p), Point)) + b.bar[p] + b.off[p]
        /\ Cardinality(Pile(Tally(b, p), Point)) \in Nat
        /\ Cardinality(Pile(Tally(c, p), Point)) \in Nat
        /\ b.bar[p] \in Nat /\ b.off[p] \in Nat
    BY <1>3
  <2>. QED BY <2>1, <2>2, <2>3, <2>4
<1>6. /\ totalCheckers(c, q) = CHECKERS_PER_PLAYER
      /\ c.bar[q] \in Nat /\ c.off[q] \in Nat
  <2>1. Cardinality(Pile(Tally(c, q), Point)) + (IF Hit(b, p, t) THEN In(t, Point) ELSE 0)
          = Cardinality(Pile(Tally(b, q), Point))
    BY MovedTallies
  <2>2. Hit(b, p, t) => In(t, Point) = 1
    BY DEF In, Hit
  <2>3. /\ c.bar[q] = b.bar[q] + (IF Hit(b, p, t) THEN 1 ELSE 0)
        /\ c.off[q] = b.off[q]
    BY DEF Moved
  <2>4. /\ totalCheckers(c, q) = Cardinality(Pile(Tally(c, q), Point)) + c.bar[q] + c.off[q]
        /\ CHECKERS_PER_PLAYER = Cardinality(Pile(Tally(b, q), Point)) + b.bar[q] + b.off[q]
        /\ Cardinality(Pile(Tally(b, q), Point)) \in Nat
        /\ Cardinality(Pile(Tally(c, q), Point)) \in Nat
        /\ b.bar[q] \in Nat /\ b.off[q] \in Nat
    BY <1>1, <1>3
  <2>. QED BY <2>1, <2>2, <2>3, <2>4
<1>. QED BY <1>0, <1>1, <1>2, <1>5, <1>6, TotalsBound

(* The checkers of p that have so many pips to go, counted point by point. *)
Far(p, k) == {x \in Point : Pip(p, x) >= k}

LEMMA BehindIs ==
  ASSUME NEW b, Sound(b), NEW p \in Player, NEW k
  PROVE  /\ Behind(b, p, k) = Cardinality(Pile(Tally(b, p), Far(p, k))) + b.bar[p]
         /\ Behind(b, p, k) \in Nat
<1>1. Far(p, k) \in SUBSET Point
  BY DEF Far
<1>2. b.bar[p] \in Nat /\ Tally(b, p) \in [Point -> 0..CHECKERS_PER_PLAYER]
        /\ CHECKERS_PER_PLAYER \in Nat
  BY Tallies, Sizes DEF Sound, Board
<1>3. Cardinality(Pile(Tally(b, p), Far(p, k))) \in Nat
  BY <1>1, <1>2, PileFinite
<1>4. CheckersOn(b, p, Far(p, k)) = Pile(Tally(b, p), Far(p, k))
  BY <1>1, CheckersArePiles
<1>. QED BY <1>2, <1>3, <1>4 DEF Behind, Far

LEMMA MoveGoesForward ==
  ASSUME NEW b, Sound(b), NEW p \in Player, NEW m \in Move, NEW c, Sound(c),
         CanMove(b, p, m.from, m.to), Moved(b, c, p, m.from, m.to), NEW k \in 1..BAR_PIP
  PROVE  /\ Behind(c, p, k) + (IF FromPip(p, m) >= k THEN 1 ELSE 0)
              = Behind(b, p, k) + (IF ToPip(p, m) >= k THEN 1 ELSE 0)
         /\ Behind(c, opponent(p), k) >= Behind(b, opponent(p), k)
<1>. DEFINE q == opponent(p)
            s == m.from
            t == m.to
<1>0. 0 \notin Point /\ q \in Player /\ k \in Nat /\ k > 0 /\ k <= BAR_PIP
  BY Opponents, Sizes DEF Point, BAR_PIP
<1>1. s \in Point \cup {BAR} /\ t \in Point \cup {OFF}
  BY DEF CanMove
<1>2. In(s, Far(p, k)) = (IF s # BAR /\ FromPip(p, m) >= k THEN 1 ELSE 0)
  BY <1>0, <1>1 DEF In, Far, FromPip, BAR
<1>3. In(t, Far(p, k)) = (IF ToPip(p, m) >= k THEN 1 ELSE 0)
  BY <1>0, <1>1 DEF In, Far, ToPip, OFF
<1>4. s = BAR => FromPip(p, m) >= k
  BY <1>0, Sizes DEF FromPip, BAR_PIP
<1>5. /\ Cardinality(Pile(Tally(c, p), Far(p, k))) + In(s, Far(p, k))
           = Cardinality(Pile(Tally(b, p), Far(p, k))) + In(t, Far(p, k))
      /\ Cardinality(Pile(Tally(c, q), Far(q, k))) + (IF Hit(b, p, t) THEN In(t, Far(q, k)) ELSE 0)
           = Cardinality(Pile(Tally(b, q), Far(q, k)))
  <2>1. Far(p, k) \in SUBSET Point /\ Far(q, k) \in SUBSET Point
    BY DEF Far
  <2>. QED BY <2>1, MovedTallies
<1>6. /\ Behind(b, p, k) = Cardinality(Pile(Tally(b, p), Far(p, k))) + b.bar[p]
      /\ Behind(c, p, k) = Cardinality(Pile(Tally(c, p), Far(p, k))) + c.bar[p]
      /\ Behind(b, q, k) = Cardinality(Pile(Tally(b, q), Far(q, k))) + b.bar[q]
      /\ Behind(c, q, k) = Cardinality(Pile(Tally(c, q), Far(q, k))) + c.bar[q]
  BY <1>0, BehindIs
<1>7. /\ c.bar[p] = b.bar[p] - (IF s = BAR THEN 1 ELSE 0)
      /\ c.bar[q] = b.bar[q] + (IF Hit(b, p, t) THEN 1 ELSE 0)
  BY DEF Moved
<1>8. ASSUME NEW a \in Player
      PROVE  /\ Cardinality(Pile(Tally(b, a), Far(a, k))) \in Nat
             /\ Cardinality(Pile(Tally(c, a), Far(a, k))) \in Nat
             /\ b.bar[a] \in Nat /\ c.bar[a] \in Nat
  <2>1. Far(a, k) \in SUBSET Point
    BY DEF Far
  <2>2. Tally(b, a) \in [Point -> 0..CHECKERS_PER_PLAYER]
    BY Tallies DEF Sound
  <2>3. Tally(c, a) \in [Point -> 0..CHECKERS_PER_PLAYER]
    BY Tallies DEF Sound
  <2>. QED BY <2>1, <2>2, <2>3, PileFinite, Sizes DEF Sound, Board
<1>9. Behind(c, p, k) + (IF FromPip(p, m) >= k THEN 1 ELSE 0)
        = Behind(b, p, k) + (IF ToPip(p, m) >= k THEN 1 ELSE 0)
  BY <1>2, <1>3, <1>4, <1>5, <1>6, <1>7, <1>8
<1>10. Behind(c, q, k) >= Behind(b, q, k)
  <2>1. In(t, Far(q, k)) \in 0..1
    BY DEF In
  <2>. QED BY <1>0, <1>5, <1>6, <1>7, <1>8, <2>1
<1>. QED BY <1>9, <1>10

(***************************************************************************)
(* Lines of play                                                           *)
(***************************************************************************)

(* What p's moves can have made of the board b.                            *)
Reached(b, c, p) ==
  LET q == opponent(p)
  IN  /\ c.off[q] = b.off[q]
      /\ c.bar[q] >= b.bar[q]
      /\ \A k \in 1..BAR_PIP : Behind(c, p, k) <= Behind(b, p, k)
      /\ \A k \in 1..BAR_PIP : Behind(c, q, k) >= Behind(b, q, k)
      /\ Long \/ c.bar[q] = b.bar[q] =>
           \A x \in Point : CountAt(c, q, x) = CountAt(b, q, x)

Nearer(b, c, p) == \E k \in 1..BAR_PIP : Behind(c, p, k) < Behind(b, p, k)
TakenOffHead(b, c, p) == CountAt(b, p, headPoint(p)) - CountAt(c, p, headPoint(p))

(* A line of n moves from the board b, at most h of them from the head.    *)
LineOK(l, b, p, n, h) ==
  /\ l.moves \in Seq(Move) /\ Len(l.moves) = n
  /\ Sound(l.board)
  /\ l.head \in Nat /\ l.head <= n /\ l.head <= h
  /\ Reached(b, l.board, p)
  /\ n > 0 => Nearer(b, l.board, p)
  /\ Long => TakenOffHead(b, l.board, p) <= l.head

LEMMA StartOK ==
  ASSUME NEW b, Sound(b), NEW p \in Player, NEW r \in Roll, NEW h \in Nat
  PROVE  LineOK(Start(b, r), b, p, 0, h)
<1>1. /\ Start(b, r).moves = <<>> /\ Start(b, r).board = b /\ Start(b, r).head = 0
  BY DEF Start
<1>2. Reached(b, b, p)
  <2>1. opponent(p) \in Player
    BY Opponents
  <2>2. b.bar[opponent(p)] \in Nat
    BY <2>1, Sizes DEF Sound, Board
  <2>3. \A k : Behind(b, p, k) \in Nat /\ Behind(b, opponent(p), k) \in Nat
    BY <2>1, BehindIs
  <2>. QED BY <2>2, <2>3 DEF Reached
<1>3. Long => TakenOffHead(b, b, p) <= 0
  <2>1. HAVE Long
  <2>2. CountAt(b, p, headPoint(p)) \in Nat
    BY <2>1, HeadIsFarthest, Counts, BoardsAreAny DEF Sound
  <2>. QED BY <2>2 DEF TakenOffHead
<1>. QED BY <1>1, <1>2, <1>3 DEF LineOK

LEMMA NextMove ==
  ASSUME NEW l, NEW p \in Player, NEW h, NEW m \in NextMoves(l, p, h), Sound(l.board)
  PROVE  /\ m.die \in Left(l.left) /\ m.die \in Die
         /\ m \in SingleMoves(l.board, p, m.die)
         /\ l.head + FromHead(p, m) <= h
         /\ m \in Move
         /\ CanMove(l.board, p, m.from, m.to)
         /\ ToPip(p, m) < FromPip(p, m)
<1>1. PICK d \in Left(l.left) : m \in SingleMoves(l.board, p, d)
  BY DEF NextMoves
<1>2. d \in Die
  BY DEF Left
<1>3. l.board \in AnyBoard
  BY BoardsAreAny DEF Sound
<1>4. l.head + FromHead(p, m) <= h
  BY DEF NextMoves
<1>. QED BY <1>1, <1>2, <1>3, <1>4, GeneratedMoves

LEMMA PipRange ==
  ASSUME NEW p \in Player, NEW m, m.from \in Point \cup {BAR}, m.to \in Point \cup {OFF}
  PROVE  FromPip(p, m) \in 1..BAR_PIP /\ ToPip(p, m) \in 0..POINT_COUNT
<1>1. \A x \in Point : Pip(p, x) \in 1..POINT_COUNT
  BY PipAndBack DEF Point
<1>2. m.from # BAR => FromPip(p, m) \in 1..POINT_COUNT
  BY <1>1 DEF FromPip
<1>3. m.to # OFF => ToPip(p, m) \in 1..POINT_COUNT
  BY <1>1 DEF ToPip
<1>4. (m.from = BAR => FromPip(p, m) = BAR_PIP) /\ (m.to = OFF => ToPip(p, m) = 0)
  BY DEF FromPip, ToPip
<1>. QED BY <1>2, <1>3, <1>4, Sizes DEF BAR_PIP

LEMMA PlayOK ==
  ASSUME NEW b, Sound(b), NEW p \in Player, NEW n \in Nat, NEW h \in Nat,
         NEW l, LineOK(l, b, p, n, h), NEW m \in NextMoves(l, p, h)
  PROVE  LineOK(Play(l, p, m), b, p, n + 1, h)
<1>. DEFINE c == applyMove(l.board, p, m)
            q == opponent(p)
<1>0. /\ l.moves \in Seq(Move) /\ Len(l.moves) = n /\ Sound(l.board)
      /\ l.head \in Nat /\ l.head <= n
      /\ Reached(b, l.board, p)
      /\ Long => TakenOffHead(b, l.board, p) <= l.head
  BY DEF LineOK
<1>1. /\ m.die \in Left(l.left) /\ m.die \in Die
      /\ l.head + FromHead(p, m) <= h
      /\ m \in Move
      /\ CanMove(l.board, p, m.from, m.to)
      /\ ToPip(p, m) < FromPip(p, m)
  BY <1>0, NextMove
<1>2. Moved(l.board, c, p, m.from, m.to)
  BY <1>0, <1>1, ApplyMove, BoardsAreAny DEF Sound
<1>3. Sound(c)
  BY <1>0, <1>1, <1>2, MoveKeepsSound
<1>4. /\ Play(l, p, m).moves = Append(l.moves, m) /\ Play(l, p, m).board = c
      /\ Play(l, p, m).head = l.head + FromHead(p, m)
  BY DEF Play
<1>. HIDE DEF c
<1>5. FromHead(p, m) \in 0..1
  BY DEF FromHead
<1>6. q \in Player /\ \A a \in Player : \A k :
       Behind(b, a, k) \in Nat /\ Behind(c, a, k) \in Nat /\ Behind(l.board, a, k) \in Nat
  BY <1>0, <1>3, BehindIs, Opponents
<1>7. ASSUME NEW k \in 1..BAR_PIP
      PROVE  /\ Behind(c, p, k) + (IF FromPip(p, m) >= k THEN 1 ELSE 0)
                  = Behind(l.board, p, k) + (IF ToPip(p, m) >= k THEN 1 ELSE 0)
             /\ Behind(c, q, k) >= Behind(l.board, q, k)
  BY <1>0, <1>1, <1>2, <1>3, MoveGoesForward
<1>8. FromPip(p, m) \in 1..BAR_PIP /\ ToPip(p, m) \in Nat /\ BAR_PIP \in Nat
  BY <1>1, PipRange, Sizes DEF CanMove, BAR_PIP
<1>9. ASSUME NEW k \in 1..BAR_PIP
      PROVE  Behind(c, p, k) <= Behind(l.board, p, k)
  <2>1. ToPip(p, m) >= k => FromPip(p, m) >= k
    BY <1>1, <1>8
  <2>2. Behind(c, p, k) \in Nat /\ Behind(l.board, p, k) \in Nat
    BY <1>6
  <2>. QED BY <1>7, <2>1, <2>2
<1>10. Behind(c, p, FromPip(p, m)) < Behind(l.board, p, FromPip(p, m))
  <2>1. ~(ToPip(p, m) >= FromPip(p, m)) /\ FromPip(p, m) >= FromPip(p, m)
    BY <1>1, <1>8
  <2>2. Behind(c, p, FromPip(p, m)) \in Nat /\ Behind(l.board, p, FromPip(p, m)) \in Nat
    BY <1>6
  <2>. QED BY <1>7, <1>8, <2>1, <2>2
<1>11. /\ c.off[q] = l.board.off[q]
       /\ c.bar[q] = l.board.bar[q] + (IF Hit(l.board, p, m.to) THEN 1 ELSE 0)
       /\ \A x \in Point :
            /\ CountAt(c, p, x) = CountAt(l.board, p, x) - (IF x = m.from THEN 1 ELSE 0)
                                                  + (IF x = m.to THEN 1 ELSE 0)
            /\ CountAt(c, q, x) = IF x = m.to /\ Hit(l.board, p, m.to) THEN 0
                                  ELSE CountAt(l.board, q, x)
  BY <1>2 DEF Moved
<1>12. b.bar[q] \in Nat /\ l.board.bar[q] \in Nat /\ c.bar[q] \in Nat
  BY <1>0, <1>3, <1>6, Sizes DEF Sound, Board
<1>13. Reached(b, c, p)
  <2>1. /\ l.board.off[q] = b.off[q]
        /\ l.board.bar[q] >= b.bar[q]
        /\ \A k \in 1..BAR_PIP : Behind(l.board, p, k) <= Behind(b, p, k)
        /\ \A k \in 1..BAR_PIP : Behind(l.board, q, k) >= Behind(b, q, k)
        /\ Long \/ l.board.bar[q] = b.bar[q] =>
             \A x \in Point : CountAt(l.board, q, x) = CountAt(b, q, x)
    BY <1>0 DEF Reached
  <2>2. c.off[q] = b.off[q] /\ c.bar[q] >= b.bar[q]
    BY <1>11, <1>12, <2>1
  <2>3. ASSUME NEW k \in 1..BAR_PIP
        PROVE  Behind(c, p, k) <= Behind(b, p, k) /\ Behind(c, q, k) >= Behind(b, q, k)
    <3>1. /\ Behind(c, p, k) <= Behind(l.board, p, k) /\ Behind(c, q, k) >= Behind(l.board, q, k)
          /\ Behind(l.board, p, k) <= Behind(b, p, k) /\ Behind(l.board, q, k) >= Behind(b, q, k)
      BY <1>7, <1>9, <2>1
    <3>2. /\ Behind(c, p, k) \in Nat /\ Behind(l.board, p, k) \in Nat /\ Behind(b, p, k) \in Nat
          /\ Behind(c, q, k) \in Nat /\ Behind(l.board, q, k) \in Nat /\ Behind(b, q, k) \in Nat
      BY <1>6
    <3>. QED BY <3>1, <3>2
  <2>4. ASSUME Long \/ c.bar[q] = b.bar[q]
        PROVE  \A x \in Point : CountAt(c, q, x) = CountAt(b, q, x)
    <3>1. ~Hit(l.board, p, m.to) /\ (Long \/ l.board.bar[q] = b.bar[q])
      BY <1>11, <1>12, <2>1, <2>4 DEF Hit
    <3>. QED BY <1>11, <2>1, <3>1
  <2>. QED BY <2>2, <2>3, <2>4 DEF Reached
<1>14. Nearer(b, c, p)
  <2>1. Behind(l.board, p, FromPip(p, m)) <= Behind(b, p, FromPip(p, m))
    BY <1>0, <1>8 DEF Reached
  <2>2. /\ Behind(c, p, FromPip(p, m)) \in Nat /\ Behind(l.board, p, FromPip(p, m)) \in Nat
        /\ Behind(b, p, FromPip(p, m)) \in Nat
    BY <1>6
  <2>3. Behind(c, p, FromPip(p, m)) < Behind(b, p, FromPip(p, m))
    BY <1>10, <2>1, <2>2
  <2>. QED BY <1>8, <2>3 DEF Nearer
<1>15. Long => TakenOffHead(b, c, p) <= l.head + FromHead(p, m)
  <2>1. HAVE Long
  <2>. DEFINE x == headPoint(p)
  <2>2. x \in Point
    BY <2>1, HeadIsFarthest
  <2>3. /\ CountAt(b, p, x) \in Nat /\ CountAt(c, p, x) \in Nat /\ CountAt(l.board, p, x) \in Nat
    BY <1>0, <1>3, <2>2, Counts, BoardsAreAny DEF Sound
  <2>4. CountAt(c, p, x) = CountAt(l.board, p, x) - (IF x = m.from THEN 1 ELSE 0)
                                                  + (IF x = m.to THEN 1 ELSE 0)
    BY <1>11, <2>2
  <2>5. FromHead(p, m) = IF x = m.from THEN 1 ELSE 0
    BY <2>1 DEF FromHead
  <2>6. CountAt(b, p, x) - CountAt(l.board, p, x) <= l.head
    BY <1>0, <2>1 DEF TakenOffHead
  <2>7. CountAt(b, p, x) - CountAt(c, p, x) <= l.head + FromHead(p, m)
    <3>. HIDE DEF x
    <3>. QED BY <1>0, <2>3, <2>4, <2>5, <2>6
  <2>. QED BY <2>7 DEF TakenOffHead
<1>16. Append(l.moves, m) \in Seq(Move) /\ Len(Append(l.moves, m)) = n + 1
  BY <1>0, <1>1
<1>17. l.head + FromHead(p, m) \in Nat /\ l.head + FromHead(p, m) <= n + 1
  BY <1>0, <1>5
<1>. QED BY <1>1, <1>3, <1>4, <1>13, <1>14, <1>15, <1>16, <1>17 DEF LineOK

(***************************************************************************)
(* The search: lines of one to four moves                                  *)
(***************************************************************************)

Lines0(b, p, r, h) == {Start(b, r)}
Lines1(b, p, r, h) == Extend(Lines0(b, p, r, h), p, h)
Lines2(b, p, r, h) == Extend(Lines1(b, p, r, h), p, h)
Lines3(b, p, r, h) == Extend(Lines2(b, p, r, h), p, h)
Lines4(b, p, r, h) == Extend(Lines3(b, p, r, h), p, h)

From1(l, p, h) == Extend({l}, p, h)
From2(l, p, h) == Extend(From1(l, p, h), p, h)
From3(l, p, h) == Extend(From2(l, p, h), p, h)
From4(l, p, h) == Extend(From3(l, p, h), p, h)

LEMMA LinesFromIs ==
  ASSUME NEW l, NEW p, NEW h
  PROVE  LinesFrom(l, p, h) = {l} \cup From1(l, p, h) \cup From2(l, p, h)
                                \cup From3(l, p, h) \cup From4(l, p, h)
<1>. DEFINE step(f) == [k \in 0..MaxMoves |-> IF k = 0 THEN {l} ELSE Extend(f[k - 1], p, h)]
            lines == CHOOSE f : f = step(f)
            g == [k \in 0..MaxMoves |->
                    IF k = 0 THEN {l} ELSE IF k = 1 THEN From1(l, p, h)
                    ELSE IF k = 2 THEN From2(l, p, h) ELSE IF k = 3 THEN From3(l, p, h)
                    ELSE From4(l, p, h)]
<1>1. g = step(g)
  <2>1. ASSUME NEW k \in 0..MaxMoves
        PROVE  g[k] = (IF k = 0 THEN {l} ELSE Extend(g[k - 1], p, h))
    <3>1. k = 0 \/ k = 1 \/ k = 2 \/ k = 3 \/ k = 4
      BY DEF MaxMoves
    <3>2. g[0] = {l} /\ g[1] = From1(l, p, h) /\ g[2] = From2(l, p, h)
            /\ g[3] = From3(l, p, h) /\ g[4] = From4(l, p, h)
      BY DEF MaxMoves
    <3>. HIDE DEF g
    <3>. QED BY <3>1, <3>2 DEF From1, From2, From3, From4
  <2>. QED BY <2>1, Zenon
<1>2. lines = step(lines)
  <2>. HIDE DEF step
  <2>. QED BY <1>1, Zenon
<1>3. lines[0] = {l} /\ lines[1] = Extend(lines[0], p, h) /\ lines[2] = Extend(lines[1], p, h)
        /\ lines[3] = Extend(lines[2], p, h) /\ lines[4] = Extend(lines[3], p, h)
  <2>1. \A k \in 0..MaxMoves : lines[k] = IF k = 0 THEN {l} ELSE Extend(lines[k - 1], p, h)
    <3>. HIDE DEF lines
    <3>. QED BY <1>2
  <2>. HIDE DEF lines
  <2>. QED BY <2>1 DEF MaxMoves
<1>4. LinesFrom(l, p, h) = UNION {lines[k] : k \in 0..MaxMoves}
  BY Zenon DEF LinesFrom
<1>5. 0..MaxMoves = {0, 1, 2, 3, 4}
  BY DEF MaxMoves
<1>. HIDE DEF lines
<1>. QED BY <1>3, <1>4, <1>5 DEF From1, From2, From3, From4

LEMMA Enumerated ==
  ASSUME NEW b, NEW p, NEW r, NEW h
  PROVE  enumerate(b, p, r, h) = Lines0(b, p, r, h) \cup Lines1(b, p, r, h)
           \cup Lines2(b, p, r, h) \cup Lines3(b, p, r, h) \cup Lines4(b, p, r, h)
BY LinesFromIs DEF enumerate, Lines0, Lines1, Lines2, Lines3, Lines4, From1, From2, From3, From4

LEMMA Extended ==
  ASSUME NEW L, NEW p, NEW h, NEW e \in Extend(L, p, h)
  PROVE  \E l \in L : \E m \in NextMoves(l, p, h) : e = Play(l, p, m)
BY DEF Extend

LEMMA ExtendOK ==
  ASSUME NEW b, Sound(b), NEW p \in Player, NEW n \in Nat, NEW h \in Nat, NEW L,
         \A l \in L : LineOK(l, b, p, n, h)
  PROVE  \A e \in Extend(L, p, h) : LineOK(e, b, p, n + 1, h)
BY Extended, PlayOK

LEMMA LinesOK ==
  ASSUME NEW b, Sound(b), NEW p \in Player, NEW r \in Roll, NEW h \in Nat
  PROVE  /\ \A l \in Lines0(b, p, r, h) : LineOK(l, b, p, 0, h)
         /\ \A l \in Lines1(b, p, r, h) : LineOK(l, b, p, 1, h)
         /\ \A l \in Lines2(b, p, r, h) : LineOK(l, b, p, 2, h)
         /\ \A l \in Lines3(b, p, r, h) : LineOK(l, b, p, 3, h)
         /\ \A l \in Lines4(b, p, r, h) : LineOK(l, b, p, 4, h)
<1>0. \A l \in Lines0(b, p, r, h) : LineOK(l, b, p, 0, h)
  BY StartOK DEF Lines0
<1>1. \A l \in Lines1(b, p, r, h) : LineOK(l, b, p, 0 + 1, h)
  BY <1>0, ExtendOK DEF Lines1
<1>2. \A l \in Lines1(b, p, r, h) : LineOK(l, b, p, 1, h)
  BY <1>1
<1>3. \A l \in Lines2(b, p, r, h) : LineOK(l, b, p, 1 + 1, h)
  BY <1>2, ExtendOK DEF Lines2
<1>4. \A l \in Lines2(b, p, r, h) : LineOK(l, b, p, 2, h)
  BY <1>3
<1>5. \A l \in Lines3(b, p, r, h) : LineOK(l, b, p, 2 + 1, h)
  BY <1>4, ExtendOK DEF Lines3
<1>6. \A l \in Lines3(b, p, r, h) : LineOK(l, b, p, 3, h)
  BY <1>5
<1>7. \A l \in Lines4(b, p, r, h) : LineOK(l, b, p, 3 + 1, h)
  BY <1>6, ExtendOK DEF Lines4
<1>8. \A l \in Lines4(b, p, r, h) : LineOK(l, b, p, 4, h)
  BY <1>7
<1>. QED BY <1>0, <1>2, <1>4, <1>6, <1>8

LEMMA EnumeratedOK ==
  ASSUME NEW b, Sound(b), NEW p \in Player, NEW r \in Roll, NEW h \in Nat,
         NEW l \in enumerate(b, p, r, h)
  PROVE  /\ LineOK(l, b, p, Len(l.moves), h)
         /\ Len(l.moves) \in 0..4
<1>1. \E n \in 0..4 : LineOK(l, b, p, n, h)
  <2>1. 0 \in 0..4 /\ 1 \in 0..4 /\ 2 \in 0..4 /\ 3 \in 0..4 /\ 4 \in 0..4
    OBVIOUS
  <2>. QED BY <2>1, Enumerated, LinesOK
<1>. QED BY <1>1 DEF LineOK

(* Lines with the head rule are the lines without it that keep it: what is *)
(* pruned could never come back below the allowance.                       *)
LEMMA PrunedStep ==
  ASSUME NEW b, Sound(b), NEW p \in Player, NEW n \in 0..3, NEW h \in Nat, h <= 4,
         NEW L, NEW K,
         \A l \in K : LineOK(l, b, p, n, 4),
         L = {l \in K : l.head <= h}
  PROVE  Extend(L, p, h) = {e \in Extend(K, p, 4) : e.head <= h}
<1>1. ASSUME NEW l, NEW m PROVE Play(l, p, m).head = l.head + FromHead(p, m)
  BY DEF Play
<1>2. ASSUME NEW m PROVE FromHead(p, m) \in 0..1
  BY DEF FromHead
<1>3. \A l \in K : l.head \in Nat /\ l.head <= n
  BY DEF LineOK
<1>4. ASSUME NEW e \in Extend(L, p, h)
      PROVE  e \in Extend(K, p, 4) /\ e.head <= h
  <2>1. PICK l \in L : \E m \in NextMoves(l, p, h) : e = Play(l, p, m)
    BY <1>4, Extended
  <2>2. PICK m \in NextMoves(l, p, h) : e = Play(l, p, m)
    BY <2>1
  <2>3. l \in K /\ l.head \in Nat /\ l.head <= n
    BY <1>3
  <2>4. l.head + FromHead(p, m) <= h /\ m \in UNION {SingleMoves(l.board, p, d) : d \in Left(l.left)}
    BY DEF NextMoves
  <2>5. l.head + FromHead(p, m) <= 4
    BY <1>2, <2>3, <2>4
  <2>6. m \in NextMoves(l, p, 4)
    BY <2>4, <2>5 DEF NextMoves
  <2>7. e \in Extend(K, p, 4)
    BY <2>2, <2>3, <2>6 DEF Extend
  <2>. QED BY <1>1, <2>2, <2>4, <2>7
<1>5. ASSUME NEW e \in Extend(K, p, 4), e.head <= h
      PROVE  e \in Extend(L, p, h)
  <2>1. PICK l \in K : \E m \in NextMoves(l, p, 4) : e = Play(l, p, m)
    BY <1>5, Extended
  <2>2. PICK m \in NextMoves(l, p, 4) : e = Play(l, p, m)
    BY <2>1
  <2>3. l.head \in Nat /\ FromHead(p, m) \in Nat
    BY <1>2, <1>3
  <2>4. l.head + FromHead(p, m) <= h /\ l.head <= h
    BY <1>1, <1>5, <2>2, <2>3
  <2>5. m \in NextMoves(l, p, h)
    BY <2>4 DEF NextMoves
  <2>. QED BY <2>2, <2>4, <2>5 DEF Extend
<1>. QED BY <1>4, <1>5

LEMMA Pruned ==
  ASSUME NEW b, Sound(b), NEW p \in Player, NEW r \in Roll, NEW h \in Nat, h <= 4
  PROVE  enumerate(b, p, r, h) = {l \in enumerate(b, p, r, 4) : l.head <= h}
<1>0. /\ \A l \in Lines0(b, p, r, 4) : LineOK(l, b, p, 0, 4)
      /\ \A l \in Lines1(b, p, r, 4) : LineOK(l, b, p, 1, 4)
      /\ \A l \in Lines2(b, p, r, 4) : LineOK(l, b, p, 2, 4)
      /\ \A l \in Lines3(b, p, r, 4) : LineOK(l, b, p, 3, 4)
  BY LinesOK
<1>1. Lines0(b, p, r, h) = {l \in Lines0(b, p, r, 4) : l.head <= h}
  <2>1. Start(b, r).head = 0
    BY DEF Start
  <2>. QED BY <2>1 DEF Lines0
<1>2. Lines1(b, p, r, h) = {l \in Lines1(b, p, r, 4) : l.head <= h}
  <2>1. 0 \in 0..3
    OBVIOUS
  <2>. QED BY <1>0, <1>1, <2>1, PrunedStep DEF Lines1
<1>3. Lines2(b, p, r, h) = {l \in Lines2(b, p, r, 4) : l.head <= h}
  <2>1. 1 \in 0..3
    OBVIOUS
  <2>. QED BY <1>0, <1>2, <2>1, PrunedStep DEF Lines2
<1>4. Lines3(b, p, r, h) = {l \in Lines3(b, p, r, 4) : l.head <= h}
  <2>1. 2 \in 0..3
    OBVIOUS
  <2>. QED BY <1>0, <1>3, <2>1, PrunedStep DEF Lines3
<1>5. Lines4(b, p, r, h) = {l \in Lines4(b, p, r, 4) : l.head <= h}
  <2>1. 3 \in 0..3
    OBVIOUS
  <2>. QED BY <1>0, <1>4, <2>1, PrunedStep DEF Lines4
<1>. QED BY <1>1, <1>2, <1>3, <1>4, <1>5, Enumerated

(***************************************************************************)
(* The validation: a line's moves lead to this line and no other           *)
(***************************************************************************)

PlayAt(L, p, s, k) == IF k > Len(s) THEN L ELSE PlayNext(L, p, s[k])

LEMMA PlayAtPast ==
  ASSUME NEW L, NEW p, NEW s \in Seq(Move), NEW k \in Nat, k > Len(s)
  PROVE  PlayAt(L, p, s, k) = L
BY DEF PlayAt

LEMMA PlayAtBefore ==
  ASSUME NEW L, NEW p, NEW s \in Seq(Move), NEW m \in Move, NEW k \in 1..Len(s)
  PROVE  PlayAt(L, p, Append(s, m), k) = PlayAt(L, p, s, k)
<1>1. Append(s, m)[k] = s[k] /\ ~(k > Len(s)) /\ ~(k > Len(Append(s, m)))
  OBVIOUS
<1>. QED BY <1>1 DEF PlayAt

LEMMA PlayAtEnd ==
  ASSUME NEW l, l.moves \in Seq(Move), NEW p \in Player, NEW h, Sound(l.board),
         NEW m \in NextMoves(l, p, h), NEW k, k = Len(l.moves) + 1
  PROVE  PlayAt({l}, p, Append(l.moves, m), k) = {Play(l, p, m)}
<1>1. m.die \in Left(l.left) /\ m \in SingleMoves(l.board, p, m.die) /\ m \in Move
  BY NextMove
<1>2. Append(l.moves, m)[k] = m /\ ~(k > Len(Append(l.moves, m)))
  BY <1>1
<1>. QED BY <1>1, <1>2 DEF PlayAt, PlayNext

(* The lines left after one to four of the moves s.                        *)
Play1(b, p, r, s) == PlayAt({Start(b, r)}, p, s, 1)
Play2(b, p, r, s) == PlayAt(Play1(b, p, r, s), p, s, 2)
Play3(b, p, r, s) == PlayAt(Play2(b, p, r, s), p, s, 3)
Play4(b, p, r, s) == PlayAt(Play3(b, p, r, s), p, s, 4)

LEMMA PlayedIs ==
  ASSUME NEW b, NEW p, NEW r, NEW s, NEW n \in 0..4, Len(s) = n
  PROVE  Played(b, p, r, s) = Play4(b, p, r, s)
<1>. DEFINE step(f) == [k \in 0..n |->
                          IF k = 0 THEN {Start(b, r)} ELSE PlayNext(f[k - 1], p, s[k])]
            after == CHOOSE f : f = step(f)
            g == [k \in 0..n |->
                    IF k = 0 THEN {Start(b, r)} ELSE IF k = 1 THEN Play1(b, p, r, s)
                    ELSE IF k = 2 THEN Play2(b, p, r, s) ELSE IF k = 3 THEN Play3(b, p, r, s)
                    ELSE Play4(b, p, r, s)]
<1>1. g = step(g)
  <2>1. ASSUME NEW k \in 0..n
        PROVE  g[k] = (IF k = 0 THEN {Start(b, r)} ELSE PlayNext(g[k - 1], p, s[k]))
    <3>1. k = 0 \/ k = 1 \/ k = 2 \/ k = 3 \/ k = 4
      OBVIOUS
    <3>2. /\ g[0] = {Start(b, r)}
          /\ 1 <= n => g[1] = Play1(b, p, r, s)
          /\ 2 <= n => g[2] = Play2(b, p, r, s)
          /\ 3 <= n => g[3] = Play3(b, p, r, s)
          /\ 4 <= n => g[4] = Play4(b, p, r, s)
      OBVIOUS
    <3>3. k <= n /\ ~(k > Len(s))
      OBVIOUS
    <3>. HIDE DEF g
    <3>4. CASE k = 0
      BY <3>2, <3>4
    <3>5. CASE k = 1
      <4>1. g[1] = Play1(b, p, r, s) /\ g[0] = {Start(b, r)} /\ 1 - 1 = 0 /\ 1 # 0
        BY <3>2, <3>3, <3>5
      <4>2. g[1] = PlayNext(g[0], p, s[1])
        BY <3>3, <3>5, <4>1 DEF Play1, PlayAt
      <4>. QED BY <3>5, <4>1, <4>2
    <3>6. CASE k = 2
      <4>1. g[2] = Play2(b, p, r, s) /\ g[1] = Play1(b, p, r, s) /\ 2 - 1 = 1 /\ 2 # 0
        BY <3>2, <3>3, <3>6
      <4>2. g[2] = PlayNext(g[1], p, s[2])
        BY <3>3, <3>6, <4>1 DEF Play2, PlayAt
      <4>. QED BY <3>6, <4>1, <4>2
    <3>7. CASE k = 3
      <4>1. g[3] = Play3(b, p, r, s) /\ g[2] = Play2(b, p, r, s) /\ 3 - 1 = 2 /\ 3 # 0
        BY <3>2, <3>3, <3>7
      <4>2. g[3] = PlayNext(g[2], p, s[3])
        BY <3>3, <3>7, <4>1 DEF Play3, PlayAt
      <4>. QED BY <3>7, <4>1, <4>2
    <3>8. CASE k = 4
      <4>1. g[4] = Play4(b, p, r, s) /\ g[3] = Play3(b, p, r, s) /\ 4 - 1 = 3 /\ 4 # 0
        BY <3>2, <3>3, <3>8
      <4>2. g[4] = PlayNext(g[3], p, s[4])
        BY <3>3, <3>8, <4>1 DEF Play4, PlayAt
      <4>. QED BY <3>8, <4>1, <4>2
    <3>. QED BY <3>1, <3>4, <3>5, <3>6, <3>7, <3>8
  <2>. QED BY <2>1, Zenon
<1>2. after = step(after)
  <2>. HIDE DEF step
  <2>. QED BY <1>1, Zenon
<1>3. \A k \in 0..n : after[k] = IF k = 0 THEN {Start(b, r)} ELSE PlayNext(after[k - 1], p, s[k])
  <2>. HIDE DEF after
  <2>. QED BY <1>2
<1>4. Played(b, p, r, s) = after[n]
  BY Zenon DEF Played
<1>5. n = 0 \/ n = 1 \/ n = 2 \/ n = 3 \/ n = 4
  OBVIOUS
<1>. HIDE DEF after
<1>6. after[0] = {Start(b, r)}
  BY <1>3, <1>5
<1>7. 1 <= n => after[1] = Play1(b, p, r, s)
  <2>1. ASSUME 1 <= n PROVE after[1] = PlayNext(after[0], p, s[1]) /\ ~(1 > Len(s))
    <3>1. after[1] = IF 1 = 0 THEN {Start(b, r)} ELSE PlayNext(after[1 - 1], p, s[1])
      BY <1>3, <2>1
    <3>2. 1 # 0 /\ 1 - 1 = 0
      OBVIOUS
    <3>. QED BY <2>1, <3>1, <3>2
  <2>. QED BY <1>6, <2>1 DEF Play1, PlayAt
<1>8. 2 <= n => after[2] = Play2(b, p, r, s)
  BY <1>3, <1>5, <1>7 DEF Play2, PlayAt
<1>9. 3 <= n => after[3] = Play3(b, p, r, s)
  BY <1>3, <1>5, <1>8 DEF Play3, PlayAt
<1>10. 4 <= n => after[4] = Play4(b, p, r, s)
  BY <1>3, <1>5, <1>9 DEF Play4, PlayAt
<1>11. CASE n = 0
  <2>1. 1 > Len(s) /\ 2 > Len(s) /\ 3 > Len(s) /\ 4 > Len(s)
    BY <1>11
  <2>. QED BY <1>4, <1>6, <1>11, <2>1 DEF Play1, Play2, Play3, Play4, PlayAt
<1>12. CASE n = 1
  <2>1. 1 <= n /\ 2 > Len(s) /\ 3 > Len(s) /\ 4 > Len(s)
    BY <1>12
  <2>. QED BY <1>4, <1>7, <1>12, <2>1 DEF Play2, Play3, Play4, PlayAt
<1>13. CASE n = 2
  <2>1. 2 <= n /\ 3 > Len(s) /\ 4 > Len(s)
    BY <1>13
  <2>. QED BY <1>4, <1>8, <1>13, <2>1 DEF Play3, Play4, PlayAt
<1>14. CASE n = 3
  <2>1. 3 <= n /\ 4 > Len(s)
    BY <1>14
  <2>. QED BY <1>4, <1>9, <1>14, <2>1 DEF Play4, PlayAt
<1>15. CASE n = 4
  BY <1>4, <1>10, <1>15
<1>. QED BY <1>5, <1>11, <1>12, <1>13, <1>14, <1>15

LEMMA PlayedBack ==
  ASSUME NEW b, Sound(b), NEW p \in Player, NEW r \in Roll, NEW l \in enumerate(b, p, r, 4)
  PROVE  Played(b, p, r, l.moves) = {l}
<1>0. /\ \A e \in Lines0(b, p, r, 4) : LineOK(e, b, p, 0, 4)
      /\ \A e \in Lines1(b, p, r, 4) : LineOK(e, b, p, 1, 4)
      /\ \A e \in Lines2(b, p, r, 4) : LineOK(e, b, p, 2, 4)
      /\ \A e \in Lines3(b, p, r, 4) : LineOK(e, b, p, 3, 4)
      /\ \A e \in Lines4(b, p, r, 4) : LineOK(e, b, p, 4, 4)
  BY LinesOK
<1>1. ASSUME NEW e \in Lines1(b, p, r, 4)
      PROVE  Play1(b, p, r, e.moves) = {e}
  <2>1. PICK f \in Lines0(b, p, r, 4) : \E m \in NextMoves(f, p, 4) : e = Play(f, p, m)
    BY <1>1, Extended DEF Lines1
  <2>2. PICK m \in NextMoves(f, p, 4) : e = Play(f, p, m)
    BY <2>1
  <2>3. f.moves \in Seq(Move) /\ Len(f.moves) = 0 /\ Sound(f.board)
    BY <1>0 DEF LineOK
  <2>4. PlayAt({f}, p, Append(f.moves, m), 1) = {Play(f, p, m)}
    <3>1. 1 = Len(f.moves) + 1
      BY <2>3
    <3>. QED BY <2>3, <3>1, PlayAtEnd
  <2>5. e.moves = Append(f.moves, m) /\ f = Start(b, r)
    BY <2>2 DEF Play, Lines0
  <2>6. PlayAt({f}, p, e.moves, 1) = {e}
    BY <2>2, <2>4, <2>5
  <2>. QED BY <2>5, <2>6 DEF Play1
<1>2. ASSUME NEW e \in Lines2(b, p, r, 4)
      PROVE  Play2(b, p, r, e.moves) = {e}
  <2>1. PICK f \in Lines1(b, p, r, 4) : \E m \in NextMoves(f, p, 4) : e = Play(f, p, m)
    BY <1>2, Extended DEF Lines2
  <2>2. PICK m \in NextMoves(f, p, 4) : e = Play(f, p, m)
    BY <2>1
  <2>3. f.moves \in Seq(Move) /\ Len(f.moves) = 1 /\ Sound(f.board) /\ m \in Move
    BY <1>0, NextMove DEF LineOK
  <2>4. PlayAt({f}, p, Append(f.moves, m), 2) = {Play(f, p, m)}
    <3>1. 2 = Len(f.moves) + 1
      BY <2>3
    <3>. QED BY <2>3, <3>1, PlayAtEnd
  <2>5. e.moves = Append(f.moves, m)
    BY <2>2 DEF Play
  <2>6. Play1(b, p, r, e.moves) = Play1(b, p, r, f.moves)
    BY <2>3, <2>5, PlayAtBefore DEF Play1
  <2>9. Play1(b, p, r, f.moves) = {f}
    BY <1>1
  <2>. QED BY <2>2, <2>4, <2>5, <2>6, <2>9 DEF Play2
<1>3. ASSUME NEW e \in Lines3(b, p, r, 4)
      PROVE  Play3(b, p, r, e.moves) = {e}
  <2>1. PICK f \in Lines2(b, p, r, 4) : \E m \in NextMoves(f, p, 4) : e = Play(f, p, m)
    BY <1>3, Extended DEF Lines3
  <2>2. PICK m \in NextMoves(f, p, 4) : e = Play(f, p, m)
    BY <2>1
  <2>3. f.moves \in Seq(Move) /\ Len(f.moves) = 2 /\ Sound(f.board) /\ m \in Move
    BY <1>0, NextMove DEF LineOK
  <2>4. PlayAt({f}, p, Append(f.moves, m), 3) = {Play(f, p, m)}
    <3>1. 3 = Len(f.moves) + 1
      BY <2>3
    <3>. QED BY <2>3, <3>1, PlayAtEnd
  <2>5. e.moves = Append(f.moves, m)
    BY <2>2 DEF Play
  <2>6. Play1(b, p, r, e.moves) = Play1(b, p, r, f.moves)
    BY <2>3, <2>5, PlayAtBefore DEF Play1
  <2>7. Play2(b, p, r, e.moves) = Play2(b, p, r, f.moves)
    BY <2>3, <2>5, <2>6, PlayAtBefore DEF Play2
  <2>9. Play2(b, p, r, f.moves) = {f}
    BY <1>2
  <2>. QED BY <2>2, <2>4, <2>5, <2>7, <2>9 DEF Play3
<1>4. ASSUME NEW e \in Lines4(b, p, r, 4)
      PROVE  Play4(b, p, r, e.moves) = {e}
  <2>1. PICK f \in Lines3(b, p, r, 4) : \E m \in NextMoves(f, p, 4) : e = Play(f, p, m)
    BY <1>4, Extended DEF Lines4
  <2>2. PICK m \in NextMoves(f, p, 4) : e = Play(f, p, m)
    BY <2>1
  <2>3. f.moves \in Seq(Move) /\ Len(f.moves) = 3 /\ Sound(f.board) /\ m \in Move
    BY <1>0, NextMove DEF LineOK
  <2>4. PlayAt({f}, p, Append(f.moves, m), 4) = {Play(f, p, m)}
    <3>1. 4 = Len(f.moves) + 1
      BY <2>3
    <3>. QED BY <2>3, <3>1, PlayAtEnd
  <2>5. e.moves = Append(f.moves, m)
    BY <2>2 DEF Play
  <2>6. Play1(b, p, r, e.moves) = Play1(b, p, r, f.moves)
    BY <2>3, <2>5, PlayAtBefore DEF Play1
  <2>7. Play2(b, p, r, e.moves) = Play2(b, p, r, f.moves)
    BY <2>3, <2>5, <2>6, PlayAtBefore DEF Play2
  <2>8. Play3(b, p, r, e.moves) = Play3(b, p, r, f.moves)
    BY <2>3, <2>5, <2>7, PlayAtBefore DEF Play3
  <2>9. Play3(b, p, r, f.moves) = {f}
    BY <1>3
  <2>. QED BY <2>2, <2>4, <2>5, <2>8, <2>9 DEF Play4
<1>5. l.moves \in Seq(Move) /\ Len(l.moves) \in 0..4
  BY EnumeratedOK DEF LineOK
<1>6. ASSUME NEW L, NEW k \in Nat, k > Len(l.moves)
      PROVE  PlayAt(L, p, l.moves, k) = L
  BY <1>5, <1>6, PlayAtPast
<1>7. Play4(b, p, r, l.moves) = {l}
  <2>0. CASE l \in Lines0(b, p, r, 4)
    <3>1. Len(l.moves) = 0 /\ l = Start(b, r)
      BY <1>0, <2>0 DEF LineOK, Lines0
    <3>2. \A L : /\ PlayAt(L, p, l.moves, 1) = L /\ PlayAt(L, p, l.moves, 2) = L
                 /\ PlayAt(L, p, l.moves, 3) = L /\ PlayAt(L, p, l.moves, 4) = L
      BY <1>6, <3>1
    <3>. QED BY <3>1, <3>2 DEF Play1, Play2, Play3, Play4
  <2>1. CASE l \in Lines1(b, p, r, 4)
    <3>1. Len(l.moves) = 1
      BY <1>0, <2>1 DEF LineOK
    <3>2. \A L : /\ PlayAt(L, p, l.moves, 2) = L /\ PlayAt(L, p, l.moves, 3) = L
                 /\ PlayAt(L, p, l.moves, 4) = L
      BY <1>6, <3>1
    <3>. QED BY <1>1, <2>1, <3>2 DEF Play2, Play3, Play4
  <2>2. CASE l \in Lines2(b, p, r, 4)
    <3>1. Len(l.moves) = 2
      BY <1>0, <2>2 DEF LineOK
    <3>2. \A L : PlayAt(L, p, l.moves, 3) = L /\ PlayAt(L, p, l.moves, 4) = L
      BY <1>6, <3>1
    <3>. QED BY <1>2, <2>2, <3>2 DEF Play3, Play4
  <2>3. CASE l \in Lines3(b, p, r, 4)
    <3>1. Len(l.moves) = 3
      BY <1>0, <2>3 DEF LineOK
    <3>2. \A L : PlayAt(L, p, l.moves, 4) = L
      BY <1>6, <3>1
    <3>. QED BY <1>3, <2>3, <3>2 DEF Play4
  <2>4. CASE l \in Lines4(b, p, r, 4)
    BY <1>4, <2>4
  <2>. QED BY <2>0, <2>1, <2>2, <2>3, <2>4, Enumerated
<1>. QED BY <1>5, <1>7, PlayedIs

(***************************************************************************)
(* The maximal lines are the ones the validation accepts                   *)
(***************************************************************************)

LEMMA MaxOfSome ==
  ASSUME NEW S \in SUBSET (0..4), S # {}
  PROVE  Max(S) \in S /\ \A y \in S : y <= Max(S)
<1>1. \E x \in S : \A y \in S : x >= y
  <2>1. CASE 4 \in S
    BY <2>1
  <2>2. CASE 4 \notin S /\ 3 \in S
    BY <2>2
  <2>3. CASE 4 \notin S /\ 3 \notin S /\ 2 \in S
    BY <2>3
  <2>4. CASE 4 \notin S /\ 3 \notin S /\ 2 \notin S /\ 1 \in S
    BY <2>4
  <2>5. CASE 4 \notin S /\ 3 \notin S /\ 2 \notin S /\ 1 \notin S
    <3>1. \A y \in S : y = 0
      BY <2>5
    <3>2. PICK x : x \in S
      OBVIOUS
    <3>3. x = 0
      BY <3>1, <3>2
    <3>4. \A y \in S : 0 >= y
      BY <3>1
    <3>. QED BY <3>2, <3>3, <3>4
  <2>. QED BY <2>1, <2>2, <2>3, <2>4, <2>5
<1>2. Max(S) \in S /\ \A y \in S : Max(S) >= y
  BY <1>1 DEF Max
<1>. QED BY <1>2

LEMMA LongestOfLines ==
  ASSUME NEW b, Sound(b), NEW p \in Player, NEW r \in Roll, NEW h \in Nat
  PROVE  /\ Longest(enumerate(b, p, r, h)) \in 0..4
         /\ \E l \in enumerate(b, p, r, h) : Len(l.moves) = Longest(enumerate(b, p, r, h))
         /\ \A l \in enumerate(b, p, r, h) : Len(l.moves) <= Longest(enumerate(b, p, r, h))
<1>. DEFINE S == {Len(l.moves) : l \in enumerate(b, p, r, h)}
<1>1. S \in SUBSET (0..4)
  <2>1. \A l \in enumerate(b, p, r, h) : Len(l.moves) \in 0..4
    BY EnumeratedOK
  <2>. QED BY <2>1
<1>2. S # {}
  BY Enumerated DEF Lines0
<1>3. Max(S) \in S /\ \A y \in S : y <= Max(S)
  <2>. HIDE DEF S
  <2>. QED BY <1>1, <1>2, MaxOfSome
<1>4. Longest(enumerate(b, p, r, h)) = Max(S)
  BY DEF Longest
<1>. QED BY <1>1, <1>3, <1>4

LEMMA DiceToPlay ==
  ASSUME NEW r \in Roll
  PROVE  Left(diceOf(r)) = {r.first, r.second} /\ High(r) \in Left(diceOf(r))
<1>1. r.first \in Die /\ r.second \in Die
  BY DEF Roll
<1>2. \A d \in Die : diceOf(r)[d] = IF isDouble(r) THEN (IF d = r.first THEN 4 ELSE 0)
                                    ELSE IF d \in {r.first, r.second} THEN 1 ELSE 0
  BY DEF diceOf
<1>3. Left(diceOf(r)) = {r.first, r.second}
  BY <1>1, <1>2 DEF Left, isDouble
<1>. QED BY <1>3 DEF High

(* Lines of one move are the moves one can start with.                     *)
LEMMA Openers ==
  ASSUME NEW b, Sound(b), NEW p \in Player, NEW r \in Roll, NEW h \in Nat
  PROVE  /\ \A l \in enumerate(b, p, r, h) :
              Len(l.moves) = 1 => l.moves[1] \in SingleMoves(b, p, l.moves[1].die)
         /\ \A m \in NextMoves(Start(b, r), p, h) :
              /\ Play(Start(b, r), p, m) \in enumerate(b, p, r, h)
              /\ Len(Play(Start(b, r), p, m).moves) = 1
              /\ Play(Start(b, r), p, m).moves[1] = m
<1>1. /\ Start(b, r).moves = <<>> /\ Start(b, r).board = b
      /\ Start(b, r).left = diceOf(r) /\ Start(b, r).head = 0
  BY DEF Start
<1>2. ASSUME NEW l \in enumerate(b, p, r, h), Len(l.moves) = 1
      PROVE  l.moves[1] \in SingleMoves(b, p, l.moves[1].die)
  <2>1. l \in Lines1(b, p, r, h)
    <3>1. /\ \A e \in Lines0(b, p, r, h) : Len(e.moves) = 0
          /\ \A e \in Lines2(b, p, r, h) : Len(e.moves) = 2
          /\ \A e \in Lines3(b, p, r, h) : Len(e.moves) = 3
          /\ \A e \in Lines4(b, p, r, h) : Len(e.moves) = 4
      BY LinesOK DEF LineOK
    <3>. QED BY <1>2, <3>1, Enumerated
  <2>2. PICK m \in NextMoves(Start(b, r), p, h) : l = Play(Start(b, r), p, m)
    BY <2>1, Extended DEF Lines1, Lines0
  <2>3. m \in SingleMoves(b, p, m.die)
    BY <1>1, NextMove
  <2>4. l.moves = Append(<<>>, m)
    BY <1>1, <2>2 DEF Play
  <2>5. l.moves[1] = m
    BY <2>4
  <2>. QED BY <2>3, <2>5
<1>3. ASSUME NEW m \in NextMoves(Start(b, r), p, h)
      PROVE  /\ Play(Start(b, r), p, m) \in enumerate(b, p, r, h)
             /\ Len(Play(Start(b, r), p, m).moves) = 1
             /\ Play(Start(b, r), p, m).moves[1] = m
  <2>1. Play(Start(b, r), p, m) \in Lines1(b, p, r, h)
    BY DEF Lines1, Lines0, Extend
  <2>2. Play(Start(b, r), p, m).moves = Append(<<>>, m)
    BY <1>1 DEF Play
  <2>. QED BY <2>1, <2>2, Enumerated
<1>. QED BY <1>2, <1>3

(* With an allowance any first move is within it.                          *)
LEMMA AnyOpener ==
  ASSUME NEW b, NEW p, NEW r, NEW h \in Nat, h > 0,
         NEW d \in Left(diceOf(r)), NEW m \in SingleMoves(b, p, d)
  PROVE  m \in NextMoves(Start(b, r), p, h)
<1>1. Start(b, r).board = b /\ Start(b, r).left = diceOf(r) /\ Start(b, r).head = 0
  BY DEF Start
<1>2. 0 + FromHead(p, m) <= h
  BY DEF FromHead
<1>. QED BY <1>1, <1>2 DEF NextMoves

(* What the validation lets in when n dice can be played.                  *)
Validated(b, p, r, h, n) ==
  UNION {validateTurn(b, p, r, moves, h, n) : moves \in {l.moves : l \in enumerate(b, p, r, 4)}}
Legal(b, p, r, h, n) ==
  {l \in enumerate(b, p, r, h) :
     Len(l.moves) = n /\ (n = 1 => ~SkipsHigherDie(b, p, r, l.moves))}

LEMMA ValidatedAre ==
  ASSUME NEW b, Sound(b), NEW p \in Player, NEW r \in Roll, NEW h \in 1..4, NEW n
  PROVE  Validated(b, p, r, h, n) = Legal(b, p, r, h, n)
<1>1. ASSUME NEW l \in enumerate(b, p, r, 4)
      PROVE  validateTurn(b, p, r, l.moves, h, n)
               = {e \in {l} : /\ e.head <= h /\ Len(l.moves) = n
                              /\ n = 1 => ~SkipsHigherDie(b, p, r, l.moves)}
  BY PlayedBack DEF validateTurn
<1>2. enumerate(b, p, r, h) = {l \in enumerate(b, p, r, 4) : l.head <= h}
  BY Pruned
<1>. DEFINE V(moves) == validateTurn(b, p, r, moves, h, n)
            all == enumerate(b, p, r, 4)
            W == Legal(b, p, r, h, n)
<1>3. ASSUME NEW e, NEW l \in all, e \in V(l.moves)
      PROVE  e \in W
  BY <1>1, <1>2, <1>3 DEF Legal
<1>4. ASSUME NEW e \in W
      PROVE  e \in all /\ e \in V(e.moves)
  BY <1>1, <1>2, <1>4 DEF Legal
<1>. HIDE DEF V, W, all
<1>5. UNION {V(moves) : moves \in {l.moves : l \in all}} = W
  BY <1>3, <1>4
<1>. QED BY <1>5 DEF V, W, all, Validated

LEMMA AcceptedAreMaximal ==
  ASSUME NEW b, Sound(b), NEW p \in Player, NEW r \in Roll, NEW h \in 1..4
  PROVE  Validated(b, p, r, h, maximal(b, p, r, h).maxLen) = maximal(b, p, r, h).lines
<1>. DEFINE all == enumerate(b, p, r, h)
            n == Longest(all)
            longest == {l \in all : Len(l.moves) = n}
            high == {l \in longest : l.moves[1].die = High(r)}
<1>1. /\ maximal(b, p, r, h).maxLen = n
      /\ maximal(b, p, r, h).lines = IF n = 1 /\ ~isDouble(r) /\ high # {} THEN high ELSE longest
  BY DEF maximal
<1>2. Validated(b, p, r, h, n) = {l \in longest : n = 1 => ~SkipsHigherDie(b, p, r, l.moves)}
  <2>1. Validated(b, p, r, h, n) = Legal(b, p, r, h, n)
    BY ValidatedAre
  <2>2. Legal(b, p, r, h, n)
          = {l \in longest : n = 1 => ~SkipsHigherDie(b, p, r, l.moves)}
    <3>. HIDE DEF n
    <3>. QED BY DEF Legal
  <2>. QED BY <2>1, <2>2
<1>3. ASSUME n = 1
      PROVE  high # {} <=> SingleMoves(b, p, High(r)) # {}
  <2>1. ASSUME NEW l \in high
        PROVE  SingleMoves(b, p, High(r)) # {}
    <3>1. l \in all /\ Len(l.moves) = 1 /\ l.moves[1].die = High(r)
      BY <1>3
    <3>2. l.moves[1] \in SingleMoves(b, p, l.moves[1].die)
      BY <3>1, Openers
    <3>. QED BY <3>1, <3>2
  <2>2. ASSUME NEW m \in SingleMoves(b, p, High(r))
        PROVE  high # {}
    <3>1. m.die = High(r)
      <4>1. High(r) \in Die
        BY DiceToPlay DEF Left
      <4>. QED BY <4>1, GeneratedMoves, BoardsAreAny DEF Sound
    <3>2. m \in NextMoves(Start(b, r), p, h)
      BY DiceToPlay, AnyOpener
    <3>. DEFINE l == Play(Start(b, r), p, m)
    <3>3. l \in all /\ Len(l.moves) = 1 /\ l.moves[1] = m
      BY <3>2, Openers
    <3>. HIDE DEF l, all
    <3>. QED BY <1>3, <3>1, <3>3
  <2>. QED BY <2>1, <2>2
<1>4. ASSUME NEW l \in longest
      PROVE  (n = 1 => ~SkipsHigherDie(b, p, r, l.moves))
               <=> (n = 1 /\ ~isDouble(r) /\ high # {} => l \in high)
  BY <1>3 DEF SkipsHigherDie
<1>5. {l \in longest : n = 1 => ~SkipsHigherDie(b, p, r, l.moves)}
        = IF n = 1 /\ ~isDouble(r) /\ high # {} THEN high ELSE longest
  <2>1. high \subseteq longest
    OBVIOUS
  <2>. HIDE DEF high, longest, n
  <2>. QED BY <1>4, <2>1
<1>. QED BY <1>1, <1>2, <1>5

LEMMA MaximalAre ==
  ASSUME NEW b, Sound(b), NEW p \in Player, NEW r \in Roll, NEW h \in Nat
  PROVE  /\ maximal(b, p, r, h).lines # {}
         /\ maximal(b, p, r, h).lines \subseteq enumerate(b, p, r, h)
         /\ \A l \in maximal(b, p, r, h).lines : \A e \in enumerate(b, p, r, h) :
              Len(e.moves) <= Len(l.moves)
<1>. DEFINE all == enumerate(b, p, r, h)
            n == Longest(all)
            longest == {l \in all : Len(l.moves) = n}
            high == {l \in longest : l.moves[1].die = High(r)}
<1>1. maximal(b, p, r, h).lines = IF n = 1 /\ ~isDouble(r) /\ high # {} THEN high ELSE longest
  BY DEF maximal
<1>2. longest # {} /\ \A e \in all : Len(e.moves) <= n
  BY LongestOfLines
<1>3. longest \subseteq all /\ high \subseteq longest /\ \A l \in longest : Len(l.moves) = n
  OBVIOUS
<1>. HIDE DEF all, n, longest, high
<1>. QED BY <1>1, <1>2, <1>3 DEF all

(***************************************************************************)
(* The inductive invariant                                                 *)
(***************************************************************************)

(* Nobody is off while the game runs.                                      *)
StillOn == phase # "GAME_OVER" => \A p \in Player : board.off[p] < CHECKERS_PER_PLAYER

(* A double waits for an answer only if its doubler was allowed to offer.  *)
OfferOpen ==
  phase = "AWAITING_DOUBLE_RESPONSE" =>
    /\ pendingDoubler = activePlayer
    /\ cube.value < MaxCube /\ cube.owner \in {Null, activePlayer}

EngineInv == TypeOK /\ Conserved /\ StillOn /\ OfferOpen /\ ResultFitsBoard

LEMMA CubeDoubles ==
  ASSUME NEW v \in CubeValue, v < MaxCube
  PROVE  v * 2 \in CubeValue /\ v * 2 <= MaxCube
BY ConfigAssumption DEF CubeValue

(* What a turn is, in a state of the invariant.                            *)
LEMMA TheTurn ==
  ASSUME EngineInv, phase = "AWAITING_MOVE"
  PROVE  /\ Sound(board) /\ activePlayer \in Player /\ dice \in Roll
         /\ currentMaxFromHead \in 1..4
         /\ Accepted = maximalNow.lines
         /\ \A l \in Accepted :
              LineOK(l, board, activePlayer, Len(l.moves), currentMaxFromHead)
<1>1. Sound(board) /\ activePlayer \in Player /\ dice \in Roll
  BY DEF EngineInv, TypeOK, Conserved, Sound
<1>2. currentMaxFromHead \in 1..4
  BY DEF currentMaxFromHead, maxFromHeadFor
<1>3. Accepted = Validated(board, activePlayer, dice, currentMaxFromHead, maximalNow.maxLen)
  BY DEF Accepted, Submissions, Validated, MaxMoves
<1>4. Accepted = maximalNow.lines
  BY <1>1, <1>2, <1>3, AcceptedAreMaximal DEF maximalNow
<1>5. maximalNow.lines \subseteq enumerate(board, activePlayer, dice, currentMaxFromHead)
  BY <1>1, <1>2, MaximalAre DEF maximalNow
<1>. QED BY <1>1, <1>2, <1>4, <1>5, EnumeratedOK

LEMMA SoundInitially ==
  ASSUME Init
  PROVE  Sound(board) /\ \A p \in Player : board.off[p] = 0
<1>. DEFINE start == IF Long THEN initialLongNarda ELSE InitialPoints
<1>0. CHECKERS_PER_PLAYER \in Nat /\ CHECKERS_PER_PLAYER > 0
  BY Sizes
<1>1. start \in [Point -> -CHECKERS_PER_PLAYER..CHECKERS_PER_PLAYER]
  BY <1>0, ConfigAssumption DEF initialLongNarda
<1>2. board = NoneOff(start)
  BY DEF Init
<1>3. /\ board.points = start
      /\ \A p \in Player : board.bar[p] = 0 /\ board.off[p] = 0
  BY <1>2 DEF NoneOff
<1>4. board \in Board
  BY <1>0, <1>1, <1>2 DEF NoneOff, Board
<1>5. ASSUME NEW p \in Player
      PROVE  totalCheckers(board, p) = CHECKERS_PER_PLAYER
  <2>1. CASE ~Long
    BY <1>2, <2>1, ConfigAssumption
  <2>2. CASE Long
    <3>1. /\ headPoint(p) \in Point /\ headPoint("White") \in Point /\ headPoint("Black") \in Point
          /\ headPoint("White") # headPoint("Black")
      <4>1. "White" \in Player /\ "Black" \in Player /\ opponent("White") = "Black"
        BY DEF Player, opponent
      <4>. QED BY <2>2, <4>1, HeadIsFarthest
    <3>2. \A x \in Point : board.points[x] =
            IF x = headPoint("White") THEN CHECKERS_PER_PLAYER
            ELSE IF x = headPoint("Black") THEN -CHECKERS_PER_PLAYER ELSE 0
      BY <1>3, <2>2 DEF initialLongNarda
    <3>3. \A x \in Point :
            CountAt(board, p, x) = IF x = headPoint(p) THEN CHECKERS_PER_PLAYER ELSE 0
      <4>1. CASE p = "White"
        BY <1>0, <3>1, <3>2, <4>1 DEF CountAt, Owns, Sign
      <4>2. CASE p = "Black"
        BY <1>0, <3>1, <3>2, <4>2 DEF CountAt, Owns, Sign
      <4>. QED BY <4>1, <4>2 DEF Player
    <3>4. Tally(board, p) \in [Point -> 0..CHECKERS_PER_PLAYER]
      BY <1>4, Tallies
    <3>5. Cardinality(Pile(Tally(board, p), Point)) = Tally(board, p)[headPoint(p)]
      <4>1. \A x \in Point : x # headPoint(p) => Tally(board, p)[x] = 0
        BY <3>3 DEF Tally
      <4>. QED BY <1>0, <3>1, <3>4, <4>1, OnePile
    <3>6. Tally(board, p)[headPoint(p)] = CHECKERS_PER_PLAYER
      BY <3>1, <3>3 DEF Tally
    <3>. QED BY <1>0, <1>3, <1>4, <3>4, <3>5, <3>6, Totals, BoardsAreAny
  <2>. QED BY <2>1, <2>2
<1>. QED BY <1>3, <1>4, <1>5 DEF Sound

LEMMA InvInitially == Init => EngineInv
<1>. SUFFICES ASSUME Init PROVE EngineInv
  OBVIOUS
<1>1. Sound(board) /\ \A p \in Player : board.off[p] = 0
  BY SoundInitially
<1>2. activePlayer \in Player /\ dice \in Roll
  BY DEF Init, Openings
<1>3. 1 \in CubeValue /\ 1 <= MaxCube
  BY ConfigAssumption DEF CubeValue
<1>4. dice # Null /\ phase = "AWAITING_MOVE" /\ result = Null
  BY <1>2, ConfigAssumption DEF Init
<1>5. cube \in [value : {v \in CubeValue : v <= MaxCube}, owner : Player \cup {Null}]
  BY <1>3 DEF Init
<1>6. pendingDoubler = Null /\ isOpeningTurn \in BOOLEAN
  BY DEF Init
<1>7. TypeOK
  BY <1>1, <1>2, <1>4, <1>5, <1>6 DEF TypeOK, Sound, Phase
<1>8. Conserved
  BY <1>1 DEF Conserved, Sound
<1>9. StillOn /\ OfferOpen /\ ResultFitsBoard
  BY <1>1, <1>4, Sizes DEF StillOn, OfferOpen, ResultFitsBoard
<1>. QED BY <1>7, <1>8, <1>9 DEF EngineInv

(* A checker the score counts as trapped is not in its home.               *)
LEMMA TrappedIsNotHome ==
  ASSUME ~Long, NEW b \in AnyBoard, NEW w \in Player, trapped(b, w, opponent(w))
  PROVE  ~allCheckersInHome(b, opponent(w))
<1>. DEFINE q == opponent(w)
<1>0. q \in Player
  BY Opponents
<1>1. CASE b.bar[q] > 0
  <2>1. b.bar[q] # 0
    BY <1>0, <1>1 DEF AnyBoard
  <2>. QED BY <2>1 DEF allCheckersInHome
<1>2. CASE \E x \in Point : pipDistance(w, x) <= HOME /\ Owns(b, q, x)
  <2>1. PICK x \in Point : pipDistance(w, x) <= HOME /\ Owns(b, q, x)
    BY <1>2
  <2>2. Pip(q, x) = POINT_COUNT + 1 - pipDistance(w, x)
    BY Sizes DEF Pip, pipDistance, opponent, Player, Point
  <2>3. pipDistance(w, x) \in Int
    BY Sizes DEF pipDistance, Point
  <2>4. ~(Pip(q, x) <= HOME)
    BY <2>1, <2>2, <2>3, Sizes
  <2>. QED BY <2>1, <2>4 DEF allCheckersInHome, Owned, InHome
<1>. QED BY <1>1, <1>2 DEF trapped

LEMMA Scored ==
  ASSUME NEW b \in AnyBoard, NEW w \in Player, cube.value \in CubeValue
  PROVE  LET loser == opponent(w)
             more == scoreWin(b, w).reason # "SINGLE"
         IN  /\ scoreWin(b, w) \in GameResult
             /\ scoreWin(b, w).winner = w
             /\ more => b.off[loser] = 0
             /\ more /\ JacobyRule /\ ~Long => cube.value > 1
             /\ scoreWin(b, w).reason = "BACKGAMMON" =>
                  ~Long /\ ~allCheckersInHome(b, loser)
<1>. DEFINE loser == opponent(w)
            gammon == b.off[loser] = 0
            times == IF Long THEN (IF gammon THEN 2 ELSE 1)
                     ELSE IF ~gammon \/ jacoby THEN 1
                     ELSE IF trapped(b, w, loser) THEN 3 ELSE 2
            points == IF Long THEN times ELSE cube.value * times
            reason == CASE times = 1 -> "SINGLE"
                        [] times = 2 -> "GAMMON"
                        [] times = 3 -> "BACKGAMMON"
<1>1. scoreWin(b, w) = [winner |-> w, points |-> points, reason |-> reason]
  BY DEF scoreWin
<1>2. times \in {1, 2, 3}
  OBVIOUS
<1>3. /\ times # 1 => gammon
      /\ times # 1 /\ ~Long => ~jacoby
      /\ times = 3 => ~Long /\ trapped(b, w, loser)
  OBVIOUS
<1>. HIDE DEF times, gammon
<1>4. /\ times = 1 => reason = "SINGLE"
      /\ times = 2 => reason = "GAMMON"
      /\ times = 3 => reason = "BACKGAMMON"
  OBVIOUS
<1>5. points \in Nat
  <2>1. cube.value \in Nat
    BY DEF CubeValue
  <2>2. cube.value * 1 \in Nat /\ cube.value * 2 \in Nat /\ cube.value * 3 \in Nat
    BY <2>1
  <2>. QED BY <1>2, <2>2
<1>. HIDE DEF reason, points
<1>6. scoreWin(b, w) \in GameResult
  BY <1>1, <1>2, <1>4, <1>5 DEF GameResult, Reason
<1>7. scoreWin(b, w).winner = w /\ scoreWin(b, w).reason = reason
  BY <1>1
<1>8. reason # "SINGLE" => times # 1
  BY <1>4
<1>9. JacobyRule /\ ~jacoby => cube.value > 1
  BY DEF jacoby, CubeValue
<1>10. reason = "BACKGAMMON" => times = 3
  BY <1>2, <1>4
<1>11. reason = "BACKGAMMON" => ~Long /\ ~allCheckersInHome(b, loser)
  BY <1>3, <1>10, TrappedIsNotHome
<1>12. reason # "SINGLE" => b.off[loser] = 0
  BY <1>3, <1>8 DEF gammon
<1>13. reason # "SINGLE" /\ ~Long => ~jacoby
  BY <1>3, <1>8
<1>. QED BY <1>6, <1>7, <1>9, <1>11, <1>12, <1>13

LEMMA TurnKeeps ==
  ASSUME EngineInv, phase = "AWAITING_MOVE", NEW l \in Accepted, PlayLine(l)
  PROVE  EngineInv'
<1>. DEFINE p == activePlayer
            q == inactivePlayer
<1>0. /\ TypeOK /\ StillOn /\ Sound(board) /\ p \in Player
      /\ LineOK(l, board, p, Len(l.moves), currentMaxFromHead)
  BY TheTurn DEF EngineInv
<1>1. q \in Player /\ q # p /\ q = opponent(p) /\ Player = {p, q}
  BY <1>0, Opponents DEF inactivePlayer
<1>2. /\ board' = l.board /\ dice' = Null /\ UNCHANGED <<cube, pendingDoubler>>
      /\ isOpeningTurn' \in BOOLEAN
  BY DEF PlayLine
<1>3. Sound(board') /\ board'.off[q] = board.off[q]
  BY <1>0, <1>1, <1>2 DEF LineOK, Reached
<1>4. board'.off[q] < CHECKERS_PER_PLAYER
  BY <1>0, <1>1, <1>3 DEF StillOn
<1>5. board'.off[p] \in 0..CHECKERS_PER_PLAYER
  BY <1>0, <1>3 DEF Sound, Board
<1>6. Conserved'
  BY <1>3 DEF Conserved, Sound
<1>7. /\ cube.value \in CubeValue /\ pendingDoubler \in Player \cup {Null} /\ result = Null
      /\ cube \in [value : {v \in CubeValue : v <= MaxCube}, owner : Player \cup {Null}]
  BY <1>0 DEF TypeOK
<1>8. CASE hasBorneOffAll(board', p)
  <2>1. result' = scoreWin(board', p) /\ phase' = "GAME_OVER" /\ activePlayer' = p
    BY <1>8 DEF PlayLine
  <2>2. board'.off[p] = CHECKERS_PER_PLAYER
    BY <1>5, <1>8, Sizes DEF hasBorneOffAll
  <2>3. board' \in AnyBoard
    BY <1>3, BoardsAreAny DEF Sound
  <2>4. /\ scoreWin(board', p) \in GameResult
        /\ scoreWin(board', p).winner = p
        /\ scoreWin(board', p).reason # "SINGLE" => board'.off[q] = 0
        /\ scoreWin(board', p).reason # "SINGLE" /\ JacobyRule /\ ~Long => cube.value > 1
        /\ scoreWin(board', p).reason = "BACKGAMMON" => ~Long /\ ~allCheckersInHome(board', q)
    BY <1>0, <1>1, <1>7, <2>3, Scored
  <2>5. result' \in GameResult /\ result' # Null
    BY <2>1, <2>4, ConfigAssumption
  <2>6. TypeOK'
    BY <1>0, <1>2, <1>3, <1>7, <2>1, <2>5 DEF TypeOK, Sound, Phase
  <2>7. ResultFitsBoard'
    BY <1>1, <1>2, <1>4, <2>1, <2>2, <2>4 DEF ResultFitsBoard
  <2>. QED BY <1>6, <2>1, <2>6, <2>7 DEF EngineInv, StillOn, OfferOpen
<1>9. CASE ~hasBorneOffAll(board', p)
  <2>1. result' = Null /\ phase' = "AWAITING_ROLL" /\ activePlayer' = q
    BY <1>7, <1>9 DEF PlayLine
  <2>2. board'.off[p] < CHECKERS_PER_PLAYER
    BY <1>5, <1>9, Sizes DEF hasBorneOffAll
  <2>3. TypeOK'
    BY <1>1, <1>2, <1>3, <1>7, <2>1 DEF TypeOK, Sound, Phase
  <2>4. StillOn'
    BY <1>1, <1>4, <2>2 DEF StillOn
  <2>. QED BY <1>6, <2>1, <2>3, <2>4 DEF EngineInv, OfferOpen, ResultFitsBoard
<1>. QED BY <1>8, <1>9

LEMMA InvKept == EngineInv /\ [Next]_vars => EngineInv'
<1>. SUFFICES ASSUME EngineInv, [Next]_vars PROVE EngineInv'
  OBVIOUS
<1>0. TypeOK /\ Conserved /\ StillOn /\ OfferOpen /\ ResultFitsBoard
  BY DEF EngineInv
<1>1. CASE roll
  <2>1. /\ phase' = "AWAITING_MOVE" /\ dice' \in Roll /\ result = Null
        /\ UNCHANGED <<board, activePlayer, cube, pendingDoubler, result, isOpeningTurn>>
    BY <1>0, <1>1 DEF roll, TypeOK
  <2>2. dice' # Null
    BY <2>1, ConfigAssumption
  <2>3. TypeOK'
    BY <1>0, <2>1, <2>2 DEF TypeOK, Phase
  <2>4. Conserved' /\ StillOn' /\ OfferOpen' /\ ResultFitsBoard'
    BY <1>0, <1>1, <2>1 DEF Conserved, StillOn, OfferOpen, ResultFitsBoard, roll
  <2>. QED BY <2>3, <2>4 DEF EngineInv
<1>2. CASE playTurn
  BY <1>2, TurnKeeps DEF playTurn
<1>3. CASE offerDouble
  <2>1. /\ phase = "AWAITING_ROLL" /\ phase' = "AWAITING_DOUBLE_RESPONSE"
        /\ pendingDoubler' = activePlayer /\ result = Null
        /\ cube.value < MaxCube /\ cube.owner \in {Null, activePlayer}
        /\ UNCHANGED <<board, activePlayer, dice, cube, result, isOpeningTurn>>
    BY <1>0, <1>3 DEF offerDouble, canOfferDouble, TypeOK
  <2>2. TypeOK'
    BY <1>0, <2>1 DEF TypeOK, Phase
  <2>3. Conserved' /\ StillOn' /\ OfferOpen' /\ ResultFitsBoard'
    BY <1>0, <2>1 DEF Conserved, StillOn, OfferOpen, ResultFitsBoard
  <2>. QED BY <2>2, <2>3 DEF EngineInv
<1>4. CASE acceptDouble
  <2>1. /\ phase = "AWAITING_DOUBLE_RESPONSE" /\ phase' = "AWAITING_ROLL"
        /\ cube' = [value |-> cube.value * 2, owner |-> opponent(pendingDoubler)]
        /\ pendingDoubler' = Null /\ result = Null
        /\ UNCHANGED <<board, activePlayer, dice, result, isOpeningTurn>>
    BY <1>0, <1>4 DEF acceptDouble, TypeOK
  <2>2. cube' \in [value : {v \in CubeValue : v <= MaxCube}, owner : Player \cup {Null}]
    <3>1. cube.value \in CubeValue /\ cube.value < MaxCube /\ pendingDoubler \in Player
      BY <1>0, <2>1 DEF OfferOpen, TypeOK
    <3>2. cube.value * 2 \in CubeValue /\ cube.value * 2 <= MaxCube
      BY <3>1, CubeDoubles
    <3>3. opponent(pendingDoubler) \in Player
      BY <3>1, Opponents
    <3>. QED BY <2>1, <3>2, <3>3
  <2>3. TypeOK'
    BY <1>0, <2>1, <2>2 DEF TypeOK, Phase
  <2>4. Conserved' /\ StillOn' /\ OfferOpen' /\ ResultFitsBoard'
    BY <1>0, <2>1 DEF Conserved, StillOn, OfferOpen, ResultFitsBoard
  <2>. QED BY <2>3, <2>4 DEF EngineInv
<1>5. CASE declineDouble
  <2>1. /\ phase = "AWAITING_DOUBLE_RESPONSE" /\ phase' = "GAME_OVER"
        /\ result' = [winner |-> pendingDoubler, points |-> cube.value,
                      reason |-> "DOUBLE_DECLINED"]
        /\ pendingDoubler' = Null
        /\ UNCHANGED <<board, activePlayer, dice, cube, isOpeningTurn>>
    BY <1>5 DEF declineDouble
  <2>2. result' \in GameResult /\ result' # Null /\ result'.reason = "DOUBLE_DECLINED"
    <3>1. cube.value \in Nat /\ pendingDoubler \in Player
      BY <1>0, <2>1 DEF OfferOpen, TypeOK, CubeValue
    <3>. QED BY <2>1, <3>1, ConfigAssumption DEF GameResult, Reason
  <2>3. TypeOK'
    BY <1>0, <2>1, <2>2 DEF TypeOK, Phase
  <2>4. Conserved' /\ StillOn' /\ OfferOpen' /\ ResultFitsBoard'
    BY <1>0, <2>1, <2>2 DEF Conserved, StillOn, OfferOpen, ResultFitsBoard
  <2>. QED BY <2>3, <2>4 DEF EngineInv
<1>6. ASSUME NEW p \in Player, NEW reason \in {"RESIGNATION", "FORFEIT"}, Concede(p, reason)
      PROVE  EngineInv'
  <2>1. /\ phase' = "GAME_OVER"
        /\ result' = [winner |-> opponent(p), points |-> cube.value, reason |-> reason]
        /\ UNCHANGED <<board, activePlayer, dice, cube, pendingDoubler, isOpeningTurn>>
    BY <1>6 DEF Concede
  <2>2. result' \in GameResult /\ result' # Null /\ result'.reason = reason
    <3>1. cube.value \in Nat /\ opponent(p) \in Player
      BY <1>0, Opponents DEF TypeOK, CubeValue
    <3>. QED BY <2>1, <3>1, ConfigAssumption DEF GameResult, Reason
  <2>3. TypeOK'
    BY <1>0, <2>1, <2>2 DEF TypeOK, Phase
  <2>4. Conserved' /\ StillOn' /\ OfferOpen' /\ ResultFitsBoard'
    BY <1>0, <2>1, <2>2 DEF Conserved, StillOn, OfferOpen, ResultFitsBoard
  <2>. QED BY <2>3, <2>4 DEF EngineInv
<1>7. CASE UNCHANGED vars
  BY <1>0, <1>7 DEF vars, EngineInv, TypeOK, Conserved, StillOn, OfferOpen, ResultFitsBoard
<1>. QED BY <1>1, <1>2, <1>3, <1>4, <1>5, <1>6, <1>7 DEF Next, resign, forfeit

LEMMA InvHolds == Spec => []EngineInv
<1>. QED BY InvInitially, InvKept, PTL DEF Spec

(***************************************************************************)
(* The theorems                                                            *)
(***************************************************************************)

(* Over any number of turns, hits, entries and bear-offs the state stays   *)
(* well-formed and neither side loses or gains a checker (StateOK).        *)
THEOREM CheckersAreConserved == Spec => []StateOK
<1>1. EngineInv => StateOK
  BY DEF EngineInv, StateOK
<1>. QED BY <1>1, InvHolds, PTL

(* The validation of submitted turns lets in exactly the lines that the    *)
(* search offers: what generateTurns shows a player, or the computer, is   *)
(* never refused, and nothing else is played.                              *)
THEOREM ValidationAgreesWithSearch == Spec => []ValidatesWhatItGenerates
<1>1. EngineInv => ValidatesWhatItGenerates
  BY TheTurn DEF ValidatesWhatItGenerates
<1>. QED BY <1>1, InvHolds, PTL

(* Whatever the roll and the head rule prune, a player who must move has a *)
(* turn that is accepted, if only the pass.                                *)
THEOREM ATurnIsAlwaysAccepted == Spec => []AlwaysATurn
<1>1. ASSUME EngineInv, phase = "AWAITING_MOVE"
      PROVE  Accepted # {}
  <2>1. /\ Sound(board) /\ activePlayer \in Player /\ dice \in Roll
        /\ currentMaxFromHead \in Nat
        /\ Accepted = maximalNow.lines
    BY <1>1, TheTurn
  <2>. QED BY <2>1, MaximalAre DEF maximalNow
<1>2. EngineInv => AlwaysATurn
  BY <1>1 DEF AlwaysATurn
<1>. QED BY <1>2, InvHolds, PTL

(* No line of the search ever asks the board for a move that the mutators  *)
(* refuse.                                                                 *)
THEOREM SearchNeverThrows == Spec => []MutatorsNeverThrow
<1>1. ASSUME EngineInv, phase = "AWAITING_MOVE",
             NEW l \in enumerate(board, activePlayer, dice, currentMaxFromHead),
             NEW d \in Left(l.left), NEW m \in SingleMoves(l.board, activePlayer, d)
      PROVE  ~Throws(l.board, activePlayer, m)
  <2>1. /\ Sound(board) /\ activePlayer \in Player /\ dice \in Roll
        /\ currentMaxFromHead \in Nat
    BY <1>1, TheTurn
  <2>2. Sound(l.board)
    BY <2>1, EnumeratedOK DEF LineOK
  <2>3. d \in Die
    BY DEF Left
  <2>. QED BY <2>1, <2>2, <2>3, GeneratedMoves, BoardsAreAny DEF Sound
<1>2. EngineInv => MutatorsNeverThrow
  BY <1>1 DEF MutatorsNeverThrow
<1>. QED BY <1>2, InvHolds, PTL

(* A result scored over the board fits the final position, the cube and    *)
(* the Jacoby rule.                                                        *)
THEOREM ResultsFitTheBoard == Spec => []ResultFitsBoard
<1>1. EngineInv => ResultFitsBoard
  BY DEF EngineInv
<1>. QED BY <1>1, InvHolds, PTL

(* The cube is turned only by its owner, through an offer and its answer,  *)
(* and goes to the other side at twice the value.                          *)
THEOREM CubeGoesToTheOtherSide == Spec => CubeChangesHands
<1>1. ASSUME EngineInv, [Next]_vars, cube' # cube
      PROVE  /\ cube.owner \in {Null, activePlayer}
             /\ cube' = [value |-> 2 * cube.value, owner |-> inactivePlayer]
  <2>1. acceptDouble
    BY <1>1 DEF Next, vars, roll, playTurn, PlayLine, offerDouble, declineDouble, resign,
                forfeit, Concede
  <2>2. /\ pendingDoubler = activePlayer /\ cube.owner \in {Null, activePlayer}
        /\ cube.value \in Nat
    BY <1>1, <2>1 DEF EngineInv, OfferOpen, TypeOK, CubeValue, acceptDouble
  <2>. QED BY <2>1, <2>2 DEF acceptDouble, inactivePlayer
<1>2. EngineInv /\ [Next]_vars => [TurnedByItsOwner]_vars
  BY <1>1 DEF TurnedByItsOwner
<1>. QED BY <1>2, InvHolds, PTL DEF Spec, CubeChangesHands

(***************************************************************************)
(* Turns obey the rules                                                    *)
(***************************************************************************)

LEMMA TurnGoesForward ==
  ASSUME EngineInv, phase = "AWAITING_MOVE", NEW l \in Accepted, PlayLine(l)
  PROVE  MovesForward
<1>1. /\ board' = l.board /\ activePlayer \in Player
      /\ Reached(board, l.board, activePlayer)
  BY TheTurn DEF PlayLine, LineOK
<1>. QED BY <1>1 DEF Reached, MovesForward, inactivePlayer

LEMMA TurnPassesWhenForced ==
  ASSUME EngineInv, phase = "AWAITING_MOVE", NEW l \in Accepted, l.board = board,
         NEW d \in {dice.first, dice.second}
  PROVE  SingleMoves(board, activePlayer, d) = {}
<1>1. /\ Sound(board) /\ activePlayer \in Player /\ dice \in Roll
      /\ currentMaxFromHead \in 1..4
      /\ Accepted = maximalNow.lines
      /\ LineOK(l, board, activePlayer, Len(l.moves), currentMaxFromHead)
  BY TheTurn
<1>2. Len(l.moves) = 0
  <2>1. Len(l.moves) > 0 => Nearer(board, l.board, activePlayer)
    BY <1>1 DEF LineOK
  <2>2. \A k : Behind(board, activePlayer, k) \in Nat
    BY <1>1, BehindIs
  <2>3. ~Nearer(board, board, activePlayer)
    BY <2>2 DEF Nearer
  <2>4. l.moves \in Seq(Move)
    BY <1>1 DEF LineOK
  <2>5. Len(l.moves) \in Nat
    BY <2>4
  <2>. QED BY <2>1, <2>3, <2>5
<1>3. SUFFICES ASSUME NEW m \in SingleMoves(board, activePlayer, d) PROVE FALSE
  OBVIOUS
<1>. DEFINE e == Play(Start(board, dice), activePlayer, m)
<1>4. d \in Left(diceOf(dice)) /\ currentMaxFromHead \in Nat /\ currentMaxFromHead > 0
  BY <1>1, DiceToPlay
<1>5. m \in NextMoves(Start(board, dice), activePlayer, currentMaxFromHead)
  BY <1>4, AnyOpener
<1>6. e \in enumerate(board, activePlayer, dice, currentMaxFromHead) /\ Len(e.moves) = 1
  BY <1>1, <1>4, <1>5, Openers
<1>7. l \in maximal(board, activePlayer, dice, currentMaxFromHead).lines
  BY <1>1 DEF maximalNow
<1>. HIDE DEF e
<1>8. Len(e.moves) <= Len(l.moves)
  BY <1>1, <1>4, <1>6, <1>7, MaximalAre
<1>. QED BY <1>2, <1>6, <1>8

LEMMA TurnKeepsHeadRule ==
  ASSUME EngineInv, phase = "AWAITING_MOVE", NEW l \in Accepted, PlayLine(l), Long
  PROVE  LeavesHeadAlone
<1>. DEFINE p == activePlayer
            q == opponent(p)
<1>1. /\ Sound(board) /\ p \in Player /\ dice \in Roll
      /\ LineOK(l, board, p, Len(l.moves), currentMaxFromHead)
      /\ board' = l.board
  BY TheTurn DEF PlayLine
<1>2. q \in Player /\ Player = {p, q} /\ q # p
  BY <1>1, Opponents
<1>3. Sound(l.board)
  BY <1>1 DEF LineOK
<1>4. \A a \in Player : /\ CountAt(board, a, headPoint(a)) \in Nat
                        /\ CountAt(l.board, a, headPoint(a)) \in Nat
  BY <1>1, <1>3, HeadIsFarthest, Counts, BoardsAreAny DEF Sound
<1>5. CountAt(board, p, headPoint(p)) - CountAt(board', p, headPoint(p)) <= currentMaxFromHead
  <2>1. /\ TakenOffHead(board, l.board, p) <= l.head /\ l.head <= currentMaxFromHead
        /\ l.head \in Nat /\ currentMaxFromHead \in Nat
    BY <1>1, TheTurn DEF LineOK
  <2>2. TakenOffHead(board, l.board, p)
          = CountAt(board, p, headPoint(p)) - CountAt(board', p, headPoint(p))
    BY <1>1 DEF TakenOffHead
  <2>3. CountAt(board, p, headPoint(p)) - CountAt(board', p, headPoint(p)) \in Int
    BY <1>1, <1>4
  <2>. QED BY <2>1, <2>2, <2>3
<1>6. CountAt(board, q, headPoint(q)) - CountAt(board', q, headPoint(q)) = 0
  <2>1. headPoint(q) \in Point
    BY <1>2, HeadIsFarthest
  <2>2. CountAt(l.board, q, headPoint(q)) = CountAt(board, q, headPoint(q))
    BY <1>1, <2>1 DEF LineOK, Reached
  <2>. QED BY <1>1, <1>2, <1>4, <2>2
<1>7. ASSUME currentMaxFromHead # 1
      PROVE  /\ currentMaxFromHead = 2 /\ isOpeningTurn
             /\ dice.first = dice.second /\ dice.first \in HeadDoubles
  BY <1>7 DEF currentMaxFromHead, maxFromHeadFor, isDouble
<1>8. ASSUME CountAt(board, p, headPoint(p)) - CountAt(board', p, headPoint(p)) > 1
      PROVE  /\ CountAt(board, p, headPoint(p)) - CountAt(board', p, headPoint(p)) = 2
             /\ currentMaxFromHead # 1
  <2>1. CountAt(board, p, headPoint(p)) - CountAt(board', p, headPoint(p)) \in Int
    BY <1>1, <1>4
  <2>2. currentMaxFromHead # 1
    BY <1>5, <1>8, <2>1
  <2>3. currentMaxFromHead = 2
    BY <1>7, <2>2
  <2>. QED BY <1>5, <1>8, <2>1, <2>2, <2>3
<1>. QED BY <1>2, <1>6, <1>7, <1>8 DEF LeavesHeadAlone

(* Every turn obeys the rules: the mover's checkers only come nearer, the  *)
(* other side's are set back only by hits and in Long Narda not at all, a  *)
(* pass is forced, and the head rule of Long Narda is kept.                *)
THEOREM EveryTurnObeysTheRules == Spec => TurnsObeyRules
<1>1. ASSUME EngineInv, playTurn
      PROVE  TurnObeysRules
  <2>1. PICK l \in Accepted : PlayLine(l)
    BY <1>1 DEF playTurn
  <2>2. phase = "AWAITING_MOVE" /\ board' = l.board
    BY <1>1, <2>1 DEF playTurn, PlayLine
  <2>3. MovesForward
    BY <1>1, <2>1, <2>2, TurnGoesForward
  <2>4. PassIsForced
    BY <1>1, <2>1, <2>2, TurnPassesWhenForced DEF PassIsForced
  <2>5. Long => LeavesHeadAlone
    BY <1>1, <2>1, <2>2, TurnKeepsHeadRule
  <2>. QED BY <2>3, <2>4, <2>5 DEF TurnObeysRules
<1>2. ASSUME EngineInv, board' = board,
             phase = "AWAITING_MOVE" => phase' # "AWAITING_ROLL"
      PROVE  TurnObeysRules
  <2>1. Sound(board) /\ activePlayer \in Player /\ inactivePlayer \in Player
    BY <1>2, Opponents DEF EngineInv, TypeOK, Conserved, Sound, inactivePlayer
  <2>2. \A p \in Player : \A k : Behind(board, p, k) \in Nat
    BY <2>1, BehindIs
  <2>3. MovesForward
    BY <1>2, <2>1, <2>2 DEF MovesForward, inactivePlayer
  <2>4. PassIsForced
    BY <1>2 DEF PassIsForced
  <2>5. ASSUME Long PROVE LeavesHeadAlone
    <3>1. \A p \in Player : CountAt(board, p, headPoint(p)) \in Nat
      BY <2>1, <2>5, HeadIsFarthest, Counts, BoardsAreAny DEF Sound
    <3>. QED BY <1>2, <3>1 DEF LeavesHeadAlone
  <2>. QED BY <2>3, <2>4, <2>5 DEF TurnObeysRules
<1>3. ASSUME EngineInv, [Next]_vars, ~playTurn
      PROVE  board' = board /\ (phase = "AWAITING_MOVE" => phase' # "AWAITING_ROLL")
  BY <1>3 DEF Next, vars, roll, offerDouble, acceptDouble, declineDouble, resign, forfeit, Concede
<1>4. EngineInv /\ [Next]_vars => [TurnObeysRules]_vars
  BY <1>1, <1>2, <1>3
<1>. QED BY <1>4, InvHolds, PTL DEF Spec, TurnsObeyRules

(***************************************************************************)
(* Nobody is blocked for ever                                              *)
(***************************************************************************)

LEMMA LargestExists ==
  ASSUME NEW M \in Nat, NEW S \in SUBSET (1..M), S # {}
  PROVE  \E x \in S : \A y \in S : y <= x
<1>. DEFINE T == {M - x : x \in S}
            R == OpToRel(<, Nat)
<1>1. T \subseteq Nat /\ T # {}
  <2>1. ASSUME NEW x \in S PROVE M - x \in Nat
    <3>1. x \in 1..M
      OBVIOUS
    <3>. QED BY <3>1
  <2>. QED BY <2>1
<1>2. IsWellFoundedOn(R, Nat)
  BY NatLessThanWellFounded
<1>3. \A i, j \in Nat : <<i, j>> \in R <=> i < j
  BY DEF OpToRel
<1>4. PICK t \in T : \A u \in T : ~(<<u, t>> \in R)
  <2>. HIDE DEF T, R
  <2>. QED BY <1>1, <1>2, WFMin
<1>5. \A u \in T : ~(u < t)
  <2>. HIDE DEF R, T
  <2>. QED BY <1>1, <1>3, <1>4
<1>6. PICK x \in S : t = M - x
  OBVIOUS
<1>7. ASSUME NEW y \in S
      PROVE  y <= x
  <2>1. ~(M - y < M - x)
    BY <1>5, <1>6
  <2>2. x \in Int /\ y \in Int
    OBVIOUS
  <2>. QED BY <2>1, <2>2
<1>. QED BY <1>7

(* Both sides have a checker on the bar and every point to enter on is     *)
(* made by the other.                                                      *)
BothShut(b) ==
  \A p \in Player : b.bar[p] > 0 /\ \A d \in Die : ~canLandOn(b, p, entryPoint(p, d))

(* In Long Narda nobody is ever on the bar; in backgammon never are both   *)
(* sides shut out.                                                         *)
Free(b) ==
  /\ Long => \A p \in Player : b.bar[p] = 0
  /\ ~Long => ~BothShut(b)

(* Whoever still has a checker on the bar after a move has just entered    *)
(* one, and may enter where it is.                                         *)
LEMMA MoveKeepsFree ==
  ASSUME NEW b, Sound(b), Free(b), NEW p \in Player, NEW d \in Die,
         NEW m \in SingleMoves(b, p, d)
  PROVE  Free(applyMove(b, p, m))
<1>. DEFINE c == applyMove(b, p, m)
            q == opponent(p)
<1>0. b \in AnyBoard /\ b \in Board
  BY BoardsAreAny DEF Sound
<1>1. m \in Move /\ m.die = d /\ CanMove(b, p, m.from, m.to)
  BY <1>0, GeneratedMoves
<1>2. Moved(b, c, p, m.from, m.to)
  BY <1>0, <1>1, ApplyMove
<1>3. Player = {p, q} /\ p # q /\ q \in Player
  BY Opponents
<1>4. c \in AnyBoard
  BY <1>2 DEF Moved
<1>. HIDE DEF c
<1>5. /\ c.bar[p] = b.bar[p] - (IF m.from = BAR THEN 1 ELSE 0)
      /\ c.bar[q] = b.bar[q] + (IF Hit(b, p, m.to) THEN 1 ELSE 0)
  BY <1>2 DEF Moved
<1>6. b.bar[p] \in Nat /\ b.bar[q] \in Nat
  BY <1>0, <1>3, Sizes DEF Board
<1>7. ASSUME Long PROVE \A a \in Player : c.bar[a] = 0
  <2>1. b.bar[p] = 0 /\ b.bar[q] = 0
    BY <1>3, <1>7 DEF Free
  <2>2. m.from # BAR /\ ~Hit(b, p, m.to)
    BY <1>1, <1>7 DEF CanMove, Hit
  <2>3. c.bar[p] = b.bar[p] - 0 /\ c.bar[q] = b.bar[q] + 0
    BY <1>5, <2>2
  <2>4. c.bar[p] = 0 /\ c.bar[q] = 0
    BY <2>1, <2>3
  <2>. QED BY <1>3, <2>4
<1>8. ASSUME ~Long, c.bar[p] > 0 PROVE \E e \in Die : canLandOn(c, p, entryPoint(p, e))
  <2>1. b.bar[p] > 0
    BY <1>5, <1>6, <1>8
  <2>2. m \in Entries(b, p, d)
    BY <1>8, <2>1 DEF SingleMoves, generateSingleMoves
  <2>3. m.to = entryPoint(p, d) /\ m.from = BAR
    BY <2>2 DEF Entries
  <2>4. m.to \in Point
    BY <1>8, <2>3, EntryPip
  <2>5. CountAt(c, q, m.to) = IF Hit(b, p, m.to) THEN 0 ELSE CountAt(b, q, m.to)
    BY <1>2, <2>4 DEF Moved
  <2>6. m.to # OFF
    BY <2>4 DEF Point, OFF
  <2>7. CountAt(b, q, m.to) <= 1
    BY <1>1, <1>8, <2>6 DEF CanMove, canLandOn
  <2>8. CountAt(c, q, m.to) <= 1
    BY <2>5, <2>7
  <2>. QED BY <1>8, <2>3, <2>8 DEF canLandOn
<1>9. ~Long => ~BothShut(c)
  BY <1>8 DEF BothShut
<1>. QED BY <1>7, <1>9 DEF Free, c

LEMMA LinesKeepFree ==
  ASSUME NEW b, Sound(b), Free(b), NEW p \in Player, NEW r \in Roll, NEW h \in Nat,
         NEW l \in enumerate(b, p, r, h)
  PROVE  Free(l.board)
<1>1. ASSUME NEW n \in Nat, NEW L,
             \A e \in L : LineOK(e, b, p, n, h) /\ Free(e.board)
      PROVE  \A e \in Extend(L, p, h) : Free(e.board)
  <2>. SUFFICES ASSUME NEW e \in Extend(L, p, h) PROVE Free(e.board)
    OBVIOUS
  <2>1. PICK k \in L : \E m \in NextMoves(k, p, h) : e = Play(k, p, m)
    BY Extended
  <2>2. PICK m \in NextMoves(k, p, h) : e = Play(k, p, m)
    BY <2>1
  <2>3. Sound(k.board) /\ Free(k.board)
    BY <1>1 DEF LineOK
  <2>4. m.die \in Die /\ m \in SingleMoves(k.board, p, m.die)
    BY <2>3, NextMove
  <2>5. e.board = applyMove(k.board, p, m)
    BY <2>2 DEF Play
  <2>. QED BY <2>3, <2>4, <2>5, MoveKeepsFree
<1>2. \A e \in Lines0(b, p, r, h) : Free(e.board)
  BY DEF Lines0, Start
<1>3. \A e \in Lines1(b, p, r, h) : Free(e.board)
  BY <1>1, <1>2, LinesOK DEF Lines1
<1>4. \A e \in Lines2(b, p, r, h) : Free(e.board)
  BY <1>1, <1>3, LinesOK DEF Lines2
<1>5. \A e \in Lines3(b, p, r, h) : Free(e.board)
  BY <1>1, <1>4, LinesOK DEF Lines3
<1>6. \A e \in Lines4(b, p, r, h) : Free(e.board)
  BY <1>1, <1>5, LinesOK DEF Lines4
<1>. QED BY <1>2, <1>3, <1>4, <1>5, <1>6, Enumerated

(* Who is not off and has nobody on the bar has a checker on a point; the  *)
(* one with the longest way, if it is stuck, is farther away than any die  *)
(* carries it and finds every point before it blocked.                     *)
LEMMA StuckBehindABlock ==
  ASSUME NEW b, Sound(b), NEW p \in Player, b.bar[p] = 0, b.off[p] < CHECKERS_PER_PLAYER,
         \A d \in Die : SingleMoves(b, p, d) = {}
  PROVE  \E h \in Point :
           /\ h > MAX_DIE
           /\ \A x \in Owned(b, p) : Pip(p, x) <= h
           /\ \A d \in Die : ~canLandOn(b, p, PointAt(p, h - d))
<1>0. b \in Board /\ b \in AnyBoard
  BY BoardsAreAny DEF Sound
<1>1. Owned(b, p) # {}
  <2>. SUFFICES ASSUME Owned(b, p) = {} PROVE FALSE
    OBVIOUS
  <2>1. \A x \in Point : CountAt(b, p, x) = 0
    BY DEF Owned, CountAt
  <2>2. Pile(Tally(b, p), Point) = {}
    <3>1. ASSUME NEW e \in Pile(Tally(b, p), Point) PROVE FALSE
      <4>1. PICK x \in Point : \E k \in 1..Tally(b, p)[x] : e = <<x, k>>
        BY <3>1, PileElements
      <4>2. Tally(b, p)[x] = 0
        BY <2>1 DEF Tally
      <4>. QED BY <4>1, <4>2
    <3>. QED BY <3>1
  <2>3. Cardinality(Pile(Tally(b, p), Point)) = 0
    BY <2>2, FS_EmptySet
  <2>4. totalCheckers(b, p) = 0 + b.bar[p] + b.off[p]
    BY <1>0, <2>3, Tallies, Totals, Sizes
  <2>5. b.off[p] \in Nat /\ totalCheckers(b, p) = CHECKERS_PER_PLAYER
    BY <1>0, Sizes DEF Sound, Board
  <2>. QED BY <2>4, <2>5, Sizes
<1>2. \A x \in Owned(b, p) : x \in Point /\ Owns(b, p, x) /\ Pip(p, x) \in Point
  BY PipAndBack DEF Owned
<1>3. PICK x \in Owned(b, p) : \A y \in Owned(b, p) : Pip(p, y) <= Pip(p, x)
  <2>. DEFINE S == {Pip(p, y) : y \in Owned(b, p)}
  <2>1. S \in SUBSET (1..POINT_COUNT) /\ S # {}
    BY <1>1, <1>2 DEF Point
  <2>2. \E z \in S : \A y \in S : y <= z
    <3>. HIDE DEF S
    <3>. QED BY <2>1, LargestExists, Sizes
  <2>. QED BY <2>2
<1>. DEFINE h == Pip(p, x)
<1>4. h \in Point /\ h \in Nat /\ h > 0
  BY <1>2, <1>3 DEF Point
<1>5. \A d \in Die : d \in Nat /\ d > 0 /\ d <= MAX_DIE
  BY Sizes DEF Die
<1>6. \A d \in Die : Steps(b, p, d) = {} /\ BearOffs(b, p, d) = {}
  BY DEF SingleMoves, generateSingleMoves, generateSingleMovesLong
<1>7. h > MAX_DIE
  <2>. SUFFICES ASSUME ~(h > MAX_DIE) PROVE FALSE
    OBVIOUS
  <2>1. h \in Die /\ h <= HOME
    BY <1>4, Sizes DEF Die
  <2>2. allCheckersInHome(b, p)
    <3>1. ASSUME NEW y \in Owned(b, p) PROVE InHome(p, y)
      <4>1. Pip(p, y) \in Int /\ Pip(p, y) <= h
        BY <1>2, <1>3 DEF Point
      <4>. QED BY <1>4, <2>1, <4>1, Sizes DEF InHome
    <3>. QED BY <3>1 DEF allCheckersInHome
  <2>3. MayBearOff(b, p, x, h)
    BY <2>2 DEF MayBearOff
  <2>4. [from |-> x, to |-> OFF, die |-> h] \in BearOffs(b, p, h)
    BY <1>3, <1>4, <2>3 DEF BearOffs
  <2>. QED BY <1>6, <2>1, <2>4
<1>8. ASSUME NEW d \in Die, canLandOn(b, p, PointAt(p, h - d))
      PROVE  FALSE
  <2>1. h > d
    BY <1>4, <1>5, <1>7, Sizes
  <2>2. [from |-> x, to |-> PointAt(p, h - d), die |-> d] \in Steps(b, p, d)
    BY <1>3, <1>8, <2>1 DEF Steps
  <2>. QED BY <1>6, <2>2
<1>. HIDE DEF h
<1>9. \A y \in Owned(b, p) : Pip(p, y) <= h
  BY <1>3 DEF h
<1>. QED BY <1>4, <1>7, <1>8, <1>9

(* Of two points in a row, the one behind steps to the one before it.      *)
LEMMA StepsAlong ==
  ASSUME NEW b, Sound(b), NEW p \in Player, Long \/ b.bar[p] = 0,
         NEW x \in Point, NEW y \in Point, Owns(b, p, x), Owns(b, p, y),
         Pip(p, x) = Pip(p, y) + 1
  PROVE  \E d \in Die : SingleMoves(b, p, d) # {}
<1>0. b \in AnyBoard
  BY BoardsAreAny DEF Sound
<1>1. 1 \in Die
  BY Sizes DEF Die
<1>2. Pip(p, y) \in Nat /\ Pip(p, y) > 0
  BY PipAndBack DEF Point
<1>3. Pip(p, x) - 1 = Pip(p, y) /\ Pip(p, x) > 1
  BY <1>2
<1>4. PointAt(p, Pip(p, x) - 1) = y
  BY <1>3, PipAndBack
<1>5. canLandOn(b, p, y)
  <2>1. CountAt(b, opponent(p), y) = 0
    BY <1>0, Counts
  <2>. QED BY <2>1 DEF canLandOn
<1>6. [from |-> x, to |-> PointAt(p, Pip(p, x) - 1), die |-> 1] \in Steps(b, p, 1)
  BY <1>3, <1>4, <1>5 DEF Steps, Owned
<1>7. SingleMoves(b, p, 1) # {}
  <2>1. ~(b.bar[p] > 0) \/ Long
    OBVIOUS
  <2>. QED BY <1>6, <2>1 DEF SingleMoves, generateSingleMoves, generateSingleMovesLong
<1>. QED BY <1>1, <1>7

LEMMA Blockers ==
  ASSUME NEW b, Sound(b), NEW p \in Player, NEW x \in Point, ~canLandOn(b, p, x)
  PROVE  Owns(b, opponent(p), x)
<1>1. b \in AnyBoard /\ opponent(p) \in Player
  BY BoardsAreAny, Opponents DEF Sound
<1>2. CountAt(b, opponent(p), x) \in Nat
  BY <1>1, Counts
<1>3. CountAt(b, opponent(p), x) > 0
  BY <1>2 DEF canLandOn
<1>. QED BY <1>1, <1>3, Counts

(* What is near for one side is far for the other; in Long Narda half a    *)
(* round lies between the two.                                             *)
LEMMA OtherPip ==
  ASSUME NEW p \in Player, NEW x \in Point
  PROVE  /\ ~Long => Pip(opponent(p), x) = BAR_PIP - Pip(p, x)
         /\ Long => Pip(opponent(p), x) = IF Pip(p, x) > Half THEN Pip(p, x) - Half
                                          ELSE Pip(p, x) + Half
<1>1. CASE ~Long
  BY <1>1, Sizes DEF Pip, pipDistance, opponent, Player, BAR_PIP, Point
<1>2. CASE Long
  BY <1>2, Sizes DEF Pip, pipToOff, opponent, Player, Point
<1>. QED BY <1>1, <1>2

(* In backgammon, one side with nobody on the bar is enough: the block in  *)
(* front of its last checker can itself step, or the block that shuts the  *)
(* other out can.                                                          *)
LEMMA ShortMoves ==
  ASSUME ~Long, MAX_DIE > 1, NEW b, Sound(b), NEW p \in Player,
         b.bar[p] = 0, b.off[p] < CHECKERS_PER_PLAYER
  PROVE  \E a \in Player, d \in Die : SingleMoves(b, a, d) # {}
<1>. SUFFICES ASSUME \A a \in Player, d \in Die : SingleMoves(b, a, d) = {} PROVE FALSE
  OBVIOUS
<1>. DEFINE q == opponent(p)
<1>0. q \in Player /\ opponent(q) = p
  BY Opponents
<1>1. 1 \in Die /\ 2 \in Die
  BY Sizes DEF Die
<1>2. CASE b.bar[q] = 0
  <2>1. PICK h \in Point : h > MAX_DIE /\ \A d \in Die : ~canLandOn(b, p, PointAt(p, h - d))
    BY StuckBehindABlock
  <2>. DEFINE x == PointAt(p, h - 2)
              y == PointAt(p, h - 1)
  <2>2. h - 1 \in Point /\ h - 2 \in Point
    BY <2>1, Sizes DEF Point
  <2>3. x \in Point /\ Pip(p, x) = h - 2 /\ y \in Point /\ Pip(p, y) = h - 1
    BY <2>2, PipAndBack
  <2>4. Owns(b, q, x) /\ Owns(b, q, y)
    BY <1>1, <2>1, <2>3, Blockers
  <2>5. Pip(q, x) = BAR_PIP - (h - 2) /\ Pip(q, y) = BAR_PIP - (h - 1)
    BY <2>3, OtherPip
  <2>6. Pip(q, x) = Pip(q, y) + 1
    BY <2>5, Sizes DEF BAR_PIP, Point
  <2>. QED BY <1>0, <1>2, <2>3, <2>4, <2>6, StepsAlong
<1>3. CASE b.bar[q] # 0
  <2>1. b.bar[q] > 0
    BY <1>0, <1>3, Sizes DEF Sound, Board
  <2>2. ASSUME NEW d \in Die
        PROVE  ~canLandOn(b, q, entryPoint(q, d))
    <3>1. Entries(b, q, d) = {}
      BY <1>0, <2>1 DEF SingleMoves, generateSingleMoves
    <3>. QED BY <3>1 DEF Entries
  <2>. DEFINE x == entryPoint(q, 2)
              y == entryPoint(q, 1)
  <2>3. x \in Point /\ Pip(q, x) = BAR_PIP - 2 /\ y \in Point /\ Pip(q, y) = BAR_PIP - 1
    BY <1>0, <1>1, EntryPip
  <2>4. Owns(b, p, x) /\ Owns(b, p, y)
    BY <1>0, <1>1, <2>2, <2>3, Blockers
  <2>5. Pip(q, x) = BAR_PIP - Pip(p, x) /\ Pip(q, y) = BAR_PIP - Pip(p, y)
    BY <2>3, OtherPip
  <2>6. Pip(p, x) \in Int /\ Pip(p, y) \in Int /\ BAR_PIP \in Int
    BY <2>3, PipAndBack, Sizes DEF Point, BAR_PIP
  <2>7. Pip(p, x) = Pip(p, y) + 1
    BY <2>3, <2>5, <2>6
  <2>. QED BY <2>3, <2>4, <2>7, StepsAlong
<1>. QED BY <1>2, <1>3

LEMMA StepsBack ==
  ASSUME NEW h \in Point, h > MAX_DIE, NEW n \in Nat, 1 < n, n <= MAX_DIE
  PROVE  h - n \in Point /\ h - (n - 1) = (h - n) + 1
<1>1. h \in Int /\ h <= POINT_COUNT /\ POINT_COUNT \in Int /\ MAX_DIE \in Int
  BY Sizes DEF Point
<1>2. h - n \in Int /\ 1 <= h - n /\ h - n <= POINT_COUNT
  BY <1>1
<1>3. h - (n - 1) = (h - n) + 1
  BY <1>1
<1>. QED BY <1>1, <1>2, <1>3 DEF Point

(* In Long Narda a block can step unless it lies across the other side's   *)
(* head; with a die of two faces both blocks would have to, and the board  *)
(* would have no more than four points.                                    *)
LEMMA LongMoves ==
  ASSUME Long, MAX_DIE > 1, POINT_COUNT > 4, NEW b, Sound(b),
         \A a \in Player : b.bar[a] = 0 /\ b.off[a] < CHECKERS_PER_PLAYER
  PROVE  \E a \in Player, d \in Die : SingleMoves(b, a, d) # {}
<1>. SUFFICES ASSUME \A a \in Player, d \in Die : SingleMoves(b, a, d) = {} PROVE FALSE
  OBVIOUS
<1>1. 1 \in Die /\ 2 \in Die
  BY Sizes DEF Die
<1>2. ASSUME NEW p \in Player, NEW h \in Point, NEW k \in Point,
             h > MAX_DIE, \A d \in Die : ~canLandOn(b, p, PointAt(p, h - d)),
             NEW d \in Die, h - d = k, NEW e \in Die, h - e = k + 1
      PROVE  k = Half
  <2>. DEFINE q == opponent(p)
              x == PointAt(p, k + 1)
              y == PointAt(p, k)
  <2>1. k + 1 \in Point
    <3>1. e \in Int /\ e > 0 /\ h \in Int /\ h <= POINT_COUNT /\ k \in Int /\ k > 0
      BY Sizes DEF Point, Die
    <3>2. k + 1 <= POINT_COUNT
      BY <1>2, <3>1, Sizes
    <3>. QED BY <3>1, <3>2, Sizes DEF Point
  <2>2. x \in Point /\ Pip(p, x) = k + 1 /\ y \in Point /\ Pip(p, y) = k
    BY <2>1, PipAndBack
  <2>3. ~canLandOn(b, p, PointAt(p, h - d)) /\ ~canLandOn(b, p, PointAt(p, h - e))
    BY <1>2
  <2>4. Owns(b, q, x) /\ Owns(b, q, y)
    BY <1>2, <2>2, <2>3, Blockers
  <2>5. Pip(q, x) = (IF k + 1 > Half THEN k + 1 - Half ELSE k + 1 + Half)
          /\ Pip(q, y) = (IF k > Half THEN k - Half ELSE k + Half)
    <3>1. /\ Pip(q, x) = IF Pip(p, x) > Half THEN Pip(p, x) - Half ELSE Pip(p, x) + Half
          /\ Pip(q, y) = IF Pip(p, y) > Half THEN Pip(p, y) - Half ELSE Pip(p, y) + Half
      BY <2>2, OtherPip
    <3>2. Pip(p, x) = k + 1 /\ Pip(p, y) = k
      BY <2>2
    <3>. HIDE DEF x, y, q
    <3>3. k \in Int /\ k + 1 \in Int /\ Half \in Int
      BY <2>1, Sizes DEF Point
    <3>4. Pip(q, x) = IF k + 1 > Half THEN k + 1 - Half ELSE k + 1 + Half
      BY <3>1, <3>2, <3>3
    <3>5. Pip(q, y) = IF k > Half THEN k - Half ELSE k + Half
      BY <3>1, <3>2, <3>3
    <3>. QED BY <3>4, <3>5
  <2>6. ~(Pip(q, x) = Pip(q, y) + 1)
    BY <2>2, <2>4, StepsAlong, Opponents
  <2>. QED BY <2>5, <2>6, Sizes DEF Point
<1>3. ASSUME NEW p \in Player, NEW h \in Point,
             h > MAX_DIE, \A d \in Die : ~canLandOn(b, p, PointAt(p, h - d))
      PROVE  h = Half + 2 /\ MAX_DIE = 2
  <2>1. ASSUME NEW n \in Nat, 1 < n, n <= MAX_DIE
        PROVE  h - n = Half
    <3>1. h - n \in Point /\ h - (n - 1) = (h - n) + 1
      BY <1>3, <2>1, StepsBack
    <3>2. n \in Die /\ n - 1 \in Die
      BY <2>1, Sizes DEF Die
    <3>. QED BY <1>2, <1>3, <3>1, <3>2
  <2>2. h - 2 = Half
    BY <2>1, Sizes
  <2>3. MAX_DIE > 2 => h - 3 = Half
    BY <2>1, Sizes
  <2>. QED BY <2>2, <2>3, Sizes DEF Point
<1>4. "White" \in Player /\ "Black" \in Player /\ opponent("White") = "Black"
  BY DEF Player, opponent
<1>5. PICK h \in Point :
        /\ h > MAX_DIE
        /\ \A d \in Die : ~canLandOn(b, "White", PointAt("White", h - d))
  BY <1>4, StuckBehindABlock
<1>6. PICK k \in Point :
        /\ k > MAX_DIE
        /\ \A x \in Owned(b, "Black") : Pip("Black", x) <= k
        /\ \A d \in Die : ~canLandOn(b, "Black", PointAt("Black", k - d))
  BY <1>4, StuckBehindABlock
<1>7. h - 2 = Half /\ k = Half + 2
  BY <1>3, <1>4, <1>5, <1>6, Sizes DEF Point
<1>. DEFINE x == PointAt("White", Half)
<1>8. Half \in Point
  BY Sizes DEF Point
<1>9. x \in Point /\ Pip("White", x) = Half
  BY <1>4, <1>8, PipAndBack
<1>10. Owns(b, "Black", x)
  BY <1>1, <1>4, <1>5, <1>7, <1>9, Blockers
<1>11. Pip("Black", x) = Half + Half
  BY <1>4, <1>9, OtherPip, Sizes
<1>12. Half + Half <= Half + 2
  BY <1>6, <1>7, <1>9, <1>10, <1>11 DEF Owned
<1>. QED BY <1>12, Sizes

(* In a game of backgammon both sides are never shut out, in one of Long   *)
(* Narda nobody is on the bar.                                             *)
NobodyShut == Free(board)

LEMMA FreeInitially == Init => NobodyShut
<1>. SUFFICES ASSUME Init PROVE NobodyShut
  OBVIOUS
<1>1. \A p \in Player : board.bar[p] = 0
  BY DEF Init, NoneOff
<1>. QED BY <1>1 DEF NobodyShut, Free, BothShut, Player

LEMMA FreeKept == EngineInv /\ NobodyShut /\ [Next]_vars => NobodyShut'
<1>. SUFFICES ASSUME EngineInv, NobodyShut, [Next]_vars PROVE Free(board')
  BY DEF NobodyShut, Free, BothShut, canLandOn, CountAt, Owns
<1>0. Free(board)
  BY DEF NobodyShut
<1>1. CASE playTurn
  <2>1. PICK l \in Accepted : PlayLine(l)
    BY <1>1 DEF playTurn
  <2>2. /\ Sound(board) /\ activePlayer \in Player /\ dice \in Roll
        /\ currentMaxFromHead \in Nat /\ Accepted = maximalNow.lines
    BY <1>1, TheTurn DEF playTurn
  <2>3. l \in enumerate(board, activePlayer, dice, currentMaxFromHead)
    BY <2>2, MaximalAre DEF maximalNow
  <2>. QED BY <1>0, <2>1, <2>2, <2>3, LinesKeepFree DEF PlayLine
<1>2. CASE ~playTurn
  <2>1. board' = board
    BY <1>2 DEF Next, vars, roll, offerDouble, acceptDouble, declineDouble, resign, forfeit, Concede
  <2>. QED BY <1>0, <2>1
<1>. QED BY <1>1, <1>2

(* As long as the game runs, one of the players could move with some die,  *)
(* and who has to move has a turn that is accepted: dice of more than one  *)
(* face are enough, on any board but one of four points for Long Narda,    *)
(* where two checkers on a head and two before it hold each other fast.    *)
THEOREM NobodyIsBlockedForEver ==
  ASSUME MAX_DIE > 1, Long => POINT_COUNT > 4
  PROVE  Spec => []NeverStuck
<1>1. Spec => []NobodyShut
  BY FreeInitially, FreeKept, InvHolds, PTL DEF Spec
<1>2. EngineInv /\ NobodyShut => SomeoneCanMove
  <2>. SUFFICES ASSUME EngineInv, NobodyShut, phase # "GAME_OVER"
                PROVE  \E p \in Player, d \in Die : SingleMoves(board, p, d) # {}
    BY DEF SomeoneCanMove
  <2>1. /\ Sound(board) /\ Free(board)
        /\ \A p \in Player : board.off[p] < CHECKERS_PER_PLAYER
    BY DEF EngineInv, TypeOK, Conserved, StillOn, Sound, NobodyShut
  <2>2. CASE Long
    BY <2>1, <2>2, LongMoves DEF Free
  <2>3. CASE ~Long
    <3>1. CASE \E p \in Player : board.bar[p] = 0
      BY <2>1, <2>3, <3>1, ShortMoves
    <3>2. CASE \A p \in Player : board.bar[p] # 0
      <4>1. \A p \in Player : board.bar[p] > 0
        BY <2>1, <3>2, Sizes DEF Sound, Board
      <4>2. PICK p \in Player, d \in Die : canLandOn(board, p, entryPoint(p, d))
        BY <2>1, <2>3, <4>1 DEF Free, BothShut
      <4>3. Entries(board, p, d) # {}
        BY <4>2 DEF Entries
      <4>. QED BY <2>3, <4>1, <4>3 DEF SingleMoves, generateSingleMoves
    <3>. QED BY <3>1, <3>2
  <2>. QED BY <2>2, <2>3
<1>. QED BY <1>1, <1>2, InvHolds, ATurnIsAlwaysAccepted, PTL DEF NeverStuck
=============================================================================
