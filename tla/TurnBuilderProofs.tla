------------------------- MODULE TurnBuilderProofs -------------------------
(***************************************************************************)
(* Proofs about the client's turn builder, for boards and dice of any size *)
(* and both variants.                                                      *)
(***************************************************************************)
EXTENDS TurnBuilder, GameStateProofs, SequenceTheorems

(***************************************************************************)
(* Lines of the search                                                     *)
(***************************************************************************)

Line == [moves : Seq(Move), board : Board, left : [Die -> Nat], head : Nat]

(* The dice played and the dice left are the roll.                         *)
DiceFit(l, r) ==
  /\ isDouble(r) => l.left[r.first] + Len(l.moves) = 4
  /\ ~isDouble(r) => l.left[r.first] + l.left[r.second] + Len(l.moves) = 2
  /\ \A d \in Die : d # r.first /\ d # r.second => l.left[d] = 0

OnLine(l, r, h) == l \in Line /\ Sound(l.board) /\ DiceFit(l, r) /\ l.head <= h

LEMMA StartOnLine ==
  ASSUME NEW b, Sound(b), NEW r \in Roll, NEW h \in Nat
  PROVE  OnLine(Start(b, r), r, h) /\ Len(Start(b, r).moves) = 0
<1>1. b \in Board /\ r.first \in Die /\ r.second \in Die
  BY DEF Sound, Roll
<1>2. diceOf(r) \in [Die -> Nat]
  <2>1. ASSUME NEW d \in Die
        PROVE  (IF isDouble(r) THEN (IF d = r.first THEN 4 ELSE 0)
                ELSE IF d \in {r.first, r.second} THEN 1 ELSE 0) \in Nat
    OBVIOUS
  <2>. QED BY <2>1 DEF diceOf
<1>3. Start(b, r) \in Line /\ Start(b, r).board = b /\ Start(b, r).left = diceOf(r)
        /\ Start(b, r).head = 0 /\ Start(b, r).moves = <<>>
  BY <1>1, <1>2 DEF Start, Line
<1>4. DiceFit(Start(b, r), r)
  BY <1>1, <1>3 DEF DiceFit, diceOf, isDouble
<1>. QED BY <1>3, <1>4 DEF OnLine

LEMMA PlayOnLine ==
  ASSUME NEW p \in Player, NEW r \in Roll, NEW h \in Nat, NEW l, OnLine(l, r, h),
         NEW m \in NextMoves(l, p, h)
  PROVE  /\ OnLine(Play(l, p, m), r, h)
         /\ Len(Play(l, p, m).moves) = Len(l.moves) + 1
         /\ m \in Move /\ m.die \in Left(l.left) /\ ~Throws(l.board, p, m)
         /\ Play(l, p, m).board \in Board
<1>. DEFINE c == applyMove(l.board, p, m)
            e == Play(l, p, m)
            left == [l.left EXCEPT ![m.die] = @ - 1]
<1>1. /\ l.moves \in Seq(Move) /\ l.left \in [Die -> Nat] /\ l.head \in Nat /\ Sound(l.board)
      /\ r.first \in Die /\ r.second \in Die
  BY DEF OnLine, Line, Roll
<1>2. /\ m.die \in Left(l.left) /\ m.die \in Die /\ m \in SingleMoves(l.board, p, m.die)
      /\ l.head + FromHead(p, m) <= h /\ m \in Move
      /\ CanMove(l.board, p, m.from, m.to)
  BY <1>1, NextMove
<1>3. l.board \in AnyBoard
  BY <1>1, BoardsAreAny DEF Sound
<1>4. ~Throws(l.board, p, m)
  BY <1>2, <1>3, GeneratedMoves
<1>5. Sound(c)
  BY <1>1, <1>2, <1>3, ApplyMove, MoveKeepsSound
<1>6. l.left[m.die] \in Nat /\ l.left[m.die] > 0
  BY <1>1, <1>2 DEF Left
<1>7. left \in [Die -> Nat]
        /\ \A d \in Die : left[d] = IF d = m.die THEN l.left[d] - 1 ELSE l.left[d]
  BY <1>1, <1>2, <1>6
<1>8. FromHead(p, m) \in Nat
  BY DEF FromHead
<1>9. e.moves = Append(l.moves, m) /\ e.board = c
        /\ e.left = left /\ e.head = l.head + FromHead(p, m)
        /\ e = [moves |-> e.moves, board |-> e.board, left |-> e.left, head |-> e.head]
  BY DEF Play
<1>10. e.moves \in Seq(Move) /\ Len(e.moves) = Len(l.moves) + 1
  BY <1>1, <1>2, <1>9
<1>11. c \in Board
  BY <1>5 DEF Sound
<1>12. e \in Line
  <2>1. e.head \in Nat
    BY <1>1, <1>8, <1>9
  <2>. HIDE DEF e, c, left
  <2>. QED BY <1>7, <1>9, <1>10, <1>11, <2>1 DEF Line
<1>13. DiceFit(e, r)
  <2>. HIDE DEF e, c, left
  <2>1. DiceFit(l, r) /\ Len(l.moves) \in Nat
    BY <1>1 DEF OnLine
  <2>2. m.die = r.first \/ m.die = r.second
    BY <1>2, <1>6, <2>1 DEF DiceFit
  <2>3. \A d \in Die : e.left[d] = IF d = m.die THEN l.left[d] - 1 ELSE l.left[d]
    BY <1>7, <1>9
  <2>4. \A d \in Die : l.left[d] \in Nat
    BY <1>1
  <2>5. l.left[r.first] \in Nat /\ l.left[r.second] \in Nat
    BY <1>1, <2>4
  <2>6. CASE isDouble(r)
    <3>1. m.die = r.first /\ r.second = r.first
      BY <2>2, <2>6 DEF isDouble
    <3>2. e.left[r.first] = l.left[r.first] - 1
      BY <1>1, <2>3, <3>1
    <3>3. l.left[r.first] + Len(l.moves) = 4
      BY <2>1, <2>6 DEF DiceFit
    <3>4. e.left[r.first] + Len(e.moves) = 4
      BY <1>10, <2>1, <2>5, <3>2, <3>3
    <3>5. \A d \in Die : d # r.first /\ d # r.second => e.left[d] = 0
      BY <2>1, <2>3, <3>1 DEF DiceFit
    <3>. QED BY <2>6, <3>4, <3>5 DEF DiceFit
  <2>7. CASE ~isDouble(r)
    <3>1. r.first # r.second
      BY <2>7 DEF isDouble
    <3>0. e.left[r.first] = (IF r.first = m.die THEN l.left[r.first] - 1 ELSE l.left[r.first])
          /\ e.left[r.second]
               = (IF r.second = m.die THEN l.left[r.second] - 1 ELSE l.left[r.second])
      BY <1>1, <2>3
    <3>2. e.left[r.first] + e.left[r.second] = l.left[r.first] + l.left[r.second] - 1
      BY <2>2, <2>5, <3>0, <3>1
    <3>3. l.left[r.first] + l.left[r.second] + Len(l.moves) = 2
      BY <2>1, <2>7 DEF DiceFit
    <3>4. e.left[r.first] \in Int /\ e.left[r.second] \in Int
      BY <1>1, <2>3, <2>5
    <3>5. e.left[r.first] + e.left[r.second] + Len(e.moves) = 2
      <4>1. Len(e.moves) = Len(l.moves) + 1
        BY <1>10
      <4>2. l.left[r.first] \in Int /\ l.left[r.second] \in Int /\ Len(l.moves) \in Nat
        BY <2>1, <2>5
      <4>. DEFINE u == e.left[r.first]
                  v == e.left[r.second]
                  w == l.left[r.first]
                  x == l.left[r.second]
                  i == Len(l.moves)
      <4>3. u \in Int /\ v \in Int /\ w \in Int /\ x \in Int /\ i \in Nat
              /\ u + v = w + x - 1 /\ w + x + i = 2
        BY <3>2, <3>3, <3>4, <4>2
      <4>4. u + v + (i + 1) = 2
        <5>. HIDE DEF u, v, w, x, i
        <5>. QED BY <4>3
      <4>. QED BY <4>1, <4>4
    <3>6. \A d \in Die : d # r.first /\ d # r.second => e.left[d] = 0
      BY <2>1, <2>2, <2>3 DEF DiceFit
    <3>. QED BY <2>7, <3>5, <3>6 DEF DiceFit
  <2>. QED BY <2>6, <2>7
<1>. QED BY <1>2, <1>4, <1>5, <1>9, <1>10, <1>11, <1>12, <1>13 DEF OnLine

(* No line is longer than the roll, and at its end there is no die left.   *)
LEMMA LineEnds ==
  ASSUME NEW p \in Player, NEW r \in Roll, NEW h, NEW l, OnLine(l, r, h)
  PROVE  Len(l.moves) \in 0..4 /\ (Len(l.moves) = 4 => NextMoves(l, p, h) = {})
<1>1. /\ l.left \in [Die -> Nat] /\ r.first \in Die /\ r.second \in Die
      /\ Len(l.moves) \in Nat /\ DiceFit(l, r)
  BY DEF OnLine, Line, Roll
<1>2. \A d \in Die : l.left[d] \in Nat
  BY <1>1
<1>3. Len(l.moves) \in 0..4
  <2>1. l.left[r.first] \in Nat /\ l.left[r.second] \in Nat
    BY <1>1, <1>2
  <2>2. \/ l.left[r.first] + Len(l.moves) = 4
        \/ l.left[r.first] + l.left[r.second] + Len(l.moves) = 2
    BY <1>1 DEF DiceFit
  <2>3. Len(l.moves) <= 4
    BY <1>1, <2>1, <2>2
  <2>4. Len(l.moves) \in Nat
    BY <1>1
  <2>5. \A i \in Nat : i <= 4 => i \in 0..4
    OBVIOUS
  <2>. QED BY <2>3, <2>4, <2>5
<1>4. ASSUME Len(l.moves) = 4 PROVE Left(l.left) = {}
  BY <1>1, <1>2, <1>4 DEF DiceFit, Left, isDouble
<1>. QED BY <1>3, <1>4 DEF NextMoves

(***************************************************************************)
(* What goes on from a line                                                *)
(***************************************************************************)

LEMMA Extends ==
  ASSUME NEW L, NEW p, NEW h, NEW e
  PROVE  e \in Extend(L, p, h) <=> \E l \in L : \E m \in NextMoves(l, p, h) : e = Play(l, p, m)
BY DEF Extend

(* The lines so many moves on are those that go on from its next ones.     *)
LEMMA FromNext ==
  ASSUME NEW l, NEW p, NEW h, NEW e
  PROVE  /\ e \in From1(l, p, h) <=> \E m \in NextMoves(l, p, h) : e = Play(l, p, m)
         /\ e \in From2(l, p, h) <=>
              \E m \in NextMoves(l, p, h) : e \in From1(Play(l, p, m), p, h)
         /\ e \in From3(l, p, h) <=>
              \E m \in NextMoves(l, p, h) : e \in From2(Play(l, p, m), p, h)
         /\ e \in From4(l, p, h) <=>
              \E m \in NextMoves(l, p, h) : e \in From3(Play(l, p, m), p, h)
<1>1. \A k, x : x \in From1(k, p, h) <=> \E m \in NextMoves(k, p, h) : x = Play(k, p, m)
  BY Extends DEF From1
<1>2. \A x : x \in From2(l, p, h) <=>
               \E m \in NextMoves(l, p, h) : x \in From1(Play(l, p, m), p, h)
  <2>1. \A x : x \in From2(l, p, h) <=>
                 \E y \in From1(l, p, h) : \E n \in NextMoves(y, p, h) : x = Play(y, p, n)
    BY Extends DEF From2
  <2>. QED BY <1>1, <2>1
<1>3. \A x : x \in From3(l, p, h) <=>
               \E m \in NextMoves(l, p, h) : x \in From2(Play(l, p, m), p, h)
  <2>1. \A k, x : x \in From2(k, p, h) <=>
                 \E y \in From1(k, p, h) : \E n \in NextMoves(y, p, h) : x = Play(y, p, n)
    BY Extends DEF From2
  <2>2. \A x : x \in From3(l, p, h) <=>
                 \E y \in From2(l, p, h) : \E n \in NextMoves(y, p, h) : x = Play(y, p, n)
    BY Extends DEF From3
  <2>. QED BY <1>2, <2>1, <2>2
<1>4. \A x : x \in From4(l, p, h) <=>
               \E m \in NextMoves(l, p, h) : x \in From3(Play(l, p, m), p, h)
  <2>1. \A k, x : x \in From3(k, p, h) <=>
                 \E y \in From2(k, p, h) : \E n \in NextMoves(y, p, h) : x = Play(y, p, n)
    BY Extends DEF From3
  <2>2. \A x : x \in From4(l, p, h) <=>
                 \E y \in From3(l, p, h) : \E n \in NextMoves(y, p, h) : x = Play(y, p, n)
    BY Extends DEF From4
  <2>. QED BY <1>3, <2>1, <2>2
<1>. QED BY <1>1, <1>2, <1>3, <1>4

LEMMA FromOnLine ==
  ASSUME NEW p \in Player, NEW r \in Roll, NEW h \in Nat, NEW l, OnLine(l, r, h)
  PROVE  /\ \A e \in From1(l, p, h) : OnLine(e, r, h) /\ Len(e.moves) = Len(l.moves) + 1
         /\ \A e \in From2(l, p, h) : OnLine(e, r, h) /\ Len(e.moves) = Len(l.moves) + 2
         /\ \A e \in From3(l, p, h) : OnLine(e, r, h) /\ Len(e.moves) = Len(l.moves) + 3
         /\ \A e \in From4(l, p, h) : OnLine(e, r, h) /\ Len(e.moves) = Len(l.moves) + 4
<1>0. ASSUME NEW L, NEW n \in Nat,
             \A x \in L : OnLine(x, r, h) /\ Len(x.moves) = Len(l.moves) + n
      PROVE  \A e \in Extend(L, p, h) : OnLine(e, r, h) /\ Len(e.moves) = Len(l.moves) + n + 1
  <2>. TAKE e \in Extend(L, p, h)
  <2>1. PICK x \in L : \E m \in NextMoves(x, p, h) : e = Play(x, p, m)
    BY Extends
  <2>2. OnLine(x, r, h) /\ Len(x.moves) = Len(l.moves) + n
    BY <1>0
  <2>. QED BY <2>1, <2>2, PlayOnLine
<1>1. Len(l.moves) \in Nat
  BY LineEnds
<1>2. \A e \in From1(l, p, h) : OnLine(e, r, h) /\ Len(e.moves) = Len(l.moves) + 1
  <2>1. ASSUME NEW e \in From1(l, p, h)
        PROVE  OnLine(e, r, h) /\ Len(e.moves) = Len(l.moves) + 1
    <3>1. PICK m \in NextMoves(l, p, h) : e = Play(l, p, m)
      BY FromNext
    <3>. QED BY <3>1, PlayOnLine
  <2>. QED BY <2>1
<1>3. \A e \in From2(l, p, h) : OnLine(e, r, h) /\ Len(e.moves) = Len(l.moves) + 2
  BY <1>0, <1>1, <1>2 DEF From2
<1>4. \A e \in From3(l, p, h) : OnLine(e, r, h) /\ Len(e.moves) = Len(l.moves) + 3
  BY <1>0, <1>1, <1>3 DEF From3
<1>5. \A e \in From4(l, p, h) : OnLine(e, r, h) /\ Len(e.moves) = Len(l.moves) + 4
  BY <1>0, <1>1, <1>4 DEF From4
<1>. QED BY <1>2, <1>3, <1>4, <1>5

(* A line goes on as it is, or after one of its next moves.                *)
LEMMA LinesOnward ==
  ASSUME NEW p \in Player, NEW r \in Roll, NEW h \in Nat, NEW l, OnLine(l, r, h), NEW e
  PROVE  e \in LinesFrom(l, p, h) <=>
           e = l \/ \E m \in NextMoves(l, p, h) : e \in LinesFrom(Play(l, p, m), p, h)
<1>1. ASSUME e \in LinesFrom(l, p, h)
      PROVE  e = l \/ \E m \in NextMoves(l, p, h) : e \in LinesFrom(Play(l, p, m), p, h)
  <2>1. e = l \/ \E m \in NextMoves(l, p, h) :
                   \/ e = Play(l, p, m)
                   \/ e \in From1(Play(l, p, m), p, h)
                   \/ e \in From2(Play(l, p, m), p, h)
                   \/ e \in From3(Play(l, p, m), p, h)
    BY <1>1, LinesFromIs, FromNext
  <2>. QED BY <2>1, LinesFromIs
<1>2. ASSUME NEW m \in NextMoves(l, p, h), e \in LinesFrom(Play(l, p, m), p, h)
      PROVE  e \in LinesFrom(l, p, h)
  <2>. DEFINE n == Play(l, p, m)
  <2>1. e = n \/ e \in From1(n, p, h) \/ e \in From2(n, p, h) \/ e \in From3(n, p, h)
          \/ e \in From4(n, p, h)
    BY <1>2, LinesFromIs
  <2>2. e \notin From4(n, p, h)
    <3>. SUFFICES ASSUME e \in From4(n, p, h) PROVE FALSE
      OBVIOUS
    <3>1. OnLine(n, r, h) /\ Len(n.moves) = Len(l.moves) + 1
      BY PlayOnLine
    <3>2. OnLine(e, r, h) /\ Len(e.moves) = Len(n.moves) + 4
      BY <3>1, FromOnLine
    <3>3. Len(l.moves) \in 0..4 /\ Len(e.moves) \in 0..4
      BY <3>2, LineEnds
    <3>. QED BY <3>1, <3>2, <3>3
  <2>. QED BY <2>1, <2>2, LinesFromIs, FromNext
<1>3. l \in LinesFrom(l, p, h)
  BY LinesFromIs
<1>. QED BY <1>1, <1>2, <1>3

LEMMA LongestFrom ==
  ASSUME NEW p \in Player, NEW r \in Roll, NEW h \in Nat, NEW l, OnLine(l, r, h)
  PROVE  /\ Longest(LinesFrom(l, p, h)) \in Len(l.moves)..4
         /\ \E e \in LinesFrom(l, p, h) : Len(e.moves) = Longest(LinesFrom(l, p, h))
         /\ \A e \in LinesFrom(l, p, h) : /\ OnLine(e, r, h)
                                          /\ Len(e.moves) <= Longest(LinesFrom(l, p, h))
<1>. DEFINE S == {Len(e.moves) : e \in LinesFrom(l, p, h)}
<1>0. \A e \in LinesFrom(l, p, h) : OnLine(e, r, h)
  BY LinesFromIs, FromOnLine
<1>1. S \in SUBSET (0..4)
  <2>1. \A e \in LinesFrom(l, p, h) : Len(e.moves) \in 0..4
    BY <1>0, LineEnds
  <2>. QED BY <2>1
<1>2. Len(l.moves) \in S
  BY LinesFromIs
<1>3. Max(S) \in S /\ \A y \in S : y <= Max(S)
  <2>. HIDE DEF S
  <2>. QED BY <1>1, <1>2, MaxOfSome
<1>4. Longest(LinesFrom(l, p, h)) = Max(S)
  BY DEF Longest
<1>5. Max(S) \in Len(l.moves)..4
  <2>1. Len(l.moves) \in 0..4
    BY LineEnds
  <2>2. Max(S) \in 0..4
    BY <1>1, <1>3
  <2>3. Len(l.moves) <= Max(S)
    BY <1>2, <1>3
  <2>. HIDE DEF S
  <2>. QED BY <2>1, <2>2, <2>3
<1>. QED BY <1>0, <1>3, <1>4, <1>5

(* A line that can go on to a certain length has a next move that can.     *)
LEMMA LongestNext ==
  ASSUME NEW p \in Player, NEW r \in Roll, NEW h \in Nat, NEW l, OnLine(l, r, h),
         Len(l.moves) < Longest(LinesFrom(l, p, h))
  PROVE  \E m \in NextMoves(l, p, h) :
           Longest(LinesFrom(Play(l, p, m), p, h)) = Longest(LinesFrom(l, p, h))
<1>1. PICK e \in LinesFrom(l, p, h) : Len(e.moves) = Longest(LinesFrom(l, p, h))
  BY LongestFrom
<1>2. Longest(LinesFrom(l, p, h)) \in Nat /\ Len(l.moves) \in Nat
  BY LongestFrom, LineEnds
<1>3. e # l
  BY <1>1, <1>2
<1>4. PICK m \in NextMoves(l, p, h) : e \in LinesFrom(Play(l, p, m), p, h)
  BY <1>3, LinesOnward
<1>. DEFINE n == Play(l, p, m)
<1>5. OnLine(n, r, h)
  BY PlayOnLine
<1>6. PICK f \in LinesFrom(n, p, h) : Len(f.moves) = Longest(LinesFrom(n, p, h))
  BY <1>5, LongestFrom
<1>7. f \in LinesFrom(l, p, h)
  BY LinesOnward
<1>8. Len(f.moves) <= Longest(LinesFrom(l, p, h)) /\ Len(e.moves) <= Longest(LinesFrom(n, p, h))
  BY <1>4, <1>5, <1>7, LongestFrom
<1>9. Longest(LinesFrom(n, p, h)) \in Nat
  <2>1. Len(n.moves) \in 0..4 /\ Longest(LinesFrom(n, p, h)) \in Len(n.moves)..4
    BY <1>5, LongestFrom, LineEnds
  <2>. QED BY <2>1
<1>. QED BY <1>1, <1>2, <1>6, <1>8, <1>9

(***************************************************************************)
(* Counting in the builder's sequences                                     *)
(***************************************************************************)

Times(s, d) == Cardinality({i \in DOMAIN s : s[i] = d})
OffHead(s) == Cardinality({i \in DOMAIN s : FromHead(Me, s[i]) = 1})

LEMMA Spots ==
  ASSUME NEW n \in Nat, NEW A \in SUBSET (1..n)
  PROVE  IsFiniteSet(A) /\ Cardinality(A) \in Nat
<1>1. 1 \in Int /\ n \in Int
  OBVIOUS
<1>2. IsFiniteSet(1..n)
  BY <1>1, FS_Interval
<1>. QED BY <1>2, FS_Subset, FS_CardinalityType

LEMMA SpotAdded ==
  ASSUME NEW n \in Nat, NEW A \in SUBSET (1..n), NEW B, NEW k,
         \/ B = A \cup {n + 1} /\ k = 1
         \/ B = A /\ k = 0
  PROVE  Cardinality(B) = Cardinality(A) + k /\ Cardinality(B) \in Nat
<1>1. IsFiniteSet(A) /\ Cardinality(A) \in Nat
  BY Spots
<1>2. n + 1 \notin A
  OBVIOUS
<1>3. Cardinality(A \cup {n + 1}) = Cardinality(A) + 1
  BY <1>1, <1>2, FS_AddElement
<1>. QED BY <1>1, <1>3

LEMMA TimesAppend ==
  ASSUME NEW S, NEW s \in Seq(S), NEW e \in S, NEW d
  PROVE  /\ Times(s, d) \in Nat
         /\ Times(Append(s, e), d) = Times(s, d) + (IF e = d THEN 1 ELSE 0)
<1>. DEFINE n == Len(s)
            A == {i \in DOMAIN s : s[i] = d}
            B == {i \in DOMAIN Append(s, e) : Append(s, e)[i] = d}
<1>1. n \in Nat /\ DOMAIN s = 1..n /\ DOMAIN Append(s, e) = 1..(n + 1)
  OBVIOUS
<1>2. /\ \A i \in 1..n : Append(s, e)[i] = s[i]
      /\ Append(s, e)[n + 1] = e
  OBVIOUS
<1>3. A \in SUBSET (1..n)
  BY <1>1
<1>4. B = IF e = d THEN A \cup {n + 1} ELSE A
  <2>1. \A i : i \in 1..(n + 1) <=> i \in 1..n \/ i = n + 1
    BY <1>1
  <2>2. n + 1 \notin 1..n
    BY <1>1
  <2>. QED BY <1>1, <1>2, <2>1, <2>2
<1>. HIDE DEF A, B, n
<1>5. Cardinality(B) = Cardinality(A) + (IF e = d THEN 1 ELSE 0)
  BY <1>1, <1>3, <1>4, SpotAdded
<1>6. Cardinality(A) \in Nat
  BY <1>1, <1>3, Spots
<1>. QED BY <1>5, <1>6 DEF Times, A, B

LEMMA OffHeadAppend ==
  ASSUME NEW s \in Seq(Move), NEW m \in Move
  PROVE  /\ OffHead(s) \in Nat
         /\ OffHead(Append(s, m)) = OffHead(s) + FromHead(Me, m)
<1>. DEFINE n == Len(s)
            A == {i \in DOMAIN s : FromHead(Me, s[i]) = 1}
            B == {i \in DOMAIN Append(s, m) : FromHead(Me, Append(s, m)[i]) = 1}
<1>1. n \in Nat /\ DOMAIN s = 1..n /\ DOMAIN Append(s, m) = 1..(n + 1)
  OBVIOUS
<1>2. /\ \A i \in 1..n : Append(s, m)[i] = s[i]
      /\ Append(s, m)[n + 1] = m
  OBVIOUS
<1>3. A \in SUBSET (1..n)
  BY <1>1
<1>4. FromHead(Me, m) = 1 \/ FromHead(Me, m) = 0
  BY DEF FromHead
<1>5. B = IF FromHead(Me, m) = 1 THEN A \cup {n + 1} ELSE A
  <2>1. \A i : i \in 1..(n + 1) <=> i \in 1..n \/ i = n + 1
    BY <1>1
  <2>2. n + 1 \notin 1..n
    BY <1>1
  <2>. QED BY <1>1, <1>2, <2>1, <2>2
<1>. HIDE DEF A, B, n
<1>6. Cardinality(B) = Cardinality(A) + FromHead(Me, m)
  BY <1>1, <1>3, <1>4, <1>5, SpotAdded
<1>7. Cardinality(A) \in Nat
  BY <1>1, <1>3, Spots
<1>. QED BY <1>6, <1>7 DEF OffHead, A, B

LEMMA MinOfSome ==
  ASSUME NEW S \in SUBSET (0..4), S # {}
  PROVE  Min(S) \in S /\ \A y \in S : Min(S) <= y
<1>1. \E x \in S : \A y \in S : x <= y
  <2>1. CASE 0 \in S
    BY <2>1
  <2>2. CASE 0 \notin S /\ 1 \in S
    BY <2>2
  <2>3. CASE 0 \notin S /\ 1 \notin S /\ 2 \in S
    BY <2>3
  <2>4. CASE 0 \notin S /\ 1 \notin S /\ 2 \notin S /\ 3 \in S
    BY <2>4
  <2>5. CASE 0 \notin S /\ 1 \notin S /\ 2 \notin S /\ 3 \notin S
    <3>1. \A x \in S : x = 4
      BY <2>5
    <3>2. 4 \in S
      BY <3>1
    <3>. QED BY <3>1, <3>2
  <2>. QED BY <2>1, <2>2, <2>3, <2>4, <2>5
<1>. QED BY <1>1 DEF Min

(* The first die of a kind that is there.                                  *)
LEMMA IndexOfIs ==
  ASSUME NEW s \in Seq(Die), Len(s) <= 4, NEW d, Times(s, d) > 0
  PROVE  IndexOf(s, d) \in 1..Len(s) /\ s[IndexOf(s, d)] = d
<1>. DEFINE A == {i \in DOMAIN s : s[i] = d}
<1>1. A \in SUBSET (1..Len(s)) /\ A \in SUBSET (0..4)
  OBVIOUS
<1>2. A # {}
  <2>1. Cardinality({}) = 0
    BY FS_EmptySet
  <2>. QED BY <2>1 DEF Times
<1>3. Min(A) \in A
  <2>. HIDE DEF A
  <2>. QED BY <1>1, <1>2, MinOfSome
<1>. QED BY <1>1, <1>3 DEF IndexOf

LEMMA TimesWithout ==
  ASSUME NEW s \in Seq(Die), NEW j \in 1..Len(s), NEW d
  PROVE  /\ Without(s, j) \in Seq(Die) /\ Len(Without(s, j)) = Len(s) - 1
         /\ Times(Without(s, j), d) = Times(s, d) - (IF s[j] = d THEN 1 ELSE 0)
<1>. DEFINE n == Len(s)
            w == Without(s, j)
            A == {i \in DOMAIN s : s[i] = d}
            B == {i \in DOMAIN w : w[i] = d}
<1>1. n \in Nat /\ DOMAIN s = 1..n /\ j \in 1..n /\ n > 0
  OBVIOUS
<1>2. /\ SubSeq(s, 1, j - 1) \in Seq(Die) /\ Len(SubSeq(s, 1, j - 1)) = j - 1
      /\ \A i \in 1..(j - 1) : SubSeq(s, 1, j - 1)[i] = s[i]
  OBVIOUS
<1>3. /\ SubSeq(s, j + 1, n) \in Seq(Die) /\ Len(SubSeq(s, j + 1, n)) = n - j
      /\ \A i \in 1..(n - j) : SubSeq(s, j + 1, n)[i] = s[j + i]
  OBVIOUS
<1>4. /\ w \in Seq(Die) /\ Len(w) = n - 1
      /\ \A i \in 1..(n - 1) : w[i] = IF i < j THEN s[i] ELSE s[i + 1]
  <2>. DEFINE u == SubSeq(s, 1, j - 1)
              v == SubSeq(s, j + 1, n)
  <2>1. w = u \o v
    BY DEF Without
  <2>2. /\ u \o v \in Seq(Die) /\ Len(u \o v) = Len(u) + Len(v)
        /\ \A i \in 1..(Len(u) + Len(v)) :
             (u \o v)[i] = IF i <= Len(u) THEN u[i] ELSE v[i - Len(u)]
    BY <1>2, <1>3, ConcatProperties
  <2>3. Len(u) = j - 1 /\ Len(v) = n - j
    BY <1>2, <1>3
  <2>4. Len(u) + Len(v) = n - 1
    <3>1. j \in Int /\ n \in Int
      BY <1>1
    <3>. HIDE DEF u, v, n
    <3>. QED BY <2>3, <3>1
  <2>5. ASSUME NEW i \in 1..(n - 1) PROVE w[i] = IF i < j THEN s[i] ELSE s[i + 1]
    <3>1. w[i] = IF i <= j - 1 THEN u[i] ELSE v[i - (j - 1)]
      BY <2>1, <2>2, <2>3, <2>4
    <3>2. CASE i < j
      BY <1>1, <1>2, <3>1, <3>2
    <3>3. CASE ~(i < j)
      <4>1. i - (j - 1) \in 1..(n - j) /\ j + (i - (j - 1)) = i + 1 /\ ~(i <= j - 1)
        BY <1>1, <3>3
      <4>. HIDE DEF w, u
      <4>. QED BY <1>3, <3>1, <3>3, <4>1
    <3>. QED BY <3>2, <3>3
  <2>. HIDE DEF w, u, v
  <2>. QED BY <2>1, <2>2, <2>4, <2>5
<1>5. DOMAIN w = 1..(n - 1)
  BY <1>1, <1>4
<1>6. A \in SUBSET (1..n) /\ j \in A <=> s[j] = d
  BY <1>1
<1>7. IsFiniteSet(A) /\ IsFiniteSet(A \ {j})
      /\ Cardinality(A \ {j}) = Cardinality(A) - (IF s[j] = d THEN 1 ELSE 0)
  <2>1. A \in SUBSET (1..n)
    BY <1>1
  <2>2. IsFiniteSet(A) /\ Cardinality(A) \in Nat
    BY <1>1, <2>1, Spots
  <2>3. j \in A <=> s[j] = d
    BY <1>1
  <2>. HIDE DEF A
  <2>. QED BY <2>2, <2>3, FS_RemoveElement
<1>8. Cardinality(B) = Cardinality(A \ {j})
  <2>. DEFINE C == A \ {j}
              f == [i \in B |-> IF i < j THEN i ELSE i + 1]
  <2>1. \A i \in B : i \in 1..(n - 1) /\ w[i] = d
    BY <1>5
  <2>2. \A i \in B : f[i] \in C
    <3>. TAKE i \in B
    <3>1. i \in 1..(n - 1) /\ (IF i < j THEN s[i] ELSE s[i + 1]) = d
      BY <1>4, <2>1
    <3>. HIDE DEF B
    <3>2. CASE i < j
      BY <1>1, <3>1, <3>2
    <3>3. CASE ~(i < j)
      BY <1>1, <3>1, <3>3
    <3>. QED BY <3>2, <3>3
  <2>3. \A a \in B : \A c \in B : f[a] = f[c] => a = c
    <3>. HIDE DEF B
    <3>. QED BY <1>1, <2>1
  <2>4. \A c \in C : \E a \in B : f[a] = c
    <3>. TAKE c \in C
    <3>1. c \in 1..n /\ c # j /\ s[c] = d
      BY <1>1
    <3>2. CASE c < j
      <4>1. c \in 1..(n - 1) /\ w[c] = d
        BY <1>1, <1>4, <3>1, <3>2
      <4>2. c \in B /\ f[c] = c
        BY <1>5, <3>2, <4>1
      <4>. QED BY <4>2
    <3>3. CASE ~(c < j)
      <4>1. c - 1 \in 1..(n - 1) /\ ~(c - 1 < j) /\ (c - 1) + 1 = c
        BY <1>1, <3>1, <3>3
      <4>2. w[c - 1] = d
        BY <1>4, <3>1, <4>1
      <4>3. c - 1 \in B /\ f[c - 1] = c
        BY <1>5, <4>1, <4>2
      <4>. QED BY <4>3
    <3>. QED BY <3>2, <3>3
  <2>5. f \in Bijection(B, C)
    <3>. HIDE DEF B, C
    <3>1. f \in [B -> C]
      BY <2>2
    <3>. HIDE DEF f
    <3>. QED BY <2>3, <2>4, <3>1 DEF Bijection, Injection, Surjection, IsInjective
  <2>. HIDE DEF f, C
  <2>6. IsFiniteSet(B)
    <3>1. n - 1 \in Nat /\ B \in SUBSET (1..(n - 1))
      BY <1>1, <2>1
    <3>. HIDE DEF B
    <3>. QED BY <3>1, Spots
  <2>7. ExistsBijection(B, C)
    BY <2>5 DEF ExistsBijection
  <2>. HIDE DEF B
  <2>8. Cardinality(C) = Cardinality(B)
    BY <2>6, <2>7, FS_Bijection
  <2>. QED BY <2>8 DEF C
<1>. QED BY <1>4, <1>7, <1>8 DEF Times

(***************************************************************************)
(* The builder: the trail of a line of the search                          *)
(***************************************************************************)

(* A line that can still use as many dice as the builder's turn.           *)
Goes(t, l) ==
  OnLine(l, t.roll, t.maxFromHead) /\ Longest(LinesFrom(l, Me, t.maxFromHead)) = t.maxLen

(* The lines the builder has come by, from the start of the turn to Here.  *)
Trail(t, ls) ==
  /\ Len(ls) = Len(t.moves) + 1
  /\ ls[1] = Start(t.boards[1], t.roll)
  /\ \A i \in 1..Len(ls) : ls[i].board = t.boards[i] /\ Goes(t, ls[i])
  /\ \A i \in 1..Len(t.moves) :
       /\ t.moves[i] \in NextMoves(ls[i], Me, t.maxFromHead)
       /\ ls[i + 1] = Play(ls[i], Me, t.moves[i])
  /\ ls[Len(ls)] = Here(t)

Built(t) ==
  /\ t \in Builder
  /\ Sound(t.boards[1])
  /\ Len(t.boards) = Len(t.moves) + 1
  /\ Len(t.diceLeft) + Len(t.moves) = (IF isDouble(t.roll) THEN 4 ELSE 2)
  /\ \E ls \in Seq(Line) : Trail(t, ls)

SameTurn(u, t) ==
  /\ u.boards[1] = t.boards[1] /\ u.roll = t.roll
  /\ u.maxFromHead = t.maxFromHead /\ u.maxLen = t.maxLen

LEMMA BuilderFields ==
  ASSUME NEW t \in Builder
  PROVE  /\ t.boards \in Seq(Board) /\ t.moves \in Seq(Move) /\ t.diceLeft \in Seq(Die)
         /\ t.roll \in Roll /\ t.maxFromHead \in {1, 2} /\ t.maxFromHead \in Nat
         /\ t.maxLen \in 0..4
BY DEF Builder, MaxMoves

LEMMA HereIs ==
  ASSUME NEW t
  PROVE  /\ Here(t).moves = t.moves /\ Here(t).board = Last(t.boards)
         /\ Here(t).head = OffHead(t.moves)
         /\ Here(t).left = [d \in Die |-> Times(t.diceLeft, d)]
BY DEF Here, headUsed, OffHead, Times

(* Two lines with the same parts are the same.                             *)
LEMMA SameLine ==
  ASSUME NEW t, NEW l \in Line,
         l.moves = t.moves, l.board = Last(t.boards), l.head = OffHead(t.moves),
         \A d \in Die : l.left[d] = Times(t.diceLeft, d)
  PROVE  l = Here(t)
<1>1. l.left \in [Die -> Nat]
  BY DEF Line
<1>2. l.left = [d \in Die |-> Times(t.diceLeft, d)]
  BY <1>1
<1>3. l = [moves |-> l.moves, board |-> l.board, left |-> l.left, head |-> l.head]
  BY DEF Line
<1>4. Here(t) = [moves |-> t.moves, board |-> Last(t.boards),
                 left |-> [d \in Die |-> Times(t.diceLeft, d)], head |-> OffHead(t.moves)]
  <2>1. Here(t) = [moves |-> t.moves, board |-> Last(t.boards), head |-> headUsed(t),
                   left |-> [d \in Die |-> Times(t.diceLeft, d)]]
    BY DEF Here, Times
  <2>2. headUsed(t) = OffHead(t.moves)
    BY DEF headUsed, OffHead
  <2>. HIDE DEF Here
  <2>. QED BY <2>1, <2>2
<1>. QED BY <1>2, <1>3, <1>4, Zenon

LEMMA BuiltFacts ==
  ASSUME NEW t, Built(t)
  PROVE  /\ t \in Builder /\ Me \in Player
         /\ Goes(t, Here(t))
         /\ Here(t).moves = t.moves /\ Here(t).board = Last(t.boards)
         /\ Len(t.moves) \in 0..4 /\ Len(t.moves) <= t.maxLen /\ t.maxLen \in 0..4
<1>1. PICK ls \in Seq(Line) : Trail(t, ls)
  BY DEF Built
<1>2. Len(ls) \in 1..Len(ls)
  <2>1. Len(t.moves) \in Nat
    BY BuilderFields DEF Built
  <2>. QED BY <1>1, <2>1 DEF Trail
<1>3. Goes(t, Here(t))
  BY <1>1, <1>2 DEF Trail
<1>4. Here(t).moves = t.moves /\ Here(t).board = Last(t.boards)
  BY HereIs
<1>5. t \in Builder /\ Me \in Player /\ t.roll \in Roll /\ t.maxFromHead \in Nat
        /\ t.maxLen \in 0..4
  BY BuilderFields, ClientAssumption DEF Built
<1>6. Len(t.moves) \in 0..4
  BY <1>3, <1>4, <1>5, LineEnds DEF Goes
<1>7. t.maxLen \in Len(t.moves)..4
  BY <1>3, <1>4, <1>5, LongestFrom DEF Goes
<1>8. Len(t.moves) <= t.maxLen
  BY <1>6, <1>7
<1>. QED BY <1>3, <1>4, <1>5, <1>6, <1>8

(* A new builder stands at the start of its turn.                          *)
LEMMA NewBuilt ==
  ASSUME NEW b, Sound(b), NEW r \in Roll, NEW h \in {1, 2}
  PROVE  /\ Built(New(b, r, h))
         /\ New(b, r, h).boards[1] = b /\ New(b, r, h).roll = r
         /\ New(b, r, h).maxFromHead = h
         /\ New(b, r, h).moves = <<>>
         /\ New(b, r, h).maxLen = maximal(b, Me, r, h).maxLen
<1>. DEFINE t == New(b, r, h)
            l == Start(b, r)
            dice0 == IF isDouble(r) THEN <<r.first, r.first, r.first, r.first>>
                     ELSE <<r.first, r.second>>
<1>1. /\ t.boards = <<b>> /\ t.moves = <<>> /\ t.diceLeft = dice0 /\ t.roll = r
      /\ t.maxFromHead = h /\ t.maxLen = maximal(b, Me, r, h).maxLen
      /\ t = [boards |-> t.boards, moves |-> t.moves, diceLeft |-> t.diceLeft,
              roll |-> t.roll, maxFromHead |-> t.maxFromHead, maxLen |-> t.maxLen]
  BY DEF New
<1>2. b \in Board /\ r.first \in Die /\ r.second \in Die /\ h \in Nat /\ Me \in Player
  BY ClientAssumption DEF Sound, Roll
<1>3. OnLine(l, r, h)
  BY <1>2, StartOnLine
<1>4. t.maxLen = Longest(LinesFrom(l, Me, h))
  BY <1>1 DEF maximal, enumerate
<1>5. t.maxLen \in 0..4
  <2>1. Len(l.moves) \in 0..4 /\ t.maxLen \in Len(l.moves)..4
    BY <1>2, <1>3, <1>4, LongestFrom, LineEnds
  <2>. QED BY <2>1
<1>6. dice0 \in Seq(Die) /\ Len(dice0) = IF isDouble(r) THEN 4 ELSE 2
  BY <1>2
<1>7. t \in Builder
  <2>1. t.boards \in Seq(Board) /\ t.moves \in Seq(Move) /\ t.maxLen \in 0..MaxMoves
    BY <1>1, <1>2, <1>5 DEF MaxMoves
  <2>2. t.diceLeft \in Seq(Die) /\ t.roll \in Roll /\ t.maxFromHead \in {1, 2}
    BY <1>1, <1>6
  <2>. HIDE DEF t, dice0
  <2>. QED BY <1>1, <2>1, <2>2 DEF Builder
<1>8. \A d \in Die : Times(dice0, d) = diceOf(r)[d]
  <2>. TAKE d \in Die
  <2>5. ASSUME r.first # r.second
        PROVE  Times(<<r.first, r.second>>, d) = IF d \in {r.first, r.second} THEN 1 ELSE 0
    <3>. DEFINE A == {i \in DOMAIN <<r.first, r.second>> : <<r.first, r.second>>[i] = d}
    <3>1. A = IF r.first = d THEN {1} ELSE IF r.second = d THEN {2} ELSE {}
      BY <2>5
    <3>2. Cardinality({1}) = 1 /\ Cardinality({2}) = 1 /\ Cardinality({}) = 0
      BY FS_Singleton, FS_EmptySet
    <3>. HIDE DEF A
    <3>3. Cardinality(A) = IF d \in {r.first, r.second} THEN 1 ELSE 0
      BY <3>1, <3>2
    <3>. QED BY <3>3 DEF A, Times
  <2>6. Times(<<r.first, r.first, r.first, r.first>>, d) = IF r.first = d THEN 4 ELSE 0
    <3>. DEFINE s == <<r.first, r.first, r.first, r.first>>
                A == {i \in DOMAIN s : s[i] = d}
    <3>1. A = IF r.first = d THEN 1..4 ELSE {}
      BY <1>2
    <3>2. Cardinality(1..4) = 4 /\ Cardinality({}) = 0
      <4>1. 1 \in Int /\ 4 \in Int
        OBVIOUS
      <4>2. Cardinality(1..4) = IF 1 > 4 THEN 0 ELSE 4 - 1 + 1
        BY ONLY <4>1, FS_Interval, Zenon
      <4>. QED BY <4>2, FS_EmptySet
    <3>. HIDE DEF A
    <3>3. Cardinality(A) = IF r.first = d THEN 4 ELSE 0
      BY <3>1, <3>2
    <3>. QED BY <3>3 DEF A, Times
  <2>7. diceOf(r)[d] = IF isDouble(r) THEN (IF d = r.first THEN 4 ELSE 0)
                       ELSE IF d \in {r.first, r.second} THEN 1 ELSE 0
    BY DEF diceOf
  <2>8. CASE isDouble(r)
    BY <2>6, <2>7, <2>8
  <2>9. CASE ~isDouble(r)
    <3>1. r.first # r.second
      BY <2>9 DEF isDouble
    <3>. QED BY <2>5, <2>7, <2>9, <3>1
  <2>. QED BY <2>8, <2>9
<1>9. l = Here(t)
  <2>1. l \in Line /\ l.moves = <<>> /\ l.board = b /\ l.left = diceOf(r) /\ l.head = 0
    BY <1>3 DEF OnLine, Start
  <2>2. OffHead(<<>>) = 0
    BY FS_EmptySet DEF OffHead
  <2>3. Last(t.boards) = b
    BY <1>1 DEF Last
  <2>. HIDE DEF t, l, dice0
  <2>. QED BY <1>1, <1>8, <2>1, <2>2, <2>3, SameLine
<1>10. <<l>> \in Seq(Line) /\ Trail(t, <<l>>)
  <2>1. l \in Line
    BY <1>3 DEF OnLine
  <2>2. l.board = b
    BY DEF Start
  <2>3. Goes(t, l)
    BY <1>1, <1>3, <1>4 DEF Goes
  <2>4. l = Start(t.boards[1], t.roll)
    BY <1>1
  <2>. HIDE DEF t, l
  <2>. QED BY <1>1, <1>9, <2>1, <2>2, <2>3, <2>4 DEF Trail
<1>11. Len(t.diceLeft) + Len(t.moves) = (IF isDouble(t.roll) THEN 4 ELSE 2)
  <2>. HIDE DEF t, dice0
  <2>. QED BY <1>1, <1>6
<1>12. Len(t.boards) = Len(t.moves) + 1 /\ t.boards[1] = b
  BY <1>1
<1>. HIDE DEF t
<1>13. Built(t)
  BY <1>7, <1>10, <1>11, <1>12 DEF Built
<1>. QED BY <1>1, <1>12, <1>13 DEF t

(* A move that keeps the turn's length within reach takes the builder one  *)
(* line further.                                                           *)
LEMMA PlayBuilt ==
  ASSUME NEW t, Built(t), NEW m \in NextMoves(Here(t), Me, t.maxFromHead),
         Goes(t, Play(Here(t), Me, m))
  PROVE  /\ Built(play(t, m)) /\ SameTurn(play(t, m), t)
         /\ Here(play(t, m)) = Play(Here(t), Me, m)
         /\ play(t, m).moves = Append(t.moves, m)
         /\ ~Throws(Last(t.boards), Me, m)
<1>. DEFINE l == Here(t)
            e == Play(l, Me, m)
            c == applyMove(Last(t.boards), Me, m)
            j == IndexOf(t.diceLeft, m.die)
            u == play(t, m)
            n == Len(t.moves)
<1>1. /\ t \in Builder /\ Me \in Player /\ Goes(t, l)
      /\ l.moves = t.moves /\ l.board = Last(t.boards) /\ n \in 0..4
      /\ Len(t.boards) = n + 1
      /\ Len(t.diceLeft) + n = (IF isDouble(t.roll) THEN 4 ELSE 2)
  BY BuiltFacts DEF Built
<1>2. /\ t.boards \in Seq(Board) /\ t.moves \in Seq(Move) /\ t.diceLeft \in Seq(Die)
      /\ t.roll \in Roll /\ t.maxFromHead \in Nat
  BY <1>1, BuilderFields
<1>3. /\ m \in Move /\ m.die \in Left(l.left) /\ ~Throws(Last(t.boards), Me, m)
      /\ e.board \in Board /\ e.board = c
  <2>1. /\ m \in Move /\ m.die \in Left(l.left) /\ ~Throws(l.board, Me, m)
        /\ e.board \in Board
    BY <1>1, <1>2, PlayOnLine DEF Goes
  <2>2. e.board = applyMove(l.board, Me, m)
    BY DEF Play
  <2>. QED BY <1>1, <2>1, <2>2
<1>4. m.die \in Die /\ Times(t.diceLeft, m.die) > 0
  <2>1. m.die \in Die /\ l.left[m.die] > 0
    BY <1>3 DEF Left
  <2>2. l.left = [d \in Die |-> Times(t.diceLeft, d)]
    BY HereIs
  <2>. HIDE DEF l
  <2>. QED BY <2>1, <2>2
<1>5. j \in 1..Len(t.diceLeft) /\ t.diceLeft[j] = m.die
  <2>1. Len(t.diceLeft) <= 4
    <3>1. Len(t.diceLeft) \in Nat /\ n \in Nat
      BY <1>1, <1>2
    <3>2. Len(t.diceLeft) + n = 4 \/ Len(t.diceLeft) + n = 2
      BY <1>1
    <3>. HIDE DEF n
    <3>. QED BY <3>1, <3>2
  <2>. QED BY <1>2, <1>4, <2>1, IndexOfIs
<1>6. /\ Without(t.diceLeft, j) \in Seq(Die)
      /\ Len(Without(t.diceLeft, j)) = Len(t.diceLeft) - 1
      /\ \A d \in Die : Times(Without(t.diceLeft, j), d)
                         = Times(t.diceLeft, d) - (IF d = m.die THEN 1 ELSE 0)
  BY <1>2, <1>5, TimesWithout
<1>7. /\ u.moves = Append(t.moves, m) /\ u.boards = Append(t.boards, c)
      /\ u.diceLeft = Without(t.diceLeft, j)
      /\ u.roll = t.roll /\ u.maxFromHead = t.maxFromHead /\ u.maxLen = t.maxLen
      /\ u \in Builder
  <2>1. u = [boards |-> Append(t.boards, c), moves |-> Append(t.moves, m),
             diceLeft |-> Without(t.diceLeft, j), roll |-> t.roll,
             maxFromHead |-> t.maxFromHead, maxLen |-> t.maxLen]
    <3>1. u = [t EXCEPT !.moves = Append(@, m), !.boards = Append(@, c),
                        !.diceLeft = Without(@, j)]
      BY <1>3 DEF play
    <3>2. t = [boards |-> t.boards, moves |-> t.moves, diceLeft |-> t.diceLeft,
               roll |-> t.roll, maxFromHead |-> t.maxFromHead, maxLen |-> t.maxLen]
      BY <1>1 DEF Builder
    <3>. HIDE DEF u, c, j
    <3>. QED BY <3>1, <3>2
  <2>2. Append(t.boards, c) \in Seq(Board) /\ Append(t.moves, m) \in Seq(Move)
    BY <1>2, <1>3
  <2>3. t.roll \in Roll /\ t.maxFromHead \in {1, 2} /\ t.maxLen \in 0..MaxMoves
    BY <1>1 DEF Builder
  <2>. HIDE DEF u, c, j
  <2>. QED BY <1>6, <2>1, <2>2, <2>3 DEF Builder
<1>8. /\ Len(u.moves) = n + 1 /\ Len(u.boards) = n + 2
      /\ u.boards[n + 2] = c /\ \A i \in 1..(n + 1) : u.boards[i] = t.boards[i]
      /\ u.moves[n + 1] = m /\ \A i \in 1..n : u.moves[i] = t.moves[i]
  <2>. HIDE DEF u, c
  <2>. QED BY <1>1, <1>2, <1>3, <1>7, AppendProperties
<1>9. Len(u.diceLeft) + Len(u.moves) = (IF isDouble(u.roll) THEN 4 ELSE 2)
  <2>1. Len(t.diceLeft) \in Nat /\ n \in Nat
    BY <1>1, <1>2
  <2>2. Len(u.diceLeft) = Len(t.diceLeft) - 1 /\ Len(u.moves) = n + 1 /\ u.roll = t.roll
    BY <1>6, <1>7, <1>8
  <2>3. Len(u.diceLeft) + Len(u.moves) = Len(t.diceLeft) + n
    <3>. DEFINE x == Len(u.diceLeft)
                y == Len(u.moves)
                z == Len(t.diceLeft)
    <3>1. x = z - 1 /\ y = n + 1 /\ z \in Nat /\ n \in Nat
      BY <2>1, <2>2
    <3>2. x + y = z + n
      <4>. HIDE DEF x, y, z, n
      <4>. QED BY <3>1
    <3>. QED BY <3>2
  <2>. HIDE DEF u, j, n
  <2>. QED BY <1>1, <2>2, <2>3
<1>10. e = Here(u)
  <2>1. e \in Line
    BY <1>1, <1>2, PlayOnLine DEF Goes, OnLine
  <2>2. e.moves = u.moves
    BY <1>1, <1>7 DEF Play
  <2>3. Last(u.boards) = e.board
    <3>. HIDE DEF u, c, e, n
    <3>. QED BY <1>3, <1>8 DEF Last
  <2>4. e.head = OffHead(u.moves)
    <3>1. e.head = l.head + FromHead(Me, m)
      BY DEF Play
    <3>2. l.head = OffHead(t.moves)
      BY HereIs
    <3>. QED BY <1>2, <1>3, <1>7, <3>1, <3>2, OffHeadAppend
  <2>5. \A d \in Die : e.left[d] = Times(u.diceLeft, d)
    <3>. TAKE d \in Die
    <3>1. e.left = [l.left EXCEPT ![m.die] = @ - 1]
      BY DEF Play
    <3>2. l.left = [x \in Die |-> Times(t.diceLeft, x)]
      BY HereIs
    <3>3. e.left[d] = IF d = m.die THEN l.left[d] - 1 ELSE l.left[d]
      BY <1>4, <3>1, <3>2
    <3>4. Times(t.diceLeft, d) \in Nat
      BY <1>2, TimesAppend
    <3>. HIDE DEF u, e, l, j
    <3>. QED BY <1>6, <1>7, <3>2, <3>3, <3>4
  <2>. HIDE DEF u, e
  <2>. QED BY <2>1, <2>2, <2>3, <2>4, <2>5, SameLine
<1>11. u.boards[1] = t.boards[1] /\ Sound(u.boards[1])
  <2>1. 1 \in 1..(n + 1)
    BY <1>1
  <2>2. u.boards[1] = t.boards[1]
    BY <1>8, <2>1
  <2>. QED BY <2>2 DEF Built
<1>12. \E ks \in Seq(Line) : Trail(u, ks)
  <2>1. PICK ls \in Seq(Line) : Trail(t, ls)
    BY DEF Built
  <2>. DEFINE ks == Append(ls, e)
  <2>2. Len(ls) = n + 1 /\ ls[n + 1] = l /\ e \in Line
    BY <1>1, <1>2, <2>1, PlayOnLine DEF Trail, Goes, OnLine
  <2>3. /\ ks \in Seq(Line) /\ Len(ks) = n + 2 /\ ks[n + 2] = e
        /\ \A i \in 1..(n + 1) : ks[i] = ls[i]
    <3>. HIDE DEF e, l
    <3>. QED BY <1>1, <2>2, AppendProperties
  <2>4. n \in Nat /\ 1 \in 1..(n + 1) /\ n + 1 \in 1..(n + 1)
    BY <1>1
  <2>5. ks[1] = Start(u.boards[1], u.roll)
    <3>1. ks[1] = ls[1]
      BY <2>3, <2>4
    <3>. HIDE DEF ks, u
    <3>. QED BY <1>7, <1>11, <2>1, <3>1 DEF Trail
  <2>6. \A x : Goes(u, x) <=> Goes(t, x)
    <3>. HIDE DEF u
    <3>. QED BY <1>7 DEF Goes
  <2>7. ASSUME NEW i \in 1..(n + 2)
        PROVE  ks[i].board = u.boards[i] /\ Goes(u, ks[i])
    <3>1. CASE i = n + 2
      <4>1. ks[i] = e /\ u.boards[i] = c
        BY <1>8, <2>3, <3>1
      <4>. HIDE DEF ks, u, e, c
      <4>2. e.board = c
        BY <1>3
      <4>3. Goes(u, e)
        BY <2>6 DEF e, l
      <4>. QED BY <4>1, <4>2, <4>3
    <3>2. CASE i # n + 2
      <4>1. i \in 1..(n + 1)
        BY <2>4, <3>2
      <4>2. ks[i] = ls[i] /\ u.boards[i] = t.boards[i]
        BY <1>8, <2>3, <4>1
      <4>3. ls[i].board = t.boards[i] /\ Goes(t, ls[i])
        BY <2>1, <2>2, <4>1 DEF Trail
      <4>. QED BY <2>6, <4>2, <4>3
    <3>. QED BY <3>1, <3>2
  <2>8. ASSUME NEW i \in 1..(n + 1)
        PROVE  /\ u.moves[i] \in NextMoves(ks[i], Me, u.maxFromHead)
               /\ ks[i + 1] = Play(ks[i], Me, u.moves[i])
    <3>1. CASE i = n + 1
      <4>1. ks[i] = l /\ u.moves[i] = m /\ i + 1 = n + 2 /\ ks[i + 1] = e
        BY <1>8, <2>2, <2>3, <2>4, <3>1
      <4>2. u.maxFromHead = t.maxFromHead
        BY <1>7
      <4>. HIDE DEF ks, u
      <4>. QED BY <4>1, <4>2
    <3>2. CASE i # n + 1
      <4>1. i \in 1..n /\ i \in 1..(n + 1) /\ i + 1 \in 1..(n + 1)
        BY <2>4, <3>2
      <4>2. ks[i] = ls[i] /\ ks[i + 1] = ls[i + 1] /\ u.moves[i] = t.moves[i]
        BY <1>8, <2>3, <4>1
      <4>3. t.moves[i] \in NextMoves(ls[i], Me, t.maxFromHead)
              /\ ls[i + 1] = Play(ls[i], Me, t.moves[i])
        BY <2>1, <4>1 DEF Trail
      <4>4. u.maxFromHead = t.maxFromHead
        BY <1>7
      <4>. HIDE DEF ks, u
      <4>. QED BY <4>2, <4>3, <4>4
    <3>. QED BY <3>1, <3>2
  <2>9. Len(ks) = Len(u.moves) + 1 /\ ks[Len(ks)] = Here(u)
    <3>1. (n + 1) + 1 = n + 2
      BY <2>4
    <3>. HIDE DEF ks, u, e
    <3>. QED BY <1>8, <1>10, <2>3, <3>1
  <2>. HIDE DEF ks, u
  <2>10. Trail(u, ks)
    BY <1>8, <2>3, <2>5, <2>7, <2>8, <2>9 DEF Trail
  <2>. QED BY <2>3, <2>10
<1>13. Len(u.boards) = Len(u.moves) + 1
  <2>1. (n + 1) + 1 = n + 2
    BY <1>1
  <2>. HIDE DEF u, n
  <2>. QED BY <1>8, <2>1
<1>. HIDE DEF u
<1>14. Built(u)
  BY <1>7, <1>9, <1>11, <1>12, <1>13 DEF Built
<1>15. SameTurn(u, t)
  BY <1>7, <1>11 DEF SameTurn
<1>. QED BY <1>3, <1>7, <1>10, <1>14, <1>15 DEF u

(* Undo goes back to the line before.                                      *)
LEMMA UndoBuilt ==
  ASSUME NEW t, Built(t), t.moves # <<>>
  PROVE  Built(undo(t)) /\ SameTurn(undo(t), t)
<1>. DEFINE u == undo(t)
            n == Len(t.moves)
            m == t.moves[n]
<1>1. PICK ls \in Seq(Line) : Trail(t, ls)
  BY DEF Built
<1>. DEFINE l == ls[n]
            x == l.moves
            ks == SubSeq(ls, 1, n)
<1>2. /\ t \in Builder /\ Me \in Player /\ Goes(t, Here(t)) /\ Here(t).moves = t.moves
      /\ Len(t.boards) = n + 1
      /\ Len(t.diceLeft) + n = (IF isDouble(t.roll) THEN 4 ELSE 2)
  BY BuiltFacts DEF Built
<1>3. /\ t.boards \in Seq(Board) /\ t.moves \in Seq(Move) /\ t.diceLeft \in Seq(Die)
      /\ t.roll \in Roll /\ t.maxFromHead \in Nat
  BY <1>2, BuilderFields
<1>4. n \in Nat /\ n > 0 /\ n \in 1..n /\ m \in Move /\ 1 \in 1..n
        /\ \A i \in 1..n : i \in 1..(n + 1)
  BY <1>3
<1>5. /\ Len(ls) = n + 1 /\ ls[n + 1] = Here(t)
      /\ m \in NextMoves(l, Me, t.maxFromHead) /\ ls[n + 1] = Play(l, Me, m)
      /\ l.board = t.boards[n] /\ Goes(t, l) /\ l \in Line
  BY <1>1, <1>4 DEF Trail
<1>6. Here(t) = Play(l, Me, m) /\ m.die \in Die
  BY <1>4, <1>5 DEF Move
<1>7. x \in Seq(Move) /\ t.moves = Append(x, m) /\ Len(x) + 1 = n
  <2>1. x \in Seq(Move)
    BY <1>5 DEF Line
  <2>2. t.moves = Append(x, m)
    BY <1>2, <1>6 DEF Play
  <2>. QED BY <1>4, <2>1, <2>2, AppendProperties
<1>8. Front(t.moves) = x
  <2>1. Front(t.moves) = SubSeq(Append(x, m), 1, Len(x))
    <3>1. n - 1 = Len(x)
      BY <1>4, <1>7
    <3>. HIDE DEF m, x
    <3>. QED BY <1>7, <3>1 DEF Front
  <2>2. SubSeq(Append(x, m), 1, Len(x)) = x
    <3>. HIDE DEF m, x
    <3>. QED BY <1>4, <1>7
  <2>. QED BY <2>1, <2>2
<1>9. /\ Front(t.boards) \in Seq(Board) /\ Len(Front(t.boards)) = n
      /\ \A i \in 1..n : Front(t.boards)[i] = t.boards[i]
  <2>1. Front(t.boards) = SubSeq(t.boards, 1, n)
    BY <1>2, <1>4 DEF Front
  <2>2. \A i \in 1..n : t.boards[i] \in Board
    BY <1>2, <1>3, <1>4
  <2>. QED BY <1>4, <2>1, <2>2, SubSeqProperties
<1>10. Last(t.moves) = m
  BY DEF Last
<1>11. /\ u.moves = x /\ u.boards = Front(t.boards)
       /\ u.diceLeft = Append(t.diceLeft, m.die)
       /\ u.roll = t.roll /\ u.maxFromHead = t.maxFromHead /\ u.maxLen = t.maxLen
       /\ u \in Builder
  <2>1. u = [boards |-> Front(t.boards), moves |-> x, diceLeft |-> Append(t.diceLeft, m.die),
             roll |-> t.roll, maxFromHead |-> t.maxFromHead, maxLen |-> t.maxLen]
    <3>1. u = [t EXCEPT !.moves = x, !.boards = Front(t.boards),
                        !.diceLeft = Append(t.diceLeft, m.die)]
      BY <1>8, <1>10 DEF undo
    <3>2. t = [boards |-> t.boards, moves |-> t.moves, diceLeft |-> t.diceLeft,
               roll |-> t.roll, maxFromHead |-> t.maxFromHead, maxLen |-> t.maxLen]
      BY <1>2 DEF Builder
    <3>. HIDE DEF u, x, m
    <3>. QED BY <3>1, <3>2
  <2>2. Append(t.diceLeft, m.die) \in Seq(Die)
    BY <1>3, <1>6
  <2>3. t.roll \in Roll /\ t.maxFromHead \in {1, 2} /\ t.maxLen \in 0..MaxMoves
    BY <1>2 DEF Builder
  <2>. HIDE DEF u, x, m
  <2>. QED BY <1>7, <1>9, <2>1, <2>2, <2>3 DEF Builder
<1>12. Len(u.diceLeft) + Len(u.moves) = (IF isDouble(u.roll) THEN 4 ELSE 2)
  <2>1. Len(u.diceLeft) = Len(t.diceLeft) + 1 /\ Len(u.moves) = Len(x) /\ u.roll = t.roll
          /\ Len(t.diceLeft) \in Nat /\ Len(x) \in Nat
    BY <1>3, <1>6, <1>7, <1>11
  <2>2. Len(u.diceLeft) + Len(u.moves) = Len(t.diceLeft) + n
    <3>. DEFINE a == Len(u.diceLeft)
                b == Len(u.moves)
                c == Len(t.diceLeft)
                k == Len(x)
    <3>1. a = c + 1 /\ b = k /\ c \in Nat /\ k \in Nat /\ k + 1 = n
      BY <1>7, <2>1
    <3>2. a + b = c + n
      <4>. HIDE DEF a, b, c, k, n
      <4>. QED BY <3>1
    <3>. QED BY <3>2
  <2>. HIDE DEF u, n
  <2>. QED BY <1>2, <2>1, <2>2
<1>13. l = Here(u)
  <2>1. Last(u.boards) = l.board
    <3>. HIDE DEF u, n, l
    <3>. QED BY <1>4, <1>5, <1>9, <1>11 DEF Last
  <2>2. l.head = OffHead(x)
    <3>1. Here(t).head = l.head + FromHead(Me, m)
      BY <1>6 DEF Play
    <3>2. Here(t).head = OffHead(Append(x, m))
      BY <1>7, HereIs
    <3>3. OffHead(x) \in Nat /\ OffHead(Append(x, m)) = OffHead(x) + FromHead(Me, m)
      BY <1>4, <1>7, OffHeadAppend
    <3>4. FromHead(Me, m) \in Nat /\ l.head \in Nat
      BY <1>5 DEF FromHead, Line
    <3>. HIDE DEF l, x, m
    <3>. QED BY <3>1, <3>2, <3>3, <3>4
  <2>3. \A d \in Die : l.left[d] = Times(u.diceLeft, d)
    <3>. TAKE d \in Die
    <3>1. Here(t).left = [l.left EXCEPT ![m.die] = @ - 1]
      BY <1>6 DEF Play
    <3>2. Here(t).left = [y \in Die |-> Times(t.diceLeft, y)]
      BY HereIs
    <3>3. l.left \in [Die -> Nat]
      BY <1>5 DEF Line
    <3>4. Times(t.diceLeft, d) = IF d = m.die THEN l.left[d] - 1 ELSE l.left[d]
      <4>1. Here(t).left[d] = Times(t.diceLeft, d)
        BY <3>2
      <4>. HIDE DEF l, m
      <4>2. Here(t).left[d] = IF d = m.die THEN l.left[d] - 1 ELSE l.left[d]
        BY <1>6, <3>1, <3>3
      <4>. QED BY <4>1, <4>2
    <3>5. Times(u.diceLeft, d) = Times(t.diceLeft, d) + (IF m.die = d THEN 1 ELSE 0)
      BY <1>3, <1>6, <1>11, TimesAppend
    <3>6. l.left[d] \in Nat
      BY <3>3
    <3>. HIDE DEF u, l, m
    <3>. QED BY <3>4, <3>5, <3>6
  <2>. HIDE DEF u, l
  <2>. QED BY <1>5, <1>11, <2>1, <2>2, <2>3, SameLine
<1>14. u.boards[1] = t.boards[1] /\ Sound(u.boards[1])
  <2>1. u.boards[1] = t.boards[1]
    BY <1>4, <1>9, <1>11
  <2>. QED BY <2>1 DEF Built
<1>15. /\ ks \in Seq(Line) /\ Len(ks) = n /\ \A i \in 1..n : ks[i] = ls[i]
  <2>1. \A i \in 1..n : ls[i] \in Line
    BY <1>4, <1>5
  <2>. QED BY <1>4, <2>1, SubSeqProperties
<1>16. Trail(u, ks)
  <2>1. Len(ks) = Len(u.moves) + 1
    BY <1>7, <1>11, <1>15
  <2>2. ks[1] = Start(u.boards[1], u.roll)
    <3>1. ks[1] = ls[1] /\ ls[1] = Start(t.boards[1], t.roll)
      BY <1>1, <1>4, <1>15 DEF Trail
    <3>. QED BY <1>11, <1>14, <3>1
  <2>3. \A y : Goes(u, y) <=> Goes(t, y)
    <3>. HIDE DEF u
    <3>. QED BY <1>11 DEF Goes
  <2>4. ASSUME NEW i \in 1..Len(ks)
        PROVE  ks[i].board = u.boards[i] /\ Goes(u, ks[i])
    <3>1. i \in 1..n /\ i \in 1..Len(ls)
      BY <1>4, <1>5, <1>15
    <3>2. ls[i].board = t.boards[i] /\ Goes(t, ls[i])
      BY <1>1, <3>1 DEF Trail
    <3>3. ks[i] = ls[i] /\ u.boards[i] = t.boards[i]
      BY <1>9, <1>11, <1>15, <3>1
    <3>. QED BY <2>3, <3>2, <3>3
  <2>5. ASSUME NEW i \in 1..Len(u.moves)
        PROVE  /\ u.moves[i] \in NextMoves(ks[i], Me, u.maxFromHead)
               /\ ks[i + 1] = Play(ks[i], Me, u.moves[i])
    <3>1. i \in 1..Len(x) /\ i \in 1..n /\ i + 1 \in 1..n
      BY <1>7, <1>11
    <3>2. t.moves[i] \in NextMoves(ls[i], Me, t.maxFromHead)
            /\ ls[i + 1] = Play(ls[i], Me, t.moves[i])
      BY <1>1, <3>1 DEF Trail
    <3>3. ks[i] = ls[i] /\ ks[i + 1] = ls[i + 1]
      BY <1>15, <3>1
    <3>4. u.moves[i] = t.moves[i] /\ u.maxFromHead = t.maxFromHead
      <4>1. i \in 1..Len(x) /\ x \in Seq(Move) /\ m \in Move /\ t.moves = Append(x, m)
        BY <1>4, <1>7, <3>1
      <4>. HIDE DEF x, m, u, n
      <4>2. t.moves[i] = x[i]
        BY <4>1, AppendProperties
      <4>. QED BY <1>11, <4>2
    <3>. HIDE DEF u, ks
    <3>. QED BY <3>2, <3>3, <3>4
  <2>6. ks[Len(ks)] = Here(u)
    BY <1>4, <1>13, <1>15
  <2>. HIDE DEF u, ks
  <2>. QED BY <2>1, <2>2, <2>4, <2>5, <2>6 DEF Trail
<1>17. Len(u.boards) = Len(u.moves) + 1
  BY <1>7, <1>9, <1>11
<1>. HIDE DEF u, ks
<1>18. Built(u)
  BY <1>11, <1>12, <1>14, <1>15, <1>16, <1>17 DEF Built
<1>. QED BY <1>11, <1>14, <1>18 DEF SameTurn, u

(***************************************************************************)
(* What is offered: moves and chains of moves that keep the turn's length  *)
(* within reach                                                            *)
(***************************************************************************)

LEMMA OnwardsAre ==
  ASSUME NEW t \in Builder, NEW l, OnLine(l, t.roll, t.maxFromHead), NEW x
  PROVE  x \in Onwards(t, l) <=>
           \E m \in NextMoves(l, Me, t.maxFromHead) : x = Play(l, Me, m) /\ Goes(t, x)
<1>1. Me \in Player /\ t.roll \in Roll /\ t.maxFromHead \in Nat /\ t.maxLen \in 0..4
  BY BuilderFields, ClientAssumption
<1>2. ASSUME NEW m \in NextMoves(l, Me, t.maxFromHead)
      PROVE  StaysMaximal(t, Play(l, Me, m)) <=> Goes(t, Play(l, Me, m))
  <2>. DEFINE e == Play(l, Me, m)
              n == Longest(LinesFrom(e, Me, t.maxFromHead))
              k == Len(e.moves)
  <2>1. OnLine(e, t.roll, t.maxFromHead)
    BY <1>1, PlayOnLine
  <2>. HIDE DEF e
  <2>2. k \in 0..4 /\ n \in k..4
    BY <1>1, <2>1, LineEnds, LongestFrom
  <2>3. k \in Int /\ n \in Int
    BY <2>2
  <2>4. k + (n - k) = n
    <3>. HIDE DEF k, n
    <3>. QED BY <2>3
  <2>5. StaysMaximal(t, e) <=> n = t.maxLen
    BY <2>4 DEF StaysMaximal, maxUsable
  <2>. QED BY <2>1, <2>5 DEF Goes, e
<1>. QED BY <1>2 DEF Onwards

(* The path leads from Here over the lines ks, each of which keeps the     *)
(* turn's length within reach.                                             *)
Leads(t, ks, path) ==
  /\ Len(ks) = Len(path) + 1
  /\ ks[1] = Here(t)
  /\ \A i \in 1..Len(path) :
       /\ path[i] \in NextMoves(ks[i], Me, t.maxFromHead)
       /\ ks[i + 1] = Play(ks[i], Me, path[i])
       /\ Goes(t, ks[i + 1])

Due(t, path) == path \in Seq(Move) /\ \E ks \in Seq(Line) : Leads(t, ks, path)

(* A walk of k moves from Here to the line x.                              *)
Walk(t, x, k) ==
  /\ Goes(t, x)
  /\ \E path \in Seq(Move) : \E ks \in Seq(Line) :
       /\ Leads(t, ks, path) /\ Len(path) = k
       /\ ks[k + 1] = x /\ x.moves = t.moves \o path

LEMMA WalkNowhere ==
  ASSUME NEW t, Built(t)
  PROVE  Walk(t, Here(t), 0)
<1>1. Goes(t, Here(t)) /\ Here(t).moves = t.moves /\ t.moves \in Seq(Move)
  BY BuiltFacts, BuilderFields
<1>2. Here(t) \in Line
  BY <1>1 DEF Goes, OnLine
<1>3. t.moves \o <<>> = t.moves
  BY <1>1, ConcatEmptySeq
<1>. DEFINE ks == <<Here(t)>>
<1>4. ks \in Seq(Line) /\ Len(ks) = 1 /\ ks[1] = Here(t)
  <2>. HIDE DEF Here
  <2>. QED BY <1>2
<1>. HIDE DEF ks
<1>5. <<>> \in Seq(Move) /\ Len(<<>>) = 0
  OBVIOUS
<1>6. Leads(t, ks, <<>>)
  BY <1>4, <1>5 DEF Leads
<1>7. 0 + 1 = 1
  OBVIOUS
<1>8. /\ Leads(t, ks, <<>>) /\ Len(<<>>) = 0
      /\ ks[0 + 1] = Here(t) /\ Here(t).moves = t.moves \o <<>>
  BY <1>1, <1>3, <1>4, <1>5, <1>6, <1>7
<1>. QED BY <1>1, <1>4, <1>5, <1>8, Zenon DEF Walk

LEMMA WalkOn ==
  ASSUME NEW t, Built(t), NEW k \in Nat, NEW l, Walk(t, l, k), NEW x \in Onwards(t, l)
  PROVE  /\ Walk(t, x, k + 1)
         /\ \E m \in NextMoves(l, Me, t.maxFromHead) : x = Play(l, Me, m) /\ Last(x.moves) = m
<1>1. t \in Builder /\ Me \in Player /\ t.roll \in Roll /\ t.maxFromHead \in Nat
        /\ t.moves \in Seq(Move)
  BY BuiltFacts, BuilderFields
<1>2. PICK path \in Seq(Move) : \E ks \in Seq(Line) :
        Leads(t, ks, path) /\ Len(path) = k /\ ks[k + 1] = l /\ l.moves = t.moves \o path
  BY DEF Walk
<1>3. PICK ks \in Seq(Line) :
        Leads(t, ks, path) /\ Len(path) = k /\ ks[k + 1] = l /\ l.moves = t.moves \o path
  BY <1>2
<1>4. OnLine(l, t.roll, t.maxFromHead)
  BY DEF Walk, Goes
<1>5. PICK m \in NextMoves(l, Me, t.maxFromHead) : x = Play(l, Me, m) /\ Goes(t, x)
  BY <1>1, <1>4, OnwardsAre
<1>6. m \in Move /\ x \in Line /\ x.moves = Append(l.moves, m) /\ l.moves \in Seq(Move)
  BY <1>1, <1>4, <1>5, PlayOnLine DEF Goes, OnLine, Line, Play
<1>. DEFINE q == Append(path, m)
            js == Append(ks, x)
<1>7. /\ q \in Seq(Move) /\ Len(q) = k + 1 /\ q[k + 1] = m
      /\ \A i \in 1..k : q[i] = path[i]
  BY <1>3, <1>6, AppendProperties
<1>8. Len(ks) = k + 1
  BY <1>3 DEF Leads
<1>9. /\ js \in Seq(Line) /\ Len(js) = (k + 1) + 1 /\ js[(k + 1) + 1] = x
      /\ \A i \in 1..(k + 1) : js[i] = ks[i]
  BY <1>6, <1>8, AppendProperties
<1>10. x.moves = t.moves \o q
  <2>. DEFINE a == t.moves
  <2>1. x.moves = Append(a \o path, m)
    BY <1>3, <1>6
  <2>2. a \in Seq(Move) /\ path \in Seq(Move) /\ m \in Move
    BY <1>1, <1>6
  <2>. HIDE DEF a
  <2>3. Append(a \o path, m) = a \o Append(path, m)
    BY ONLY <2>2
  <2>. QED BY <2>1, <2>3 DEF a
<1>11. Leads(t, js, q)
  <2>. HIDE DEF q, js
  <2>1. js[1] = Here(t)
    <3>1. 1 \in 1..(k + 1)
      OBVIOUS
    <3>. QED BY <1>3, <1>9, <3>1 DEF Leads
  <2>2. ASSUME NEW i \in 1..(k + 1)
        PROVE  /\ q[i] \in NextMoves(js[i], Me, t.maxFromHead)
               /\ js[i + 1] = Play(js[i], Me, q[i])
               /\ Goes(t, js[i + 1])
    <3>1. CASE i = k + 1
      <4>1. js[i] = l /\ q[i] = m /\ js[i + 1] = x
        BY <1>3, <1>7, <1>9, <3>1
      <4>. QED BY <1>5, <4>1
    <3>2. CASE i # k + 1
      <4>1. i \in 1..k /\ i + 1 \in 1..(k + 1)
        BY <3>2
      <4>2. js[i] = ks[i] /\ js[i + 1] = ks[i + 1] /\ q[i] = path[i]
        BY <1>7, <1>9, <4>1
      <4>3. /\ path[i] \in NextMoves(ks[i], Me, t.maxFromHead)
            /\ ks[i + 1] = Play(ks[i], Me, path[i]) /\ Goes(t, ks[i + 1])
        BY <1>3, <4>1 DEF Leads
      <4>. QED BY <4>2, <4>3
    <3>. QED BY <3>1, <3>2
  <2>. QED BY <1>7, <1>9, <2>1, <2>2 DEF Leads
<1>12. Last(x.moves) = m
  BY <1>6, AppendProperties DEF Last
<1>. HIDE DEF q, js
<1>. QED BY <1>5, <1>7, <1>9, <1>10, <1>11, <1>12 DEF Walk

(* walk's chains of one to four dice from the checker on from.             *)
Walk1(t, from) == {x \in Onwards(t, Here(t)) : Last(x.moves).from = from}
Walk2(t, from) == Chained(t, Walk1(t, from))
Walk3(t, from) == Chained(t, Walk2(t, from))
Walk4(t, from) == Chained(t, Walk3(t, from))
Walked(t, from) == Walk1(t, from) \cup Walk2(t, from) \cup Walk3(t, from) \cup Walk4(t, from)

PathOf(t, x) == SubSeq(x.moves, Len(t.moves) + 1, Len(x.moves))

LEMMA ChainsAre ==
  ASSUME NEW t, NEW from
  PROVE  Chains(t, from) = {PathOf(t, x) : x \in Walked(t, from)}
<1>. DEFINE step(f) == [k \in 1..MaxMoves |-> IF k = 1 THEN Walk1(t, from)
                                              ELSE Chained(t, f[k - 1])]
            walk == CHOOSE f : f = step(f)
            g == [k \in 1..MaxMoves |->
                    IF k = 1 THEN Walk1(t, from) ELSE IF k = 2 THEN Walk2(t, from)
                    ELSE IF k = 3 THEN Walk3(t, from) ELSE Walk4(t, from)]
<1>1. g = step(g)
  <2>1. ASSUME NEW k \in 1..MaxMoves
        PROVE  g[k] = (IF k = 1 THEN Walk1(t, from) ELSE Chained(t, g[k - 1]))
    <3>1. k = 1 \/ k = 2 \/ k = 3 \/ k = 4
      BY DEF MaxMoves
    <3>2. g[1] = Walk1(t, from) /\ g[2] = Walk2(t, from)
            /\ g[3] = Walk3(t, from) /\ g[4] = Walk4(t, from)
      BY DEF MaxMoves
    <3>. HIDE DEF g
    <3>. QED BY <3>1, <3>2 DEF Walk2, Walk3, Walk4
  <2>. QED BY <2>1, Zenon
<1>2. walk = step(walk)
  <2>. HIDE DEF step
  <2>. QED BY <1>1, Zenon
<1>3. walk[1] = Walk1(t, from) /\ walk[2] = Chained(t, walk[1])
        /\ walk[3] = Chained(t, walk[2]) /\ walk[4] = Chained(t, walk[3])
  <2>1. \A k \in 1..MaxMoves : walk[k] = IF k = 1 THEN Walk1(t, from)
                                         ELSE Chained(t, walk[k - 1])
    <3>. HIDE DEF walk
    <3>. QED BY <1>2
  <2>. HIDE DEF walk
  <2>. QED BY <2>1 DEF MaxMoves
<1>4. Chains(t, from) = {PathOf(t, x) : x \in UNION {walk[k] : k \in 1..MaxMoves}}
  BY Zenon DEF Chains, Walk1, PathOf
<1>5. 1..MaxMoves = {1, 2, 3, 4}
  BY DEF MaxMoves
<1>. HIDE DEF walk
<1>6. UNION {walk[k] : k \in 1..MaxMoves} = Walked(t, from)
  BY <1>3, <1>5 DEF Walk2, Walk3, Walk4, Walked
<1>. QED BY <1>4, <1>6

LEMMA ChainedOn ==
  ASSUME NEW t, Built(t), NEW k \in Nat, NEW L, \A l \in L : Walk(t, l, k),
         NEW x \in Chained(t, L)
  PROVE  Walk(t, x, k + 1)
<1>1. PICK l \in L : x \in Onwards(t, l)
  BY DEF Chained
<1>. QED BY <1>1, WalkOn

LEMMA WalkedAre ==
  ASSUME NEW t, Built(t), NEW from, NEW x \in Walked(t, from)
  PROVE  \E k \in 1..4 : Walk(t, x, k)
<1>1. \A y \in Walk1(t, from) : Walk(t, y, 1)
  <2>1. \A y \in Walk1(t, from) : Walk(t, y, 0 + 1)
    BY WalkNowhere, WalkOn DEF Walk1
  <2>. QED BY <2>1
<1>2. \A y \in Walk2(t, from) : Walk(t, y, 2)
  <2>1. \A y \in Walk2(t, from) : Walk(t, y, 1 + 1)
    BY <1>1, ChainedOn DEF Walk2
  <2>. QED BY <2>1
<1>3. \A y \in Walk3(t, from) : Walk(t, y, 3)
  <2>1. \A y \in Walk3(t, from) : Walk(t, y, 2 + 1)
    BY <1>2, ChainedOn DEF Walk3
  <2>. QED BY <2>1
<1>4. \A y \in Walk4(t, from) : Walk(t, y, 4)
  <2>1. \A y \in Walk4(t, from) : Walk(t, y, 3 + 1)
    BY <1>3, ChainedOn DEF Walk4
  <2>. QED BY <2>1
<1>. QED BY <1>1, <1>2, <1>3, <1>4 DEF Walked

LEMMA PathOfWalk ==
  ASSUME NEW t, Built(t), NEW k \in 1..4, NEW x, Walk(t, x, k)
  PROVE  /\ Due(t, PathOf(t, x)) /\ Len(PathOf(t, x)) = k
         /\ x.moves = t.moves \o PathOf(t, x)
<1>1. t.moves \in Seq(Move)
  BY BuiltFacts, BuilderFields
<1>2. PICK path \in Seq(Move) : \E ks \in Seq(Line) :
        Leads(t, ks, path) /\ Len(path) = k /\ x.moves = t.moves \o path
  BY DEF Walk
<1>3. PathOf(t, x) = path
  <2>. DEFINE n == Len(t.moves)
              s == x.moves
  <2>1. s = t.moves \o path /\ Len(s) = n + k /\ s \in Seq(Move) /\ n \in Nat
    BY <1>1, <1>2, ConcatProperties
  <2>2. SubSeq(s, n + 1, n + k) \in Seq(Move) /\ Len(SubSeq(s, n + 1, n + k)) = k
    BY <2>1
  <2>3. ASSUME NEW i \in 1..k PROVE SubSeq(s, n + 1, n + k)[i] = path[i]
    <3>1. SubSeq(s, n + 1, n + k)[i] = s[n + i]
      BY <2>1
    <3>2. s[n + i] = path[i]
      BY <1>1, <1>2, <2>1, ConcatProperties
    <3>. QED BY <3>1, <3>2
  <2>4. PathOf(t, x) = SubSeq(s, n + 1, n + k)
    BY <2>1 DEF PathOf
  <2>. HIDE DEF s, n
  <2>. QED BY <1>2, <2>2, <2>3, <2>4, SeqEqual
<1>. QED BY <1>2, <1>3 DEF Due

LEMMA ChainIsDue ==
  ASSUME NEW t, Built(t), NEW from, NEW q \in Chains(t, from)
  PROVE  Due(t, q) /\ Len(q) \in 1..4
<1>1. PICK x \in Walked(t, from) : q = PathOf(t, x)
  BY ChainsAre
<1>2. PICK k \in 1..4 : Walk(t, x, k)
  BY WalkedAre
<1>. QED BY <1>1, <1>2, PathOfWalk

(* Whether a die or a whole path is offered, it is one of the chains.      *)
LEMMA OptionIsDue ==
  ASSUME NEW t, Built(t), NEW from, NEW q \in moveOptions(t, from)
  PROVE  Due(t, q) /\ Len(q) \in 1..4
<1>1. q \in Chains(t, from)
  BY DEF moveOptions, HigherOnly
<1>. QED BY <1>1, ChainIsDue

(* What is due after the first move is what was due from there.            *)
LEMMA DueFirst ==
  ASSUME NEW t, Built(t), NEW q, Due(t, q), q # <<>>
  PROVE  /\ q[1] \in NextMoves(Here(t), Me, t.maxFromHead)
         /\ Goes(t, Play(Here(t), Me, q[1]))
         /\ Built(play(t, q[1])) /\ SameTurn(play(t, q[1]), t)
         /\ Due(play(t, q[1]), Tail(q))
         /\ ~Throws(Last(t.boards), Me, q[1])
<1>1. q \in Seq(Move) /\ Len(q) \in Nat /\ Len(q) > 0
  BY DEF Due
<1>2. PICK ks \in Seq(Line) : Leads(t, ks, q)
  BY DEF Due
<1>. DEFINE m == q[1]
            u == play(t, m)
            js == Tail(ks)
            n == Len(q)
<1>3. /\ m \in NextMoves(Here(t), Me, t.maxFromHead) /\ ks[2] = Play(Here(t), Me, m)
      /\ Goes(t, ks[2])
  <2>1. 1 \in 1..Len(q) /\ 1 + 1 = 2
    BY <1>1
  <2>. QED BY <1>2, <2>1 DEF Leads
<1>4. /\ Built(u) /\ SameTurn(u, t) /\ Here(u) = ks[2] /\ ~Throws(Last(t.boards), Me, m)
  BY <1>3, PlayBuilt
<1>5. /\ Tail(q) \in Seq(Move) /\ Len(Tail(q)) = n - 1
      /\ \A i \in 1..(n - 1) : Tail(q)[i] = q[i + 1]
  BY <1>1, HeadTailProperties
<1>6. /\ js \in Seq(Line) /\ Len(js) = n /\ \A i \in 1..n : js[i] = ks[i + 1]
  <2>1. Len(ks) = n + 1 /\ ks # <<>>
    BY <1>1, <1>2 DEF Leads
  <2>. QED BY <1>1, <2>1, HeadTailProperties
<1>7. \A x : Goes(u, x) <=> Goes(t, x)
  <2>. HIDE DEF u
  <2>. QED BY <1>4 DEF Goes, SameTurn
<1>8. Leads(u, js, Tail(q))
  <2>1. u.maxFromHead = t.maxFromHead
    BY <1>4 DEF SameTurn
  <2>. HIDE DEF u, js
  <2>2. js[1] = Here(u)
    <3>1. 1 \in 1..n
      BY <1>1
    <3>. QED BY <1>4, <1>6, <3>1
  <2>3. ASSUME NEW i \in 1..(n - 1)
        PROVE  /\ Tail(q)[i] \in NextMoves(js[i], Me, u.maxFromHead)
               /\ js[i + 1] = Play(js[i], Me, Tail(q)[i])
               /\ Goes(u, js[i + 1])
    <3>1. i + 1 \in 1..n /\ i \in 1..n
      BY <1>1
    <3>2. js[i] = ks[i + 1] /\ js[i + 1] = ks[(i + 1) + 1] /\ Tail(q)[i] = q[i + 1]
      BY <1>5, <1>6, <3>1
    <3>3. /\ q[i + 1] \in NextMoves(ks[i + 1], Me, t.maxFromHead)
          /\ ks[(i + 1) + 1] = Play(ks[i + 1], Me, q[i + 1])
          /\ Goes(t, ks[(i + 1) + 1])
      BY <1>2, <3>1 DEF Leads
    <3>. QED BY <1>7, <2>1, <3>2, <3>3
  <2>4. Len(Tail(q)) = n - 1 /\ Len(js) = (n - 1) + 1
    BY <1>1, <1>5, <1>6
  <2>. HIDE DEF n
  <2>. QED BY <2>2, <2>3, <2>4 DEF Leads
<1>. HIDE DEF u, js
<1>9. Due(u, Tail(q))
  BY <1>5, <1>6, <1>8 DEF Due
<1>. QED BY <1>3, <1>4, <1>9 DEF u

(* A builder that is not complete has a next move.                         *)
LEMMA OnwardsExist ==
  ASSUME NEW t, Built(t), ~isComplete(t)
  PROVE  Onwards(t, Here(t)) # {}
<1>1. /\ t \in Builder /\ Me \in Player /\ Goes(t, Here(t)) /\ Here(t).moves = t.moves
      /\ Len(t.moves) \in 0..4 /\ Len(t.moves) <= t.maxLen /\ t.maxLen \in 0..4
  BY BuiltFacts
<1>2. t.roll \in Roll /\ t.maxFromHead \in Nat
  BY <1>1, BuilderFields
<1>3. /\ OnLine(Here(t), t.roll, t.maxFromHead)
      /\ Longest(LinesFrom(Here(t), Me, t.maxFromHead)) = t.maxLen
  BY <1>1 DEF Goes
<1>4. Len(Here(t).moves) < Longest(LinesFrom(Here(t), Me, t.maxFromHead))
  BY <1>1, <1>3 DEF isComplete
<1>5. PICK m \in NextMoves(Here(t), Me, t.maxFromHead) :
        Longest(LinesFrom(Play(Here(t), Me, m), Me, t.maxFromHead)) = t.maxLen
  BY <1>1, <1>2, <1>3, <1>4, LongestNext
<1>6. Goes(t, Play(Here(t), Me, m))
  BY <1>1, <1>2, <1>3, <1>5, PlayOnLine DEF Goes
<1>. QED BY <1>1, <1>3, <1>6, OnwardsAre

(* Of any paths some come first in the order of the dice.                  *)
LEMMA SomeRankFirst ==
  ASSUME NEW t, NEW P, P # {},
         \A q \in P : Len(q) \in 1..4 /\ IndexOf(t.diceLeft, q[1].die) \in 1..4
  PROVE  \E q \in P : \A r \in P : Rank(t, q) <= Rank(t, r)
<1>. DEFINE At(q) == IndexOf(t.diceLeft, q[1].die)
            I == {At(q) : q \in P}
            K == {r \in P : At(r) = Min(I)}
            J == {Len(q) : q \in K}
<1>1. I \in SUBSET (0..4) /\ I # {}
  OBVIOUS
<1>2. Min(I) \in I /\ \A y \in I : Min(I) <= y
  <2>. HIDE DEF I
  <2>. QED BY <1>1, MinOfSome
<1>3. J \in SUBSET (0..4) /\ J # {}
  <2>. HIDE DEF At
  <2>1. \E q \in P : At(q) = Min(I)
    BY <1>2
  <2>2. K # {} /\ \A q \in K : Len(q) \in 0..4
    <3>. HIDE DEF I
    <3>. QED BY <2>1
  <2>. HIDE DEF K
  <2>. QED BY <2>2
<1>4. Min(J) \in J /\ \A y \in J : Min(J) <= y
  <2>. HIDE DEF J
  <2>. QED BY <1>3, MinOfSome
<1>. HIDE DEF At
<1>5. PICK q \in P : At(q) = Min(I) /\ Len(q) = Min(J)
  <2>. HIDE DEF I
  <2>. QED BY <1>4
<1>6. ASSUME NEW r \in P PROVE Rank(t, q) <= Rank(t, r)
  <2>. DEFINE a == At(q)
              b == At(r)
              c == Len(q)
              d == Len(r)
  <2>1. a \in 1..4 /\ b \in 1..4 /\ c \in 1..4 /\ d \in 1..4
    BY DEF At
  <2>2. a <= b
    BY <1>2, <1>5
  <2>3. a = b => c <= d
    BY <1>4, <1>5
  <2>4. a * 5 + c <= b * 5 + d
    <3>. HIDE DEF a, b, c, d
    <3>. QED BY <2>1, <2>2, <2>3
  <2>5. Rank(t, q) = a * 5 + c /\ Rank(t, r) = b * 5 + d
    BY DEF Rank, At, MaxMoves
  <2>. QED BY <2>4, <2>5
<1>. QED BY <1>6

LEMMA SomeAreHigher ==
  ASSUME NEW t, NEW P, P # {}
  PROVE  HigherOnly(t, P) # {} /\ HigherOnly(t, P) \subseteq P
BY DEF HigherOnly

(* The first die of a path that is due is among the builder's dice.        *)
LEMMA DueDie ==
  ASSUME NEW t, Built(t), NEW q, Due(t, q), q # <<>>
  PROVE  IndexOf(t.diceLeft, q[1].die) \in 1..4
<1>1. /\ t \in Builder /\ Me \in Player /\ Goes(t, Here(t)) /\ Len(t.moves) \in 0..4
      /\ Len(t.diceLeft) + Len(t.moves) = (IF isDouble(t.roll) THEN 4 ELSE 2)
  BY BuiltFacts DEF Built
<1>2. t.diceLeft \in Seq(Die) /\ t.roll \in Roll /\ t.maxFromHead \in Nat
  BY <1>1, BuilderFields
<1>3. q[1] \in NextMoves(Here(t), Me, t.maxFromHead)
  BY DueFirst
<1>4. q[1].die \in Left(Here(t).left)
  BY <1>1, <1>2, <1>3, PlayOnLine DEF Goes
<1>5. Here(t).left = [d \in Die |-> Times(t.diceLeft, d)]
  BY HereIs
<1>6. Times(t.diceLeft, q[1].die) > 0
  BY <1>4, <1>5 DEF Left
<1>7. Len(t.diceLeft) <= 4 /\ Len(t.diceLeft) \in Nat
  <2>. DEFINE a == Len(t.diceLeft)
              b == Len(t.moves)
  <2>1. a \in Nat /\ b \in Nat
    BY <1>1, <1>2
  <2>2. a + b = 4 \/ a + b = 2
    BY <1>1
  <2>3. a <= 4
    <3>. HIDE DEF a, b
    <3>. QED BY <2>1, <2>2
  <2>. QED BY <2>1, <2>3
<1>8. IndexOf(t.diceLeft, q[1].die) \in 1..Len(t.diceLeft)
  BY <1>2, <1>6, <1>7, IndexOfIs
<1>. QED BY <1>7, <1>8

LEMMA SourcesHaveTargets ==
  ASSUME NEW t, Built(t), ~isComplete(t)
  PROVE  sources(t) # {} /\ \A from \in sources(t) : moveOptions(t, from) # {}
<1>. DEFINE singles == {<<Last(x.moves)>> : x \in Onwards(t, Here(t))}
<1>1. singles # {}
  BY OnwardsExist
<1>2. candidates(t) = {q[1] : q \in HigherOnly(t, singles)}
  BY DEF candidates
<1>3. HigherOnly(t, singles) # {} /\ HigherOnly(t, singles) \subseteq singles
  <2>. HIDE DEF singles
  <2>. QED BY <1>1, SomeAreHigher
<1>4. sources(t) # {}
  <2>. HIDE DEF singles
  <2>1. candidates(t) # {}
    BY <1>2, <1>3
  <2>. QED BY <2>1 DEF sources
<1>5. ASSUME NEW from \in sources(t)
      PROVE  moveOptions(t, from) # {}
  <2>1. PICK m \in candidates(t) : from = m.from
    BY DEF sources
  <2>2. PICK q \in HigherOnly(t, singles) : m = q[1]
    <3>. HIDE DEF singles
    <3>. QED BY <1>2
  <2>3. q \in singles
    BY <1>3
  <2>4. PICK x \in Onwards(t, Here(t)) : q = <<Last(x.moves)>>
    BY <2>3
  <2>5. x \in Walk1(t, from)
    BY <2>1, <2>2, <2>4 DEF Walk1
  <2>6. PathOf(t, x) \in Chains(t, from)
    BY <2>5, ChainsAre DEF Walked
  <2>7. ASSUME NEW p \in Chains(t, from)
        PROVE  Len(p) \in 1..4 /\ IndexOf(t.diceLeft, p[1].die) \in 1..4
    <3>1. Due(t, p) /\ Len(p) \in 1..4
      BY ChainIsDue
    <3>2. p # <<>>
      BY <3>1
    <3>. QED BY <3>1, <3>2, DueDie
  <2>8. PICK p \in Chains(t, from) : \A r \in Chains(t, from) : Rank(t, p) <= Rank(t, r)
    BY <2>6, <2>7, SomeRankFirst
  <2>. DEFINE options == {o \in Chains(t, from) :
                            \A r \in Chains(t, from) :
                              Last(r).to = Last(o).to => Rank(t, o) <= Rank(t, r)}
  <2>9. p \in options
    BY <2>8
  <2>10. moveOptions(t, from) = HigherOnly(t, options)
    BY DEF moveOptions
  <2>11. options # {}
    BY <2>9
  <2>. HIDE DEF options
  <2>. QED BY <2>10, <2>11, SomeAreHigher
<1>. QED BY <1>4, <1>5

(***************************************************************************)
(* A complete turn                                                         *)
(***************************************************************************)

(* What is built is a line the engine's search finds from the start.       *)
LEMMA BuiltIsSearched ==
  ASSUME NEW t, Built(t)
  PROVE  /\ Here(t) \in enumerate(t.boards[1], Me, t.roll, t.maxFromHead)
         /\ Here(t) \in enumerate(t.boards[1], Me, t.roll, 4)
         /\ Here(t).head <= t.maxFromHead
<1>. DEFINE h == t.maxFromHead
            n == Len(t.moves)
            s == Start(t.boards[1], t.roll)
<1>1. PICK ls \in Seq(Line) : Trail(t, ls)
  BY DEF Built
<1>2. /\ t \in Builder /\ Me \in Player /\ n \in 0..4 /\ Sound(t.boards[1])
      /\ Goes(t, Here(t))
  BY BuiltFacts DEF Built
<1>3. t.roll \in Roll /\ h \in {1, 2} /\ h \in Nat
  BY <1>2, BuilderFields
<1>4. ls[1] = s /\ ls[n + 1] = Here(t)
      /\ \A i \in 1..n : ls[i + 1] \in Extend({ls[i]}, Me, h)
  <2>1. \A i \in 1..n : t.moves[i] \in NextMoves(ls[i], Me, h)
                         /\ ls[i + 1] = Play(ls[i], Me, t.moves[i])
    BY <1>1 DEF Trail
  <2>2. ls[1] = s /\ ls[n + 1] = Here(t)
    BY <1>1 DEF Trail
  <2>. QED BY <2>1, <2>2, Extends
<1>. HIDE DEF s
<1>5. ASSUME NEW L, NEW l \in L, NEW e \in Extend({l}, Me, h)
      PROVE  e \in Extend(L, Me, h)
  BY Extends
<1>. HIDE DEF n, h
<1>6. Here(t) \in LinesFrom(s, Me, h)
  <2>0. CASE n = 0
    BY <1>4, <2>0, LinesFromIs
  <2>1. ASSUME n > 0 PROVE ls[2] \in From1(s, Me, h)
    <3>1. 1 \in 1..n /\ 1 + 1 = 2
      BY <1>2, <2>1
    <3>2. ls[2] \in Extend({ls[1]}, Me, h)
      BY <1>4, <3>1
    <3>. QED BY <1>4, <3>2 DEF From1
  <2>2. ASSUME n > 1 PROVE ls[3] \in From2(s, Me, h)
    <3>1. 2 \in 1..n /\ 2 + 1 = 3 /\ n > 0
      BY <1>2, <2>2
    <3>2. ls[3] \in Extend({ls[2]}, Me, h)
      BY <1>4, <3>1
    <3>. QED BY <1>5, <2>1, <3>1, <3>2 DEF From2
  <2>3. ASSUME n > 2 PROVE ls[4] \in From3(s, Me, h)
    <3>1. 3 \in 1..n /\ 3 + 1 = 4 /\ n > 1
      BY <1>2, <2>3
    <3>2. ls[4] \in Extend({ls[3]}, Me, h)
      BY <1>4, <3>1
    <3>. QED BY <1>5, <2>2, <3>1, <3>2 DEF From3
  <2>4. ASSUME n > 3 PROVE ls[5] \in From4(s, Me, h)
    <3>1. 4 \in 1..n /\ 4 + 1 = 5 /\ n > 2
      BY <1>2, <2>4
    <3>2. ls[5] \in Extend({ls[4]}, Me, h)
      BY <1>4, <3>1
    <3>. QED BY <1>5, <2>3, <3>1, <3>2 DEF From4
  <2>5. n = 0 \/ (n = 1 /\ n + 1 = 2) \/ (n = 2 /\ n + 1 = 3)
          \/ (n = 3 /\ n + 1 = 4) \/ (n = 4 /\ n + 1 = 5)
    BY <1>2
  <2>. QED BY <1>4, <2>0, <2>1, <2>2, <2>3, <2>4, <2>5, LinesFromIs
<1>7. Here(t) \in enumerate(t.boards[1], Me, t.roll, h)
  BY <1>6 DEF enumerate, s
<1>8. Here(t) \in enumerate(t.boards[1], Me, t.roll, 4) /\ Here(t).head <= h
  <2>1. h <= 4
    BY <1>3
  <2>2. enumerate(t.boards[1], Me, t.roll, h)
          = {l \in enumerate(t.boards[1], Me, t.roll, 4) : l.head <= h}
    BY <1>2, <1>3, <2>1, Pruned
  <2>. QED BY <1>7, <2>2
<1>. QED BY <1>7, <1>8 DEF h

(***************************************************************************)
(* The inductive invariant of the client                                   *)
(***************************************************************************)

Mine == MyMove(activePlayer, phase)
held == IF detached = Null THEN tb ELSE detached

(* A builder of the turn that is being played.                             *)
OfThisTurn(t) ==
  /\ t.boards[1] = board /\ t.roll = dice
  /\ t.maxFromHead = currentMaxFromHead /\ t.maxLen = maximalNow.maxLen

(* There is a builder exactly while Me is to move, and it is one of taps   *)
(* and undos of this turn.                                                 *)
BuilderNow ==
  /\ tb # Null <=> Mine
  /\ tb # Null => Built(tb) /\ OfThisTurn(tb)

(* What the timers will still play can be played on the builder they hold. *)
HopsDue ==
  /\ hops \in Seq(Move) /\ busy \in BOOLEAN
  /\ busy <=> hops # <<>>
  /\ detached # Null => hops # <<>>
  /\ hops # <<>> =>
       /\ held # Null /\ Built(held) /\ Due(held, hops)
       /\ Mine => OfThisTurn(held)
       /\ sent = <<>>

(* A turn under way to the server is one the search knows.                 *)
SentTurn ==
  /\ sent \in Seq(Seq(Move)) /\ Len(sent) <= 1
  /\ sent # <<>> /\ Mine => sent[1] \in Submissions

(* Until all is played and handled the turn does not pass.                 *)
TurnStays == hops # <<>> \/ sent # <<>> => phase = "GAME_OVER" \/ Mine

ClientInv == EngineInv /\ BuilderNow /\ HopsDue /\ SentTurn /\ TurnStays

LEMMA NotNull ==
  ASSUME NEW t, Built(t)
  PROVE  t # Null
BY ClientAssumption DEF Built

LEMMA SameTurnStays ==
  ASSUME NEW t, NEW u, SameTurn(u, t), OfThisTurn(t)
  PROVE  OfThisTurn(u)
BY DEF SameTurn, OfThisTurn

(* The moves of a builder of this turn, while Me is to move, are a turn    *)
(* that can be submitted.                                                  *)
LEMMA BuiltIsSubmission ==
  ASSUME NEW t, Built(t), OfThisTurn(t), Mine
  PROVE  t.moves \in Submissions
<1>1. /\ Here(t) \in enumerate(board, activePlayer, dice, MaxMoves)
      /\ Here(t).moves = t.moves
  BY BuiltIsSearched, BuiltFacts DEF OfThisTurn, Mine, MyMove, MaxMoves
<1>. HIDE DEF Here
<1>. QED BY <1>1 DEF Submissions

LEMMA SomethingToPlay ==
  ASSUME NEW t, Built(t), NEW q, Due(t, q), q # <<>>
  PROVE  t.maxLen # 0
<1>. DEFINE u == play(t, q[1])
<1>1. Built(u) /\ SameTurn(u, t) /\ u.moves = Append(t.moves, q[1]) /\ q[1] \in Move
  <2>1. Built(u) /\ SameTurn(u, t) /\ u.moves = Append(t.moves, q[1])
    BY DueFirst, PlayBuilt
  <2>2. q[1] \in Move
    BY DEF Due
  <2>. QED BY <2>1, <2>2
<1>2. t.moves \in Seq(Move) /\ Len(u.moves) <= u.maxLen /\ u.maxLen = t.maxLen
  BY <1>1, BuiltFacts, BuilderFields DEF SameTurn
<1>. HIDE DEF u
<1>3. Len(u.moves) = Len(t.moves) + 1 /\ Len(t.moves) \in Nat
  BY <1>1, <1>2, AppendProperties
<1>. QED BY <1>2, <1>3

(* A game that did not change.                                             *)
LEMMA GameUnchanged ==
  ASSUME EngineInv, UNCHANGED vars
  PROVE  /\ EngineInv' /\ (Mine' <=> Mine) /\ Submissions' = Submissions
         /\ phase' = phase
         /\ \A t : OfThisTurn(t)' <=> OfThisTurn(t)
<1>1. EngineInv'
  BY InvKept
<1>2. /\ board' = board /\ activePlayer' = activePlayer /\ phase' = phase /\ dice' = dice
      /\ isOpeningTurn' = isOpeningTurn
  BY DEF vars
<1>3. (Mine' <=> Mine) /\ Submissions' = Submissions
  BY <1>2 DEF Mine, Submissions
<1>4. currentMaxFromHead' = currentMaxFromHead
  BY <1>2 DEF currentMaxFromHead
<1>5. maximalNow' = maximalNow
  BY <1>2, <1>4 DEF maximalNow
<1>6. \A t : OfThisTurn(t)' <=> OfThisTurn(t)
  BY <1>2, <1>4, <1>5 DEF OfThisTurn
<1>. QED BY <1>1, <1>2, <1>3, <1>6

(* The view of a game that keeps its invariant gives a proper builder.     *)
LEMMA FollowBuilds ==
  ASSUME EngineInv', tb' = IF MyMove(activePlayer', phase')
                          THEN New(board', dice', currentMaxFromHead') ELSE Null
  PROVE  BuilderNow'
<1>1. CASE ~Mine'
  BY <1>1 DEF BuilderNow, Mine
<1>2. CASE Mine'
  <2>. DEFINE b == board'
              r == dice'
              h == currentMaxFromHead'
  <2>1. tb' = New(b, r, h) /\ activePlayer' = Me /\ phase' = "AWAITING_MOVE"
    BY <1>2 DEF Mine, MyMove
  <2>2. Sound(b) /\ r \in Roll
    BY <2>1 DEF EngineInv, TypeOK, Conserved, Sound
  <2>3. h \in {1, 2}
    BY DEF currentMaxFromHead, maxFromHeadFor
  <2>4. maximalNow' = maximal(b, Me, r, h)
    BY <2>1 DEF maximalNow
  <2>. HIDE DEF b, r, h
  <2>5. /\ Built(New(b, r, h)) /\ New(b, r, h).boards[1] = b /\ New(b, r, h).roll = r
        /\ New(b, r, h).maxFromHead = h /\ New(b, r, h).maxLen = maximal(b, Me, r, h).maxLen
    BY <2>2, <2>3, NewBuilt
  <2>6. Built(tb') /\ tb'.boards[1] = board' /\ tb'.roll = dice'
        /\ tb'.maxFromHead = currentMaxFromHead' /\ tb'.maxLen = maximalNow'.maxLen
    BY <2>1, <2>4, <2>5 DEF b, r, h
  <2>7. tb' # Null
    BY <2>6, NotNull
  <2>. QED BY <1>2, <2>6, <2>7 DEF BuilderNow, OfThisTurn
<1>. QED BY <1>1, <1>2

LEMMA ClientInvInitially == InitClient => ClientInv
<1>. SUFFICES ASSUME InitClient PROVE ClientInv
  OBVIOUS
<1>1. EngineInv
  BY InvInitially DEF InitClient
<1>2. BuilderNow
  <2>1. CASE ~Mine
    BY <2>1 DEF BuilderNow, Mine, InitClient
  <2>2. CASE Mine
    <3>1. tb = New(board, dice, currentMaxFromHead) /\ activePlayer = Me
            /\ phase = "AWAITING_MOVE"
      BY <2>2 DEF InitClient, Mine, MyMove
    <3>2. Sound(board) /\ dice \in Roll
      BY <1>1, <3>1 DEF EngineInv, TypeOK, Conserved, Sound
    <3>3. currentMaxFromHead \in {1, 2}
      BY DEF currentMaxFromHead, maxFromHeadFor
    <3>4. maximalNow = maximal(board, Me, dice, currentMaxFromHead)
      BY <3>1 DEF maximalNow
    <3>5. Built(tb) /\ OfThisTurn(tb)
      BY <3>1, <3>2, <3>3, <3>4, NewBuilt DEF OfThisTurn
    <3>. QED BY <2>2, <3>5, NotNull DEF BuilderNow
  <2>. QED BY <2>1, <2>2
<1>3. /\ hops = <<>> /\ detached = Null /\ busy = FALSE /\ sent = <<>>
  BY DEF InitClient
<1>4. HopsDue
  <2>1. <<>> \in Seq(Move)
    OBVIOUS
  <2>. QED BY <1>3, <2>1, Zenon DEF HopsDue
<1>5. SentTurn /\ TurnStays
  BY <1>3 DEF SentTurn, TurnStays
<1>. QED BY <1>1, <1>2, <1>4, <1>5 DEF ClientInv

(* A turn that is sent complete, or not sent.                              *)
LEMMA FinishKeeps ==
  ASSUME NEW t, Built(t), Mine => OfThisTurn(t), sent = <<>>, Finish(t),
         UNCHANGED vars, EngineInv
  PROVE  SentTurn'
<1>1. t.moves \in Seq(Move)
  BY BuilderFields DEF Built
<1>2. (Mine' <=> Mine) /\ Submissions' = Submissions
  BY GameUnchanged
<1>3. sent' = <<>> \/ sent' = <<t.moves>>
  BY DEF Finish
<1>4. Mine => t.moves \in Submissions
  BY BuiltIsSubmission
<1>5. CASE sent' = <<>>
  BY <1>5 DEF SentTurn
<1>6. CASE sent' = <<t.moves>>
  <2>1. sent' \in Seq(Seq(Move)) /\ Len(sent') = 1 /\ sent'[1] = t.moves
    BY <1>1, <1>6
  <2>. QED BY <1>2, <1>4, <2>1 DEF SentTurn
<1>. QED BY <1>3, <1>5, <1>6

LEMMA TapKeeps == ASSUME ClientInv, Tap PROVE ClientInv'
<1>1. /\ tb # Null /\ ~busy /\ Len(sent) < MaxInFlight
      /\ UNCHANGED vars /\ detached' = detached
  BY DEF Tap, Listening
<1>2. EngineInv /\ BuilderNow /\ HopsDue /\ SentTurn /\ TurnStays
  BY DEF ClientInv
<1>3. /\ EngineInv' /\ (Mine' <=> Mine) /\ Submissions' = Submissions /\ phase' = phase
      /\ \A t : OfThisTurn(t)' <=> OfThisTurn(t)
  BY <1>1, <1>2, GameUnchanged
<1>4. Built(tb) /\ OfThisTurn(tb) /\ Mine
  BY <1>1, <1>2 DEF BuilderNow
<1>5. hops = <<>> /\ detached = Null /\ sent = <<>>
  <2>1. hops = <<>> /\ detached = Null
    BY <1>1, <1>2 DEF HopsDue
  <2>2. sent = <<>>
    BY <1>1, <1>2 DEF SentTurn, MaxInFlight
  <2>. QED BY <2>1, <2>2
<1>6. PICK from \in sources(tb) : \E path \in moveOptions(tb, from) :
        IF Len(path) = 1
        THEN tb' = play(tb, path[1]) /\ Finish(tb') /\ UNCHANGED <<hops, busy>>
        ELSE hops' = path /\ busy' = TRUE /\ UNCHANGED <<tb, sent>>
  BY DEF Tap
<1>7. PICK path \in moveOptions(tb, from) :
        IF Len(path) = 1
        THEN tb' = play(tb, path[1]) /\ Finish(tb') /\ UNCHANGED <<hops, busy>>
        ELSE hops' = path /\ busy' = TRUE /\ UNCHANGED <<tb, sent>>
  BY <1>6
<1>8. Due(tb, path) /\ Len(path) \in 1..4
  BY <1>4, OptionIsDue
<1>9. path # <<>> /\ path \in Seq(Move)
  <2>1. path # <<>>
    BY <1>8
  <2>. QED BY <1>8, <2>1 DEF Due
<1>10. TurnStays'
  BY <1>3, <1>4 DEF TurnStays
<1>11. CASE Len(path) = 1
  <2>1. /\ tb' = play(tb, path[1]) /\ Finish(tb') /\ hops' = <<>> /\ busy' = busy
    BY <1>5, <1>7, <1>11
  <2>2. Built(tb') /\ SameTurn(tb', tb)
    BY <1>4, <1>8, <1>9, <2>1, DueFirst
  <2>3. OfThisTurn(tb') /\ tb' # Null
    BY <1>4, <2>2, SameTurnStays, NotNull
  <2>4. BuilderNow'
    BY <1>3, <1>4, <2>2, <2>3 DEF BuilderNow
  <2>5. HopsDue'
    BY <1>1, <1>2, <1>5, <2>1 DEF HopsDue
  <2>6. SentTurn'
    BY <1>1, <1>2, <1>5, <2>1, <2>2, <2>3, FinishKeeps
  <2>. QED BY <1>3, <1>10, <2>4, <2>5, <2>6 DEF ClientInv
<1>12. CASE Len(path) # 1
  <2>1. /\ hops' = path /\ busy' = TRUE /\ tb' = tb /\ sent' = sent
    BY <1>7, <1>12
  <2>2. BuilderNow'
    BY <1>1, <1>3, <1>4, <2>1 DEF BuilderNow
  <2>3. held' = tb
    BY <1>1, <1>5, <2>1 DEF held
  <2>4. HopsDue'
    BY <1>1, <1>3, <1>4, <1>5, <1>8, <1>9, <2>1, <2>3 DEF HopsDue
  <2>5. SentTurn'
    BY <1>5, <2>1 DEF SentTurn
  <2>. QED BY <1>3, <1>10, <2>2, <2>4, <2>5 DEF ClientInv
<1>. QED BY <1>11, <1>12

LEMMA HopKeeps == ASSUME ClientInv, Hop PROVE ClientInv'
<1>1. EngineInv /\ BuilderNow /\ HopsDue /\ SentTurn /\ TurnStays /\ UNCHANGED vars
  BY DEF ClientInv, Hop
<1>2. /\ EngineInv' /\ (Mine' <=> Mine) /\ Submissions' = Submissions /\ phase' = phase
      /\ \A t : OfThisTurn(t)' <=> OfThisTurn(t)
  BY <1>1, GameUnchanged
<1>3. /\ hops # <<>> /\ hops \in Seq(Move) /\ held # Null /\ Built(held) /\ Due(held, hops)
      /\ (Mine => OfThisTurn(held)) /\ sent = <<>> /\ busy = TRUE
  BY <1>1 DEF HopsDue, Hop
<1>. DEFINE next == play(held, hops[1])
<1>4. /\ Built(next) /\ SameTurn(next, held) /\ Due(next, Tail(hops))
      /\ ~Throws(Last(held.boards), Me, hops[1])
  BY <1>3, DueFirst
<1>5. /\ next # Null /\ (Mine => OfThisTurn(next))
  BY <1>3, <1>4, NotNull, SameTurnStays
<1>6. /\ hops' = Tail(hops)
      /\ IF detached = Null THEN tb' = next ELSE UNCHANGED tb
      /\ detached' = IF detached = Null \/ Len(hops) = 1 THEN Null ELSE next
      /\ busy' = (busy /\ ~(Len(hops) = 1))
      /\ IF Len(hops) = 1 THEN Finish(next) ELSE UNCHANGED sent
  BY <1>4 DEF Hop, held
<1>7. /\ Tail(hops) \in Seq(Move) /\ Len(Tail(hops)) = Len(hops) - 1
      /\ Len(hops) \in Nat /\ Len(hops) > 0
  BY <1>3, HeadTailProperties
<1>8. Tail(hops) = <<>> <=> Len(hops) = 1
  BY <1>7
<1>. HIDE DEF next
<1>9. BuilderNow'
  <2>1. CASE detached = Null
    <3>1. tb' = next /\ tb = held /\ tb # Null
      BY <1>3, <1>6, <2>1 DEF held
    <3>. QED BY <1>1, <1>2, <1>4, <1>5, <3>1 DEF BuilderNow
  <2>2. CASE detached # Null
    BY <1>1, <1>2, <1>6, <2>2 DEF BuilderNow
  <2>. QED BY <2>1, <2>2
<1>10. TurnStays'
  BY <1>1, <1>2, <1>3 DEF TurnStays
<1>11. CASE Len(hops) = 1
  <2>1. hops' = <<>> /\ detached' = Null /\ busy' = FALSE
    BY <1>6, <1>8, <1>11
  <2>2. HopsDue'
    <3>1. <<>> \in Seq(Move)
      OBVIOUS
    <3>. QED BY <2>1, <3>1, Zenon DEF HopsDue
  <2>3. SentTurn'
    BY <1>1, <1>3, <1>4, <1>5, <1>6, <1>11, FinishKeeps
  <2>. QED BY <1>2, <1>9, <1>10, <2>2, <2>3 DEF ClientInv
<1>12. CASE Len(hops) # 1
  <2>1. hops' # <<>> /\ hops' \in Seq(Move) /\ sent' = sent /\ busy' = TRUE
    BY <1>3, <1>6, <1>7, <1>8, <1>12
  <2>2. held' = next
    BY <1>5, <1>6, <1>12 DEF held
  <2>3. detached' # Null => Built(detached') /\ detached' = next
    BY <1>4, <1>6
  <2>4. HopsDue'
    BY <1>2, <1>3, <1>4, <1>5, <1>6, <2>1, <2>2, <2>3 DEF HopsDue
  <2>5. SentTurn'
    BY <1>3, <2>1 DEF SentTurn
  <2>. QED BY <1>2, <1>9, <1>10, <2>4, <2>5 DEF ClientInv
<1>. QED BY <1>11, <1>12

LEMMA UndoKeeps == ASSUME ClientInv, ~UndoWhileBusy, Undo PROVE ClientInv'
<1>1. EngineInv /\ BuilderNow /\ HopsDue /\ SentTurn /\ TurnStays
  BY DEF ClientInv
<1>2. /\ tb # Null /\ tb.moves # <<>> /\ ~busy /\ tb' = undo(tb)
      /\ UNCHANGED vars /\ hops' = hops /\ detached' = detached /\ busy' = busy /\ sent' = sent
  BY DEF Undo
<1>3. /\ EngineInv' /\ (Mine' <=> Mine) /\ Submissions' = Submissions /\ phase' = phase
      /\ \A t : OfThisTurn(t)' <=> OfThisTurn(t)
  BY <1>1, <1>2, GameUnchanged
<1>4. Built(tb) /\ OfThisTurn(tb) /\ Mine
  BY <1>1, <1>2 DEF BuilderNow
<1>5. Built(tb') /\ SameTurn(tb', tb)
  BY <1>2, <1>4, UndoBuilt
<1>6. OfThisTurn(tb') /\ tb' # Null
  BY <1>4, <1>5, SameTurnStays, NotNull
<1>7. BuilderNow'
  BY <1>3, <1>4, <1>5, <1>6 DEF BuilderNow
<1>8. hops = <<>>
  BY <1>1, <1>2 DEF HopsDue
<1>9. HopsDue'
  BY <1>1, <1>2, <1>8 DEF HopsDue
<1>10. SentTurn' /\ TurnStays'
  BY <1>1, <1>2, <1>3 DEF SentTurn, TurnStays
<1>. QED BY <1>3, <1>7, <1>9, <1>10 DEF ClientInv

LEMMA PassKeeps == ASSUME ClientInv, Pass PROVE ClientInv'
<1>1. EngineInv /\ BuilderNow /\ HopsDue /\ SentTurn /\ TurnStays
  BY DEF ClientInv
<1>2. /\ tb # Null /\ tb.maxLen = 0 /\ Len(sent) < MaxInFlight
      /\ sent' = Append(sent, <<>>) /\ UNCHANGED vars
      /\ tb' = tb /\ hops' = hops /\ detached' = detached /\ busy' = busy
  BY DEF Pass
<1>3. /\ EngineInv' /\ (Mine' <=> Mine) /\ Submissions' = Submissions /\ phase' = phase
      /\ \A t : OfThisTurn(t)' <=> OfThisTurn(t)
  BY <1>1, <1>2, GameUnchanged
<1>4. Built(tb) /\ OfThisTurn(tb) /\ Mine
  BY <1>1, <1>2 DEF BuilderNow
<1>5. hops = <<>>
  <2>. SUFFICES ASSUME hops # <<>> PROVE FALSE
    OBVIOUS
  <2>1. Built(held) /\ Due(held, hops) /\ OfThisTurn(held)
    BY <1>1, <1>4 DEF HopsDue
  <2>2. held.maxLen = tb.maxLen
    BY <1>4, <2>1 DEF OfThisTurn
  <2>. QED BY <1>2, <2>1, <2>2, SomethingToPlay
<1>6. BuilderNow' /\ TurnStays'
  BY <1>1, <1>2, <1>3, <1>4 DEF BuilderNow, TurnStays
<1>7. HopsDue'
  BY <1>1, <1>2, <1>5 DEF HopsDue
<1>8. sent' = <<<<>>>>
  <2>1. sent = <<>>
    BY <1>1, <1>2 DEF SentTurn, MaxInFlight
  <2>. QED BY <1>2, <2>1
<1>9. <<>> \in Submissions
  <2>1. Start(board, dice) \in enumerate(board, activePlayer, dice, MaxMoves)
    BY LinesFromIs DEF enumerate
  <2>2. Start(board, dice).moves = <<>>
    BY DEF Start
  <2>. HIDE DEF Start
  <2>. QED BY <2>1, <2>2 DEF Submissions
<1>10. SentTurn'
  BY <1>3, <1>8, <1>9 DEF SentTurn
<1>. QED BY <1>3, <1>6, <1>7, <1>10 DEF ClientInv

(* Timers go on with the builder they were started on.                     *)
LEMMA TimersHold ==
  ASSUME BuilderNow, HopsDue, Follow
  PROVE  /\ hops' = hops /\ busy' = busy
         /\ hops = <<>> => detached' = Null
         /\ hops # <<>> => held' = held /\ (detached' # Null => hops # <<>>)
<1>1. /\ detached' = IF hops # <<>> /\ detached = Null THEN tb ELSE detached
      /\ hops' = hops /\ busy' = busy
  BY DEF Follow
<1>2. CASE hops = <<>>
  <2>1. detached = Null
    BY <1>2 DEF HopsDue
  <2>. QED BY <1>1, <1>2, <2>1
<1>3. CASE hops # <<>>
  <2>1. held # Null
    BY <1>3 DEF HopsDue
  <2>2. CASE detached = Null
    <3>1. held = tb /\ detached' = tb /\ tb # Null
      BY <1>1, <1>3, <2>1, <2>2 DEF held
    <3>. QED BY <1>1, <1>3, <3>1 DEF held
  <2>3. CASE detached # Null
    BY <1>1, <1>3, <2>3 DEF held
  <2>. QED BY <2>2, <2>3
<1>. QED BY <1>2, <1>3

LEMMA FollowKeepsHops ==
  ASSUME BuilderNow, HopsDue, Follow,
         hops # <<>> => (sent' = <<>> /\ (Mine' => OfThisTurn(held)'))
  PROVE  HopsDue'
<1>1. CASE hops = <<>>
  <2>1. hops' = <<>> /\ detached' = Null /\ busy' = FALSE
    BY <1>1, TimersHold DEF HopsDue
  <2>2. <<>> \in Seq(Move)
    OBVIOUS
  <2>. QED BY <2>1, <2>2, Zenon DEF HopsDue
<1>2. CASE hops # <<>>
  <2>1. /\ hops' = hops /\ busy' = busy /\ held' = held
        /\ hops \in Seq(Move) /\ busy \in BOOLEAN /\ busy
        /\ held # Null /\ Built(held) /\ Due(held, hops)
    BY <1>2, TimersHold DEF HopsDue
  <2>2. sent' = <<>> /\ (Mine' => OfThisTurn(held)')
    BY <1>2
  <2>3. hops' \in Seq(Move) /\ busy' \in BOOLEAN /\ (busy' <=> hops' # <<>>)
    BY <1>2, <2>1
  <2>4. held' # Null /\ Built(held') /\ Due(held', hops')
    BY <2>1
  <2>. QED BY <1>2, <2>1, <2>2, <2>3, <2>4, Zenon DEF HopsDue
<1>. QED BY <1>1, <1>2

LEMMA RefreshKeeps == ASSUME ClientInv, Refresh PROVE ClientInv'
<1>1. EngineInv /\ BuilderNow /\ HopsDue /\ SentTurn /\ TurnStays
  BY DEF ClientInv
<1>2. UNCHANGED vars /\ Follow /\ sent' = sent
  BY DEF Refresh
<1>3. /\ EngineInv' /\ (Mine' <=> Mine) /\ Submissions' = Submissions /\ phase' = phase
      /\ \A t : OfThisTurn(t)' <=> OfThisTurn(t)
  BY <1>1, <1>2, GameUnchanged
<1>4. BuilderNow'
  BY <1>2, <1>3, FollowBuilds DEF Follow
<1>5. HopsDue'
  <2>1. hops # <<>> => held' = held /\ sent = <<>> /\ (Mine => OfThisTurn(held))
    BY <1>1, <1>2, TimersHold DEF HopsDue
  <2>2. ASSUME hops # <<>> PROVE sent' = <<>> /\ (Mine' => OfThisTurn(held)')
    <3>1. Mine' => OfThisTurn(held)'
      BY <1>3, <2>1, <2>2
    <3>. QED BY <1>2, <2>1, <2>2, <3>1
  <2>. QED BY <1>1, <1>2, <2>2, FollowKeepsHops
<1>6. hops' = hops
  BY <1>2 DEF Follow
<1>7. SentTurn' /\ TurnStays'
  BY <1>1, <1>2, <1>3, <1>6 DEF SentTurn, TurnStays
<1>. QED BY <1>3, <1>4, <1>5, <1>7 DEF ClientInv

(* A submitted turn is played only if the game accepts it.                 *)
LEMMA DeliveredIsPlayed ==
  ASSUME ClientInv, sent # <<>>, NEW l \in Submitted, PlayLine(l)
  PROVE  playTurn
<1>1. /\ Mine
      /\ l \in validateTurn(board, Me, dice, sent[1], currentMaxFromHead, maximalNow.maxLen)
  BY DEF Submitted, Mine
<1>2. activePlayer = Me /\ phase = "AWAITING_MOVE" /\ sent[1] \in Submissions
  BY <1>1 DEF Mine, MyMove, ClientInv, SentTurn
<1>3. l \in Accepted
  BY <1>1, <1>2 DEF Accepted
<1>. QED BY <1>2, <1>3 DEF playTurn

LEMMA DeliverKeeps == ASSUME ClientInv, Deliver PROVE ClientInv'
<1>1. EngineInv /\ BuilderNow /\ HopsDue /\ SentTurn /\ TurnStays
  BY DEF ClientInv
<1>2. sent # <<>> /\ sent' = Tail(sent)
  BY DEF Deliver
<1>3. hops = <<>>
  BY <1>1, <1>2 DEF HopsDue
<1>4. sent' = <<>>
  <2>1. sent \in Seq(Seq(Move)) /\ Len(sent) <= 1
    BY <1>1 DEF SentTurn
  <2>. QED BY <1>2, <2>1
<1>5. SentTurn'
  <2>1. <<>> \in Seq(Seq(Move)) /\ Len(<<>>) <= 1
    OBVIOUS
  <2>. QED BY <1>4, <2>1 DEF SentTurn
<1>6. CASE UNCHANGED <<vars, tb, hops, detached, busy>>
  <2>1. UNCHANGED vars /\ tb' = tb /\ hops' = hops /\ detached' = detached /\ busy' = busy
    BY <1>6
  <2>2. /\ EngineInv' /\ (Mine' <=> Mine) /\ \A t : OfThisTurn(t)' <=> OfThisTurn(t)
    BY <1>1, <2>1, GameUnchanged
  <2>3. BuilderNow'
    BY <1>1, <2>1, <2>2 DEF BuilderNow
  <2>4. HopsDue'
    BY <1>1, <1>3, <2>1 DEF HopsDue
  <2>5. TurnStays'
    BY <1>3, <1>4, <2>1 DEF TurnStays
  <2>. QED BY <1>5, <2>2, <2>3, <2>4, <2>5 DEF ClientInv
<1>7. ASSUME NEW l \in Submitted, PlayLine(l), Follow
      PROVE  ClientInv'
  <2>1. playTurn
    BY <1>2, <1>7, DeliveredIsPlayed
  <2>2. EngineInv'
    BY <1>1, <2>1, InvKept DEF Next
  <2>3. BuilderNow'
    BY <1>7, <2>2, FollowBuilds DEF Follow
  <2>4. HopsDue'
    BY <1>1, <1>3, <1>7, FollowKeepsHops
  <2>5. hops' = <<>>
    BY <1>3, <1>7 DEF Follow
  <2>6. TurnStays'
    BY <1>4, <2>5 DEF TurnStays
  <2>. QED BY <1>5, <2>2, <2>3, <2>4, <2>6 DEF ClientInv
<1>. QED BY <1>6, <1>7 DEF Deliver

LEMMA OthersKeep == ASSUME ClientInv, OtherSteps PROVE ClientInv'
<1>1. EngineInv /\ BuilderNow /\ HopsDue /\ SentTurn /\ TurnStays
  BY DEF ClientInv
<1>2. /\ Follow /\ sent' = sent /\ hops' = hops
      /\ roll \/ (activePlayer # Me /\ playTurn) \/ \E p \in Player : forfeit(p)
  BY DEF OtherSteps, Follow
<1>3. EngineInv'
  <2>1. Next
    BY <1>2 DEF Next
  <2>. QED BY <1>1, <2>1, InvKept
<1>4. BuilderNow'
  BY <1>2, <1>3, FollowBuilds DEF Follow
<1>5. ASSUME hops # <<>> \/ sent # <<>>
      PROVE  phase' = "GAME_OVER" /\ ~Mine'
  <2>1. phase = "GAME_OVER" \/ (phase = "AWAITING_MOVE" /\ activePlayer = Me)
    BY <1>1, <1>5 DEF TurnStays, Mine, MyMove
  <2>2. \E p \in Player : forfeit(p)
    BY <1>2, <2>1 DEF roll, playTurn
  <2>. QED BY <2>2 DEF forfeit, Concede, Mine, MyMove
<1>6. HopsDue'
  BY <1>1, <1>2, <1>5, FollowKeepsHops DEF HopsDue
<1>7. SentTurn' /\ TurnStays'
  BY <1>1, <1>2, <1>5 DEF SentTurn, TurnStays
<1>. QED BY <1>3, <1>4, <1>6, <1>7 DEF ClientInv

LEMMA ClientInvKept ==
  ASSUME ~UndoWhileBusy
  PROVE  ClientInv /\ [NextClient]_<<vars, ui>> => ClientInv'
<1>. SUFFICES ASSUME ClientInv, [NextClient]_<<vars, ui>> PROVE ClientInv'
  OBVIOUS
<1>1. CASE UNCHANGED <<vars, ui>>
  <2>1. /\ UNCHANGED vars /\ tb' = tb /\ hops' = hops /\ detached' = detached
        /\ busy' = busy /\ sent' = sent
    BY <1>1 DEF ui
  <2>2. /\ EngineInv' /\ (Mine' <=> Mine) /\ Submissions' = Submissions /\ phase' = phase
        /\ \A t : OfThisTurn(t)' <=> OfThisTurn(t)
    BY <2>1, GameUnchanged DEF ClientInv
  <2>3. BuilderNow'
    BY <2>1, <2>2 DEF BuilderNow, ClientInv
  <2>4. HopsDue'
    <3>1. held' = held
      BY <2>1 DEF held
    <3>. QED BY <2>1, <2>2, <3>1 DEF HopsDue, ClientInv
  <2>5. SentTurn' /\ TurnStays'
    BY <2>1, <2>2 DEF SentTurn, TurnStays, ClientInv
  <2>. QED BY <2>2, <2>3, <2>4, <2>5 DEF ClientInv
<1>. QED BY <1>1, TapKeeps, HopKeeps, UndoKeeps, PassKeeps, DeliverKeeps, OthersKeep, RefreshKeeps
     DEF NextClient

LEMMA ClientInvHolds ==
  ASSUME ~UndoWhileBusy
  PROVE  ClientSpec => []ClientInv
BY ClientInvInitially, ClientInvKept, PTL DEF ClientSpec

(***************************************************************************)
(* The theorems                                                            *)
(***************************************************************************)

(* Whatever is tapped, undone, passed, replaced by a new view or overtaken *)
(* by the end of the game, the builder is on a line of the engine's search *)
(* that can still use as many dice as the roll allows, and a turn it calls *)
(* complete is legal move by move, keeps the head rule and is of maximal   *)
(* length (TurnBuilder.play, undo, candidates, moveOptions).               *)
THEOREM OnlyMaximalTurnsAreBuilt ==
  ASSUME ~UndoWhileBusy
  PROVE  ClientSpec => []BuilderOK
<1>1. ClientInv => ClientOK
  <2>. SUFFICES ASSUME ClientInv PROVE ClientOK
    OBVIOUS
  <2>1. /\ tb # Null <=> Mine
        /\ tb # Null => Built(tb)
    BY DEF ClientInv, BuilderNow
  <2>2. /\ hops \in Seq(Move) /\ busy \in BOOLEAN
        /\ detached # Null => Built(detached)
    BY DEF ClientInv, HopsDue, held
  <2>3. sent \in Seq(Seq(Move)) /\ Len(sent) <= MaxInFlight
    BY DEF ClientInv, SentTurn, MaxInFlight
  <2>. QED BY <2>1, <2>2, <2>3 DEF ClientOK, Built, Mine, MyMove
<1>2. ClientInv => NeverUnderplayed
  <2>. SUFFICES ASSUME ClientInv, tb # Null
                PROVE  /\ tb.maxLen = maximalNow.maxLen
                       /\ Len(tb.moves) + maxUsable(tb, Here(tb)) = tb.maxLen
    BY DEF NeverUnderplayed
  <2>1. Built(tb) /\ OfThisTurn(tb)
    BY DEF ClientInv, BuilderNow
  <2>. DEFINE n == Longest(LinesFrom(Here(tb), Me, tb.maxFromHead))
              k == Len(tb.moves)
  <2>2. /\ n = tb.maxLen /\ Here(tb).moves = tb.moves /\ k \in 0..4 /\ tb.maxLen \in 0..4
    BY <2>1, BuiltFacts DEF Goes
  <2>3. maxUsable(tb, Here(tb)) = n - k
    BY <2>2 DEF maxUsable
  <2>4. k + (n - k) = n
    <3>1. k \in Int /\ n \in Int
      BY <2>2
    <3>. HIDE DEF k, n
    <3>. QED BY <3>1
  <2>. QED BY <2>1, <2>2, <2>3, <2>4 DEF OfThisTurn
<1>3. ClientInv => CompletedIsMaximal
  <2>. SUFFICES ASSUME ClientInv, tb # Null, isComplete(tb)
                PROVE  \E l \in Played(board, Me, dice, tb.moves) :
                         l.head <= currentMaxFromHead /\ Len(l.moves) = maximalNow.maxLen
    BY DEF CompletedIsMaximal
  <2>1. Built(tb) /\ OfThisTurn(tb) /\ EngineInv
    BY DEF ClientInv, BuilderNow
  <2>2. /\ Here(tb) \in enumerate(board, Me, dice, 4)
        /\ Here(tb).head <= currentMaxFromHead
        /\ Here(tb).moves = tb.moves /\ Me \in Player
        /\ Sound(board) /\ dice \in Roll
    <3>1. tb.boards[1] = board /\ tb.roll = dice /\ tb.maxFromHead = currentMaxFromHead
      BY <2>1 DEF OfThisTurn
    <3>2. Sound(board) /\ dice \in Roll
      BY <2>1, <3>1, BuilderFields DEF Built
    <3>. QED BY <2>1, <3>1, <3>2, BuiltIsSearched, BuiltFacts
  <2>3. Played(board, Me, dice, tb.moves) = {Here(tb)}
    BY <2>2, PlayedBack
  <2>4. Len(tb.moves) = maximalNow.maxLen
    BY <2>1 DEF isComplete, OfThisTurn
  <2>. HIDE DEF Here
  <2>. QED BY <2>2, <2>3, <2>4
<1>4. ClientInv => BuilderOK
  BY <1>1, <1>2, <1>3 DEF BuilderOK
<1>. QED BY <1>4, ClientInvHolds, PTL

(* The player is never stuck in the middle of a turn: until it is complete *)
(* some checker is offered and every checker offered has an end point.     *)
THEOREM APlayerIsNeverStuck ==
  ASSUME ~UndoWhileBusy
  PROVE  ClientSpec => []SomethingOffered
<1>1. ClientInv => SomethingOffered
  BY SourcesHaveTargets DEF ClientInv, BuilderNow, SomethingOffered
<1>. QED BY <1>1, ClientInvHolds, PTL

(* The board is deaf only while the hops of a combined move are due: play  *)
(* never throws inside a timer, so the callback always comes to its reset. *)
THEOREM DeafOnlyWhileHopping ==
  ASSUME ~UndoWhileBusy
  PROVE  ClientSpec => []BusyOnlyWhileHopping
<1>1. ClientInv => BusyOnlyWhileHopping
  BY DEF ClientInv, HopsDue, BusyOnlyWhileHopping
<1>. QED BY <1>1, ClientInvHolds, PTL

(* The game behind the client is a game of the engine: what the server     *)
(* plays of a submission is a turn that playTurn accepts.                  *)
THEOREM TheClientPlaysTheGame ==
  ASSUME ~UndoWhileBusy
  PROVE  ClientSpec => Spec
<1>1. ASSUME ClientInv, [NextClient]_<<vars, ui>>
      PROVE  [Next]_vars
  <2>1. CASE Deliver
    <3>1. CASE UNCHANGED vars
      BY <3>1
    <3>2. ASSUME NEW l \in Submitted, PlayLine(l) PROVE Next
      BY <1>1, <2>1, <3>2, DeliveredIsPlayed DEF Deliver, Next
    <3>. QED BY <2>1, <3>1, <3>2 DEF Deliver
  <2>2. CASE OtherSteps
    BY <2>2 DEF OtherSteps, Next
  <2>3. CASE Tap \/ Hop \/ Undo \/ Pass \/ Refresh
    BY <2>3 DEF Tap, Hop, Undo, Pass, Refresh
  <2>. QED BY <1>1, <2>1, <2>2, <2>3 DEF NextClient, ui
<1>2. InitClient => Init
  BY DEF InitClient
<1>3. ClientInv /\ [NextClient]_<<vars, ui>> => [Next]_vars
  BY <1>1
<1>. QED BY <1>2, <1>3, ClientInvHolds, PTL DEF ClientSpec, Spec
=============================================================================
