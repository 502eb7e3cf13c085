---------------------------- MODULE ClientProofs ----------------------------
(***************************************************************************)
(* Proofs about the client, as it stands in MCClient: the board on a       *)
(* screen of any size, told to show any positions, and the pages of any    *)
(* number of players, watchers and tabs that follow a match, with any      *)
(* number of broken connections.                                           *)
(***************************************************************************)
EXTENDS MCClient, FiniteSetTheorems, SequenceTheorems, TLAPS

(*****************************************************************************)
(* The glides between two positions: sequences of checkers, counted        *)
(*****************************************************************************)

(* Some number of a set of them is least. *)
LEMMA LeastNumber ==
  ASSUME NEW N \in Nat, NEW B \in SUBSET (0..N), B # {}
  PROVE  \E n \in B : \A k \in B : n <= k
<1>. DEFINE All == 0..N
            Sets == {0..n : n \in B}
            R == StrictSubsetOrdering(All)
<1>1. IsFiniteSet(All)
  BY FS_Interval
<1>2. Sets \in SUBSET SUBSET All /\ Sets # {}
  <2>1. \A n \in B : 0..n \subseteq 0..N
    OBVIOUS
  <2>. QED BY <2>1
<1>3. PICK s \in Sets : \A r \in Sets : ~(<<r, s>> \in R)
  <2>. HIDE DEF All, Sets
  <2>1. IsWellFoundedOn(R, FiniteSubsetsOf(All))
    BY <1>1, FS_StrictSubsetOrderingWellFounded
  <2>2. Sets \subseteq FiniteSubsetsOf(All)
    BY <1>1, <1>2, FS_Subset DEF FiniteSubsetsOf
  <2>. HIDE DEF R
  <2>. QED BY <1>2, <2>1, <2>2, WFMin
<1>4. PICK n \in B : s = 0..n
  OBVIOUS
<1>5. ASSUME NEW k \in B, k < n PROVE FALSE
  <2>1. 0..k \in Sets /\ 0..k \subseteq s
    BY <1>4, <1>5
  <2>2. n \in s /\ n \notin 0..k
    BY <1>4, <1>5
  <2>3. 0..k # s
    BY <2>2
  <2>4. <<0..k, s>> \in R
    BY <1>2, <2>1, <2>3 DEF StrictSubsetOrdering
  <2>. HIDE DEF R, Sets
  <2>. QED BY <1>3, <2>1, <2>4
<1>6. \A k \in B : n <= k
  BY <1>5
<1>. QED BY <1>6

(* What holds of the first point, and with every point of the next, holds of
   all. *)
LEMMA PointByPoint ==
  ASSUME NEW Good \in SUBSET Points, 1 \in Good, \A k \in Points : k # 24 /\ k \in Good => k + 1 \in Good
  PROVE  Good = Points
<1>. DEFINE Bad == Points \ Good
<1>1. ASSUME Bad # {} PROVE FALSE
  <2>1. Bad \in SUBSET (0..24) /\ 24 \in Nat
    BY DEF Points
  <2>. HIDE DEF Bad
  <2>2. PICK k \in Bad : \A j \in Bad : k <= j
    BY <1>1, <2>1, LeastNumber
  <2>. USE DEF Bad
  <2>3. k \in Points /\ k \notin Good /\ k # 1
    OBVIOUS
  <2>4. k - 1 \in Points /\ k - 1 # 24 /\ (k - 1) + 1 = k
    BY <2>3 DEF Points
  <2>5. k - 1 \notin Bad
    <3>. HIDE DEF Bad
    <3>. QED BY <2>2, <2>3 DEF Points
  <2>. QED BY <2>3, <2>4, <2>5
<1>. QED BY <1>1

Positive(n) == IF n > 0 THEN n ELSE 0

(* What Max is of zero and a number. *)
LEMMA MaxWithZero == ASSUME NEW n \in Int PROVE Max({0, n}) = Positive(n)
<1>1. \E x \in {0, n} : \A y \in {0, n} : x >= y
  OBVIOUS
<1>2. Max({0, n}) \in {0, n} /\ \A y \in {0, n} : Max({0, n}) >= y
  BY <1>1 DEF Max
<1>. QED BY <1>2 DEF Positive

(* What Min is of a number and itself. *)
LEMMA MinOfSame == ASSUME NEW n \in Int PROVE Min({n, n}) = n
<1>1. \E x \in {n, n} : \A y \in {n, n} : x =< y
  OBVIOUS
<1>2. Min({n, n}) \in {n, n}
  BY <1>1 DEF Min
<1>. QED BY <1>2

(* How often v is in s. *)
HowMany(s, v) == Cardinality({i \in DOMAIN s : s[i] = v})

(* The places where v stands are finitely many. *)
LEMMA PlacesAreFinite ==
  ASSUME NEW V, NEW s \in Seq(V), NEW v
  PROVE  IsFiniteSet({i \in DOMAIN s : s[i] = v}) /\ HowMany(s, v) \in Nat
<1>1. DOMAIN s = 1..Len(s) /\ Len(s) \in Nat
  BY LenProperties
<1>2. IsFiniteSet(1..Len(s))
  BY <1>1, FS_Interval
<1>3. {i \in DOMAIN s : s[i] = v} \in SUBSET (1..Len(s))
  BY <1>1
<1>4. IsFiniteSet({i \in DOMAIN s : s[i] = v})
  BY <1>2, <1>3, FS_Subset
<1>. QED BY <1>4, FS_CardinalityType DEF HowMany

(* A set of numbers moved up has as many elements. *)
LEMMA MovedUp ==
  ASSUME NEW A \in SUBSET Nat, IsFiniteSet(A), NEW d \in Nat
  PROVE  LET B == {i \in Nat : \E j \in A : i = j + d}
         IN IsFiniteSet(B) /\ Cardinality(B) = Cardinality(A)
<1>. DEFINE B == {i \in Nat : \E j \in A : i = j + d}
            f == [j \in A |-> j + d]
<1>1. f \in Bijection(A, B)
  <2>1. f \in [A -> B]
    OBVIOUS
  <2>2. \A a, b \in A : f[a] = f[b] => a = b
    OBVIOUS
  <2>3. \A b \in B : \E a \in A : f[a] = b
    OBVIOUS
  <2>. QED BY <2>1, <2>2, <2>3 DEF Bijection, Injection, Surjection, IsInjective
<1>2. ExistsBijection(A, B)
  <2>. HIDE DEF f, B
  <2>. QED BY <1>1 DEF ExistsBijection
<1>. HIDE DEF B
<1>3. IsFiniteSet(B) /\ Cardinality(B) = Cardinality(A)
  BY <1>2, FS_Bijection
<1>. QED BY <1>3 DEF B

(* A value is in two sequences together as often as in the one and the other. *)
LEMMA HowManyOfBoth ==
  ASSUME NEW V, NEW a \in Seq(V), NEW b \in Seq(V), NEW v
  PROVE  HowMany(a \o b, v) = HowMany(a, v) + HowMany(b, v)
<1>. DEFINE A == {i \in DOMAIN a : a[i] = v}
            B == {i \in DOMAIN b : b[i] = v}
            d == Len(a)
            C == {i \in Nat : \E j \in B : i = j + d}
            AB == {i \in DOMAIN (a \o b) : (a \o b)[i] = v}
<1>1. /\ DOMAIN a = 1..d /\ d \in Nat /\ DOMAIN b = 1..Len(b) /\ Len(b) \in Nat
  BY LenProperties
<1>2. /\ a \o b \in Seq(V) /\ Len(a \o b) = d + Len(b)
      /\ \A i \in 1..(d + Len(b)) : (a \o b)[i] = IF i <= d THEN a[i] ELSE b[i - d]
  BY ConcatProperties
<1>3. DOMAIN (a \o b) = 1..(d + Len(b))
  BY <1>2, LenProperties
<1>. HIDE DEF d
<1>4. AB = A \union C
  <2>1. ASSUME NEW i \in AB PROVE i \in A \/ i \in C
    <3>1. i \in 1..(d + Len(b)) /\ (a \o b)[i] = v
      BY <1>3
    <3>2. CASE i <= d
      BY <1>1, <1>2, <3>1, <3>2
    <3>3. CASE i > d
      <4>1. i - d \in 1..Len(b) /\ b[i - d] = v /\ i = (i - d) + d /\ i \in Nat
        BY <1>1, <1>2, <3>1, <3>3
      <4>2. i - d \in B
        BY <1>1, <4>1
      <4>. HIDE DEF B, AB
      <4>. QED BY <4>1, <4>2
    <3>. QED BY <1>1, <3>1, <3>2, <3>3
  <2>2. ASSUME NEW i \in A PROVE i \in AB
    <3>1. i \in 1..d /\ a[i] = v
      BY <1>1
    <3>2. i \in 1..(d + Len(b)) /\ i <= d
      BY <1>1, <3>1
    <3>. QED BY <1>2, <1>3, <3>1, <3>2
  <2>3. ASSUME NEW i \in C PROVE i \in AB
    <3>1. PICK j \in B : i = j + d
      OBVIOUS
    <3>2. j \in 1..Len(b) /\ b[j] = v
      BY <1>1
    <3>3. i \in 1..(d + Len(b)) /\ ~(i <= d) /\ i - d = j
      BY <1>1, <3>1, <3>2
    <3>4. (a \o b)[i] = v
      BY <1>2, <3>2, <3>3
    <3>. QED BY <1>3, <3>3, <3>4
  <2>. HIDE DEF A, C, AB
  <2>. QED BY <2>1, <2>2, <2>3
<1>5. A \intersect C = {}
  <2>. SUFFICES ASSUME NEW i \in A, i \in C PROVE FALSE
    OBVIOUS
  <2>1. PICK j \in B : i = j + d
    OBVIOUS
  <2>2. i \in 1..d /\ j \in 1..Len(b)
    BY <1>1
  <2>. QED BY <1>1, <2>1, <2>2
<1>6. IsFiniteSet(A) /\ IsFiniteSet(B)
  BY PlacesAreFinite
<1>7. B \in SUBSET Nat
  BY <1>1
<1>8. IsFiniteSet(C) /\ Cardinality(C) = Cardinality(B)
  <2>. HIDE DEF B
  <2>. QED BY <1>1, <1>6, <1>7, MovedUp
<1>9. Cardinality(A) \in Nat /\ Cardinality(B) \in Nat /\ Cardinality({}) = 0
  BY <1>6, FS_CardinalityType, FS_EmptySet
<1>. HIDE DEF A, B, C, AB
<1>10. Cardinality(AB) = Cardinality(A) + Cardinality(C) - Cardinality({})
  BY <1>4, <1>5, <1>6, <1>8, FS_Union
<1>11. Cardinality(AB) = Cardinality(A) + Cardinality(B)
  BY <1>8, <1>9, <1>10
<1>. QED BY <1>11 DEF A, B, AB, HowMany

(* Times: n places, all with the same value, and none if n is negative. *)
LEMMA TimesIs ==
  ASSUME NEW V, NEW v \in V, NEW n \in Int
  PROVE  /\ Times(n, v) \in Seq(V) /\ Len(Times(n, v)) = Positive(n)
         /\ \A u : HowMany(Times(n, v), u) = IF u = v THEN Positive(n) ELSE 0
<1>1. Times(n, v) = [k \in 1..Positive(n) |-> v] /\ Positive(n) \in Nat
  BY MaxWithZero DEF Times, Positive
<1>2. Times(n, v) \in Seq(V) /\ Len(Times(n, v)) = Positive(n) /\ DOMAIN Times(n, v) = 1..Positive(n)
  BY <1>1
<1>3. ASSUME NEW u PROVE HowMany(Times(n, v), u) = IF u = v THEN Positive(n) ELSE 0
  <2>1. CASE u = v
    <3>1. {i \in DOMAIN Times(n, v) : Times(n, v)[i] = u} = 1..Positive(n)
      BY <1>1, <2>1
    <3>2. Cardinality(1..Positive(n)) = Positive(n)
      BY <1>1, FS_Interval
    <3>. QED BY <2>1, <3>1, <3>2 DEF HowMany
  <2>2. CASE u # v
    <3>1. {i \in DOMAIN Times(n, v) : Times(n, v)[i] = u} = {}
      BY <1>1, <2>2
    <3>. QED BY <2>2, <3>1, FS_EmptySet DEF HowMany
  <2>. QED BY <2>1, <2>2
<1>. QED BY <1>2, <1>3

(* What arithmetic says of a point and the next one. *)
LEMMA NextPoint ==
  ASSUME NEW k \in Points, k # 24
  PROVE  /\ k \in Int /\ k + 1 \in Points /\ k + 1 # 1 /\ (k + 1) - 1 = k /\ k + 1 \notin 1..k
         /\ k \in 1..k /\ 1..k \subseteq Points
         /\ \A u : u \in 1..(k + 1) <=> u \in 1..k \/ u = k + 1
<1>1. k \in Int /\ 1 <= k /\ k <= 23
  BY DEF Points
<1>2. k + 1 \in Points /\ k + 1 # 1 /\ (k + 1) - 1 = k /\ k + 1 \notin 1..k /\ k \in 1..k
  BY <1>1 DEF Points
<1>3. \A u \in 1..k : u \in Points /\ u \in 1..(k + 1)
  BY <1>1 DEF Points
<1>4. \A u \in 1..(k + 1) : u \in 1..k \/ u = k + 1
  BY <1>1
<1>5. k + 1 \in 1..(k + 1)
  BY <1>1
<1>. QED BY <1>1, <1>2, <1>3, <1>4, <1>5

(* Times, of a point. *)
LEMMA TimesOnPoint ==
  ASSUME NEW p \in Points, NEW n \in Int
  PROVE  /\ Times(n, p) \in Seq(Points) /\ Len(Times(n, p)) = Positive(n)
         /\ \A u : HowMany(Times(n, p), u) = IF u = p THEN Positive(n) ELSE 0
BY TimesIs

(* f joins the first n sequences of x. *)
Joins(f, n, x) == \A k \in 1..n : f[k] = IF k = 1 THEN x[k] ELSE f[k - 1] \o x[k]

(* There is such a joining of all the points' sequences. *)
LEMMA JoinExists ==
  ASSUME NEW V, NEW x \in [Points -> Seq(V)]
  PROVE  \E f \in [Points -> Seq(V)] : Joins(f, 24, x)
<1>. DEFINE Has(n) == \E f \in [1..n -> Seq(V)] : Joins(f, n, x)
            Good == {n \in Points : Has(n)}
<1>1. 1 \in Good
  <2>. DEFINE f == [k \in 1..1 |-> x[1]]
  <2>1. f \in [1..1 -> Seq(V)]
    BY DEF Points
  <2>2. Joins(f, 1, x)
    BY DEF Joins
  <2>3. Has(1)
    <3>. HIDE DEF f
    <3>. QED BY <2>1, <2>2
  <2>. QED BY <2>3 DEF Points
<1>2. ASSUME NEW n \in Points, n # 24, n \in Good PROVE n + 1 \in Good
  <2>1. PICK f \in [1..n -> Seq(V)] : Joins(f, n, x)
    BY <1>2
  <2>. DEFINE g == [k \in 1..(n + 1) |-> IF k = n + 1 THEN f[n] \o x[n + 1] ELSE f[k]]
  <2>2. /\ n \in 1..n /\ n + 1 \in Points /\ n + 1 # 1 /\ (n + 1) - 1 = n
        /\ \A k \in 1..(n + 1) : k # n + 1 => k \in 1..n
    BY <1>2, NextPoint
  <2>3. ASSUME NEW k \in 1..n
        PROVE  k # n + 1 /\ k \in 1..(n + 1) /\ (k # 1 => k - 1 \in 1..n /\ k - 1 # n + 1 /\ k - 1 \in 1..(n + 1))
    <3>1. n \in Int
      BY <1>2, NextPoint
    <3>. QED BY <3>1
  <2>4. n + 1 \in 1..(n + 1) /\ n \in 1..(n + 1) /\ n # n + 1
    <3>1. n \in Int /\ n >= 1
      BY DEF Points
    <3>. QED BY <3>1
  <2>5. f[n] \o x[n + 1] \in Seq(V)
    BY <2>2, ConcatProperties
  <2>6. g \in [1..(n + 1) -> Seq(V)]
    BY <2>2, <2>5
  <2>7. ASSUME NEW k \in 1..(n + 1) PROVE g[k] = IF k = 1 THEN x[k] ELSE g[k - 1] \o x[k]
    <3>1. CASE k = n + 1
      <4>1. g[k] = f[n] \o x[k] /\ g[k - 1] = f[n] /\ k # 1
        BY <2>2, <2>4, <3>1
      <4>. HIDE DEF g
      <4>. QED BY <4>1
    <3>2. CASE k # n + 1
      <4>1. k \in 1..n /\ g[k] = f[k] /\ (k # 1 => g[k - 1] = f[k - 1])
        BY <2>2, <2>3, <3>2
      <4>. HIDE DEF g
      <4>. QED BY <2>1, <4>1 DEF Joins
    <3>. QED BY <3>1, <3>2
  <2>8. Has(n + 1)
    <3>. HIDE DEF g
    <3>. QED BY <2>6, <2>7 DEF Joins
  <2>. HIDE DEF Has
  <2>. QED BY <2>2, <2>8
<1>3. Good = Points
  <2>1. Good \in SUBSET Points
    OBVIOUS
  <2>. HIDE DEF Good
  <2>. QED BY <1>1, <1>2, <2>1, PointByPoint
<1>4. Has(24)
  <2>1. 24 \in Points
    BY DEF Points
  <2>. HIDE DEF Has
  <2>. QED BY <1>3, <2>1
<1>. QED BY <1>4 DEF Points

(* FlattenSeq joins them all. *)
LEMMA FlattenIs ==
  ASSUME NEW V, NEW x \in [Points -> Seq(V)]
  PROVE  \E f \in [Points -> Seq(V)] : Joins(f, 24, x) /\ FlattenSeq(x) = f[24]
<1>. DEFINE P(f) == f = [i \in 1..24 |-> IF i = 1 THEN x[i] ELSE f[i - 1] \o x[i]]
            flatten == CHOOSE f : P(f)
<1>1. Len(x) = 24
  BY DEF Points
<1>2. FlattenSeq(x) = flatten[24]
  BY <1>1 DEF FlattenSeq
<1>3. PICK f \in [Points -> Seq(V)] : Joins(f, 24, x)
  BY JoinExists
<1>4. P(f)
  BY <1>3 DEF Joins, Points
<1>5. P(flatten)
  <2>. HIDE DEF P
  <2>. QED BY <1>4
<1>. HIDE DEF flatten
<1>6. flatten = f
  <2>. DEFINE Good == {k \in Points : flatten[k] = f[k]}
  <2>1. 1 \in Good
    BY <1>4, <1>5 DEF Points
  <2>2. ASSUME NEW k \in Points, k # 24, k \in Good PROVE k + 1 \in Good
    <3>1. k + 1 \in 1..24 /\ k + 1 # 1 /\ (k + 1) - 1 = k
      BY <2>2, NextPoint DEF Points
    <3>2. flatten[k + 1] = flatten[k] \o x[k + 1] /\ f[k + 1] = f[k] \o x[k + 1]
      BY <1>4, <1>5, <3>1
    <3>. QED BY <2>2, <3>1, <3>2 DEF Points
  <2>3. Good = Points
    <3>1. Good \in SUBSET Points
      OBVIOUS
    <3>. HIDE DEF Good
    <3>. QED BY <2>1, <2>2, <3>1, PointByPoint
  <2>4. \A k \in 1..24 : flatten[k] = f[k]
    BY <2>3 DEF Points
  <2>5. flatten = [k \in 1..24 |-> flatten[k]] /\ f = [k \in 1..24 |-> f[k]]
    <3>1. f = [k \in 1..24 |-> f[k]]
      BY <1>3 DEF Points
    <3>2. flatten = [k \in 1..24 |-> flatten[k]]
      BY <1>5
    <3>. QED BY <3>1, <3>2
  <2>. HIDE DEF P
  <2>. QED BY <2>4, <2>5
<1>. QED BY <1>2, <1>3, <1>6

(* The numbers of checkers g, laid out in the order of the points. *)
Row(g) == FlattenSeq([n \in Points |-> Times(g[n], n)])

(* Row is the last of a series of joinings, one for each point. *)
LEMMA RowJoins ==
  ASSUME NEW g \in [Points -> Int]
  PROVE  \E f \in [Points -> Seq(Points)] :
           /\ Row(g) = f[24]
           /\ f[1] = Times(g[1], 1)
           /\ \A k \in Points : k # 24 => f[k + 1] = f[k] \o Times(g[k + 1], k + 1)
<1>. DEFINE x == [n \in Points |-> Times(g[n], n)]
<1>1. x \in [Points -> Seq(Points)]
  BY TimesIs
<1>2. PICK f \in [Points -> Seq(Points)] : Joins(f, 24, x) /\ FlattenSeq(x) = f[24]
  <2>. HIDE DEF x
  <2>. QED BY <1>1, FlattenIs
<1>3. f[1] = Times(g[1], 1)
  <2>1. 1 \in 1..24 /\ 1 \in Points
    BY DEF Points
  <2>2. f[1] = x[1]
    <3>. HIDE DEF x
    <3>. QED BY <1>2, <2>1 DEF Joins
  <2>. QED BY <2>1, <2>2
<1>4. ASSUME NEW k \in Points, k # 24 PROVE f[k + 1] = f[k] \o Times(g[k + 1], k + 1)
  <2>1. k + 1 \in 1..24 /\ k + 1 \in Points /\ k + 1 # 1 /\ (k + 1) - 1 = k
    BY <1>4 DEF Points
  <2>2. f[k + 1] = f[k] \o x[k + 1]
    <3>. HIDE DEF x
    <3>. QED BY <1>2, <2>1 DEF Joins
  <2>. QED BY <2>1, <2>2
<1>. QED BY <1>2, <1>3, <1>4 DEF Row

(* Each point is in it as often as it has checkers. *)
LEMMA RowCounts ==
  ASSUME NEW g \in [Points -> Int]
  PROVE  /\ Row(g) \in Seq(Points)
         /\ \A u : HowMany(Row(g), u) = IF u \in Points THEN Positive(g[u]) ELSE 0
<1>1. PICK f \in [Points -> Seq(Points)] :
           /\ Row(g) = f[24]
           /\ f[1] = Times(g[1], 1)
           /\ \A k \in Points : k # 24 => f[k + 1] = f[k] \o Times(g[k + 1], k + 1)
  BY RowJoins
<1>2. 1 \in Points /\ 24 \in Points
  BY DEF Points
<1>3. ASSUME NEW u PROVE HowMany(Row(g), u) = IF u \in Points THEN Positive(g[u]) ELSE 0
  <2>. DEFINE Good == {k \in Points : HowMany(f[k], u) = IF u \in 1..k THEN Positive(g[u]) ELSE 0}
  <2>1. 1 \in Good
    <3>1. g[1] \in Int
      BY <1>2
    <3>2. HowMany(Times(g[1], 1), u) = IF u = 1 THEN Positive(g[1]) ELSE 0
      BY <1>2, <3>1, TimesOnPoint
    <3>3. HowMany(f[1], u) = IF u = 1 THEN Positive(g[1]) ELSE 0
      BY <1>1, <3>2
    <3>4. u \in 1..1 <=> u = 1
      OBVIOUS
    <3>. QED BY <1>2, <3>3, <3>4
  <2>2. ASSUME NEW k \in Points, k # 24, k \in Good PROVE k + 1 \in Good
    <3>1. /\ k + 1 \in Points /\ g[k + 1] \in Int /\ k + 1 \notin 1..k /\ 1..k \subseteq Points
          /\ u \in 1..(k + 1) <=> u \in 1..k \/ u = k + 1
      BY <2>2, NextPoint
    <3>2. f[k + 1] = f[k] \o Times(g[k + 1], k + 1)
      BY <1>1, <2>2
    <3>3. f[k] \in Seq(Points) /\ Times(g[k + 1], k + 1) \in Seq(Points)
      <4>1. k + 1 \in Points /\ g[k + 1] \in Int
        BY <3>1
      <4>2. f[k] \in Seq(Points)
        OBVIOUS
      <4>. QED BY <4>1, <4>2, TimesOnPoint
    <3>4. HowMany(f[k + 1], u) = HowMany(f[k], u) + HowMany(Times(g[k + 1], k + 1), u)
      BY <3>2, <3>3, HowManyOfBoth
    <3>5. HowMany(Times(g[k + 1], k + 1), u) = IF u = k + 1 THEN Positive(g[k + 1]) ELSE 0
      <4>1. k + 1 \in Points /\ g[k + 1] \in Int
        BY <3>1
      <4>. QED BY <4>1, TimesOnPoint
    <3>6. HowMany(f[k], u) = IF u \in 1..k THEN Positive(g[u]) ELSE 0
      BY <2>2
    <3>7. ASSUME u \in 1..k PROVE Positive(g[u]) \in Int
      <4>1. u \in Points
        BY <3>1, <3>7
      <4>2. g[u] \in Int
        BY <4>1
      <4>. QED BY <4>2 DEF Positive
    <3>8. Positive(g[k + 1]) \in Int
      BY <3>1 DEF Positive
    <3>9. HowMany(f[k + 1], u) = IF u \in 1..(k + 1) THEN Positive(g[u]) ELSE 0
      <4>1. CASE u = k + 1
        BY <3>1, <3>4, <3>5, <3>6, <3>8, <4>1
      <4>2. CASE u # k + 1 /\ u \in 1..k
        BY <3>1, <3>4, <3>5, <3>6, <3>7, <4>2
      <4>3. CASE u # k + 1 /\ u \notin 1..k
        BY <3>1, <3>4, <3>5, <3>6, <4>3
      <4>. QED BY <4>1, <4>2, <4>3
    <3>. QED BY <3>1, <3>9
  <2>3. Good = Points
    <3>1. Good \in SUBSET Points
      OBVIOUS
    <3>. HIDE DEF Good
    <3>. QED BY <2>1, <2>2, <3>1, PointByPoint
  <2>4. HowMany(f[24], u) = IF u \in 1..24 THEN Positive(g[u]) ELSE 0
    BY <1>2, <2>3
  <2>. QED BY <1>1, <2>4 DEF Points
<1>. QED BY <1>1, <1>2, <1>3

(* The numbers of a are as far from those of b as those of c from d's. *)
AsFar(a, b, c, d) == \A n \in Points : Positive(a[n]) - Positive(b[n]) = Positive(c[n]) - Positive(d[n])
AsLong(a, b, c, d) == Len(Row(a)) - Len(Row(b)) = Len(Row(c)) - Len(Row(d))

(* What two rows differ in length is what their numbers differ by. *)
LEMMA RowsDiffer ==
  ASSUME NEW a \in [Points -> Int], NEW b \in [Points -> Int], NEW c \in [Points -> Int], NEW d \in [Points -> Int],
         AsFar(a, b, c, d)
  PROVE  AsLong(a, b, c, d)
<1>. DEFINE Joined(g, f) ==
              /\ Row(g) = f[24]
              /\ f[1] = Times(g[1], 1)
              /\ \A k \in Points : k # 24 => f[k + 1] = f[k] \o Times(g[k + 1], k + 1)
<1>1. ASSUME NEW g \in [Points -> Int], NEW f \in [Points -> Seq(Points)], Joined(g, f)
      PROVE  /\ Len(Row(g)) = Len(f[24]) /\ Len(f[1]) = Positive(g[1])
             /\ \A k \in Points : Len(f[k]) \in Nat
             /\ \A k \in Points : k # 24 => Len(f[k + 1]) = Len(f[k]) + Positive(g[k + 1])
  <2>1. Len(f[1]) = Positive(g[1])
    <3>1. 1 \in Points
      BY DEF Points
    <3>2. g[1] \in Int
      BY <3>1
    <3>. QED BY <1>1, <3>1, <3>2, TimesIs
  <2>2. ASSUME NEW k \in Points, k # 24 PROVE Len(f[k + 1]) = Len(f[k]) + Positive(g[k + 1])
    <3>1. k + 1 \in Points
      BY <2>2, NextPoint
    <3>2. f[k + 1] = f[k] \o Times(g[k + 1], k + 1)
      BY <1>1, <2>2
    <3>3. g[k + 1] \in Int
      BY <3>1
    <3>4. Times(g[k + 1], k + 1) \in Seq(Points) /\ Len(Times(g[k + 1], k + 1)) = Positive(g[k + 1])
      BY <3>1, <3>3, TimesOnPoint
    <3>5. f[k] \in Seq(Points)
      OBVIOUS
    <3>6. Len(f[k] \o Times(g[k + 1], k + 1)) = Len(f[k]) + Len(Times(g[k + 1], k + 1))
      BY <3>4, <3>5, ConcatProperties
    <3>. QED BY <3>2, <3>4, <3>6
  <2>3. \A k \in Points : Len(f[k]) \in Nat
    BY LenProperties
  <2>. QED BY <1>1, <2>1, <2>2, <2>3
<1>2. PICK fa \in [Points -> Seq(Points)] : Joined(a, fa)
  BY RowJoins
<1>3. PICK fb \in [Points -> Seq(Points)] : Joined(b, fb)
  BY RowJoins
<1>4. PICK fc \in [Points -> Seq(Points)] : Joined(c, fc)
  BY RowJoins
<1>5. PICK fd \in [Points -> Seq(Points)] : Joined(d, fd)
  BY RowJoins
<1>. HIDE DEF Joined
<1>. DEFINE Good == {k \in Points : Len(fa[k]) - Len(fb[k]) = Len(fc[k]) - Len(fd[k])}
<1>6. 1 \in Points /\ 24 \in Points
  BY DEF Points
<1>7. 1 \in Good
  <2>1. /\ Len(fa[1]) = Positive(a[1]) /\ Len(fb[1]) = Positive(b[1])
        /\ Len(fc[1]) = Positive(c[1]) /\ Len(fd[1]) = Positive(d[1])
    BY <1>1, <1>2, <1>3, <1>4, <1>5
  <2>2. Positive(a[1]) - Positive(b[1]) = Positive(c[1]) - Positive(d[1])
    BY <1>6 DEF AsFar
  <2>. QED BY <1>6, <2>1, <2>2
<1>8. ASSUME NEW k \in Points, k # 24, k \in Good PROVE k + 1 \in Good
  <2>1. k + 1 \in Points
    BY <1>8, NextPoint
  <2>2. k + 1 \in Points /\ a[k + 1] \in Int /\ b[k + 1] \in Int /\ c[k + 1] \in Int /\ d[k + 1] \in Int
    BY <2>1
  <2>3. /\ Positive(a[k + 1]) \in Int /\ Positive(b[k + 1]) \in Int
        /\ Positive(c[k + 1]) \in Int /\ Positive(d[k + 1]) \in Int
        /\ Positive(a[k + 1]) - Positive(b[k + 1]) = Positive(c[k + 1]) - Positive(d[k + 1])
    BY <2>2 DEF AsFar, Positive
  <2>4. /\ Len(fa[k + 1]) = Len(fa[k]) + Positive(a[k + 1]) /\ Len(fa[k]) \in Nat
        /\ Len(fb[k + 1]) = Len(fb[k]) + Positive(b[k + 1]) /\ Len(fb[k]) \in Nat
        /\ Len(fc[k + 1]) = Len(fc[k]) + Positive(c[k + 1]) /\ Len(fc[k]) \in Nat
        /\ Len(fd[k + 1]) = Len(fd[k]) + Positive(d[k + 1]) /\ Len(fd[k]) \in Nat
    BY <1>1, <1>2, <1>3, <1>4, <1>5, <1>8
  <2>5. Len(fa[k]) - Len(fb[k]) = Len(fc[k]) - Len(fd[k])
    BY <1>8
  <2>6. Len(fa[k + 1]) - Len(fb[k + 1]) = Len(fc[k + 1]) - Len(fd[k + 1])
    <3>1. /\ Len(fa[k]) \in Int /\ Len(fb[k]) \in Int /\ Len(fc[k]) \in Int /\ Len(fd[k]) \in Int
      BY <2>4
    <3>2. (Len(fa[k]) + Positive(a[k + 1])) - (Len(fb[k]) + Positive(b[k + 1]))
            = (Len(fc[k]) + Positive(c[k + 1])) - (Len(fd[k]) + Positive(d[k + 1]))
      <4>. DEFINE p == Len(fa[k])
                  q == Len(fb[k])
                  r == Len(fc[k])
                  t == Len(fd[k])
                  w == Positive(a[k + 1])
                  x == Positive(b[k + 1])
                  y == Positive(c[k + 1])
                  z == Positive(d[k + 1])
      <4>1. /\ p \in Int /\ q \in Int /\ r \in Int /\ t \in Int /\ p - q = r - t
            /\ w \in Int /\ x \in Int /\ y \in Int /\ z \in Int /\ w - x = y - z
        BY <2>3, <2>5, <3>1
      <4>. HIDE DEF p, q, r, t, w, x, y, z
      <4>2. (p + w) - (q + x) = (r + y) - (t + z)
        BY <4>1
      <4>. QED BY <4>2 DEF p, q, r, t, w, x, y, z
    <3>. QED BY <2>4, <3>2
  <2>. QED BY <2>2, <2>6
<1>9. Good = Points
  <2>1. Good \in SUBSET Points
    OBVIOUS
  <2>. HIDE DEF Good
  <2>. QED BY <1>7, <1>8, <2>1, PointByPoint
<1>10. Len(fa[24]) - Len(fb[24]) = Len(fc[24]) - Len(fd[24])
  BY <1>6, <1>9
<1>11. Len(Row(a)) = Len(fa[24]) /\ Len(Row(b)) = Len(fb[24]) /\ Len(Row(c)) = Len(fc[24]) /\ Len(Row(d)) = Len(fd[24])
  BY <1>1, <1>2, <1>3, <1>4, <1>5
<1>. QED BY <1>10, <1>11 DEF AsLong

(*****************************************************************************)
(* The glides themselves                                                   *)
(*****************************************************************************)

(* sideAt: the checkers of a side on a point, never fewer than none. *)
LEMMA SideAtIs ==
  ASSUME NEW b \in Positions, NEW side \in Sides, NEW n \in Points
  PROVE  /\ sideAt(b, side, n) = Positive(IF side = "White" THEN b.points[n] ELSE -b.points[n])
         /\ sideAt(b, side, n) \in Int /\ Positive(sideAt(b, side, n)) = sideAt(b, side, n)
<1>. DEFINE value == IF side = "White" THEN b.points[n] ELSE -b.points[n]
<1>1. b.points[n] \in Int
  BY DEF Positions
<1>2. value \in Int
  BY <1>1
<1>3. sideAt(b, side, n) = Max({0, value})
  BY DEF sideAt
<1>. HIDE DEF value
<1>4. sideAt(b, side, n) = Positive(value)
  BY <1>2, <1>3, MaxWithZero
<1>5. Positive(value) \in Int /\ Positive(Positive(value)) = Positive(value)
  BY <1>2 DEF Positive
<1>. QED BY <1>4, <1>5 DEF value

(* What leaves a point less what comes there is what the point loses. *)
LEMMA GainIs ==
  ASSUME NEW a \in Positions, NEW b \in Positions, NEW side \in Sides, NEW n \in Points
  PROVE  /\ Gain(a, b, side, n) \in Int /\ -Gain(a, b, side, n) \in Int
         /\ Positive(-Gain(a, b, side, n)) - Positive(Gain(a, b, side, n))
              = sideAt(a, side, n) - sideAt(b, side, n)
<1>1. sideAt(a, side, n) \in Int /\ sideAt(b, side, n) \in Int
  BY SideAtIs
<1>. QED BY <1>1 DEF Gain, Positive

(* The checkers of a side by point: how many leave, and how many come. *)
Away(a, b, side) == [n \in Points |-> -Gain(a, b, side, n)]
Back(a, b, side) == [n \in Points |-> Gain(a, b, side, n)]
Standing(b, side) == [n \in Points |-> sideAt(b, side, n)]

(* leaving and dests, by rows. *)
LEMMA RowsAre ==
  ASSUME NEW a \in Positions, NEW b \in Positions, NEW side \in Sides
  PROVE  /\ Away(a, b, side) \in [Points -> Int] /\ Back(a, b, side) \in [Points -> Int]
         /\ leaving(a, b, side) = Row(Away(a, b, side)) \o Times(a.bar[side] - b.bar[side], Bar)
         /\ dests(a, b, side) = Row(Back(a, b, side)) \o Times(b.bar[side] - a.bar[side], Bar)
                                  \o Times(b.off[side] - a.off[side], Off)
<1>1. Away(a, b, side) \in [Points -> Int] /\ Back(a, b, side) \in [Points -> Int]
  BY GainIs DEF Away, Back
<1>2. [n \in Points |-> Times(Away(a, b, side)[n], n)] = [n \in 1..24 |-> Times(-Gain(a, b, side, n), n)]
  BY DEF Away, Points
<1>3. [n \in Points |-> Times(Back(a, b, side)[n], n)] = [n \in 1..24 |-> Times(Gain(a, b, side, n), n)]
  BY DEF Back, Points
<1>4. leaving(a, b, side) = Row(Away(a, b, side)) \o Times(a.bar[side] - b.bar[side], Bar)
  BY <1>2 DEF Row, leaving
<1>5. dests(a, b, side) = Row(Back(a, b, side)) \o Times(b.bar[side] - a.bar[side], Bar)
                            \o Times(b.off[side] - a.off[side], Off)
  BY <1>3 DEF Row, dests
<1>. QED BY <1>1, <1>4, <1>5

(* Where checkers leave from. *)
LEMMA LeavingCounts ==
  ASSUME NEW a \in Positions, NEW b \in Positions, NEW side \in Sides
  PROVE  /\ leaving(a, b, side) \in Seq(Targets)
         /\ Len(leaving(a, b, side)) = Len(Row(Away(a, b, side))) + Positive(a.bar[side] - b.bar[side])
         /\ \A n \in Points : HowMany(leaving(a, b, side), n) = Positive(-Gain(a, b, side, n))
         /\ HowMany(leaving(a, b, side), Bar) = Positive(a.bar[side] - b.bar[side])
<1>. DEFINE r == Row(Away(a, b, side))
            d == a.bar[side] - b.bar[side]
            t == Times(d, Bar)
<1>1. d \in Int
  BY DEF Positions
<1>2. Bar \in Targets /\ Points \subseteq Targets /\ Bar \notin Points
  BY DEF Targets, Bar, Points
<1>3. leaving(a, b, side) = r \o t /\ Away(a, b, side) \in [Points -> Int]
  BY RowsAre
<1>4. r \in Seq(Points) /\ \A u : HowMany(r, u) = IF u \in Points THEN Positive(Away(a, b, side)[u]) ELSE 0
  BY <1>3, RowCounts
<1>. HIDE DEF d, r
<1>5. t \in Seq(Targets) /\ Len(t) = Positive(d) /\ \A u : HowMany(t, u) = IF u = Bar THEN Positive(d) ELSE 0
  BY <1>1, <1>2, TimesIs
<1>. HIDE DEF t
<1>6. r \in Seq(Targets)
  BY <1>2, <1>4
<1>7. r \o t \in Seq(Targets) /\ Len(r \o t) = Len(r) + Len(t)
  BY <1>5, <1>6, ConcatProperties
<1>8. \A u : HowMany(r \o t, u) = HowMany(r, u) + HowMany(t, u)
  BY <1>5, <1>6, HowManyOfBoth
<1>9. ASSUME NEW n \in Points PROVE HowMany(r \o t, n) = Positive(-Gain(a, b, side, n))
  <2>1. HowMany(t, n) = 0
    BY <1>2, <1>5
  <2>2. HowMany(r, n) = Positive(-Gain(a, b, side, n))
    BY <1>4 DEF Away
  <2>3. Positive(-Gain(a, b, side, n)) \in Int
    BY GainIs DEF Positive
  <2>. QED BY <1>8, <2>1, <2>2, <2>3
<1>10. HowMany(r \o t, Bar) = Positive(d)
  <2>1. HowMany(r, Bar) = 0 /\ HowMany(t, Bar) = Positive(d)
    BY <1>2, <1>4, <1>5
  <2>2. Positive(d) \in Int
    BY <1>1 DEF Positive
  <2>. QED BY <1>8, <2>1, <2>2
<1>. QED BY <1>3, <1>5, <1>7, <1>9, <1>10 DEF d, r

(* Where they go. *)
LEMMA DestsCounts ==
  ASSUME NEW a \in Positions, NEW b \in Positions, NEW side \in Sides
  PROVE  /\ dests(a, b, side) \in Seq(Targets)
         /\ Len(dests(a, b, side)) = Len(Row(Back(a, b, side))) + Positive(b.bar[side] - a.bar[side])
                                       + Positive(b.off[side] - a.off[side])
         /\ \A n \in Points : HowMany(dests(a, b, side), n) = Positive(Gain(a, b, side, n))
         /\ HowMany(dests(a, b, side), Bar) = Positive(b.bar[side] - a.bar[side])
         /\ HowMany(dests(a, b, side), Off) = Positive(b.off[side] - a.off[side])
<1>. DEFINE r == Row(Back(a, b, side))
            d == b.bar[side] - a.bar[side]
            e == b.off[side] - a.off[side]
            t == Times(d, Bar)
            o == Times(e, Off)
<1>1. d \in Int /\ e \in Int
  BY DEF Positions
<1>2. /\ Bar \in Targets /\ Off \in Targets /\ Points \subseteq Targets
      /\ Bar \notin Points /\ Off \notin Points /\ Bar # Off
  BY DEF Targets, Bar, Off, Points
<1>3. dests(a, b, side) = r \o t \o o /\ Back(a, b, side) \in [Points -> Int]
  BY RowsAre
<1>4. r \in Seq(Points) /\ \A u : HowMany(r, u) = IF u \in Points THEN Positive(Back(a, b, side)[u]) ELSE 0
  BY <1>3, RowCounts
<1>. HIDE DEF d, e, r
<1>5. t \in Seq(Targets) /\ Len(t) = Positive(d) /\ \A u : HowMany(t, u) = IF u = Bar THEN Positive(d) ELSE 0
  BY <1>1, <1>2, TimesIs
<1>6. o \in Seq(Targets) /\ Len(o) = Positive(e) /\ \A u : HowMany(o, u) = IF u = Off THEN Positive(e) ELSE 0
  BY <1>1, <1>2, TimesIs
<1>. HIDE DEF t, o
<1>7. r \in Seq(Targets)
  BY <1>2, <1>4
<1>8. /\ r \o t \in Seq(Targets) /\ Len(r \o t) = Len(r) + Len(t)
  BY <1>5, <1>7, ConcatProperties
<1>9. r \o t \o o \in Seq(Targets) /\ Len(r \o t \o o) = Len(r \o t) + Len(o)
  BY <1>8, <1>6, ConcatProperties
<1>10. \A u : HowMany(r \o t \o o, u) = HowMany(r, u) + HowMany(t, u) + HowMany(o, u)
  <2>. SUFFICES ASSUME NEW u PROVE HowMany(r \o t \o o, u) = HowMany(r, u) + HowMany(t, u) + HowMany(o, u)
    OBVIOUS
  <2>1. HowMany(r \o t, u) = HowMany(r, u) + HowMany(t, u)
    BY <1>5, <1>7, HowManyOfBoth
  <2>2. HowMany(r \o t \o o, u) = HowMany(r \o t, u) + HowMany(o, u)
    BY <1>8, <1>6, HowManyOfBoth
  <2>. QED BY <2>1, <2>2
<1>11. Positive(d) \in Int /\ Positive(e) \in Int
  BY <1>1 DEF Positive
<1>12. ASSUME NEW n \in Points PROVE HowMany(r \o t \o o, n) = Positive(Gain(a, b, side, n))
  <2>1. HowMany(t, n) = 0 /\ HowMany(o, n) = 0
    BY <1>2, <1>5, <1>6
  <2>2. HowMany(r, n) = Positive(Gain(a, b, side, n))
    BY <1>4 DEF Back
  <2>3. Positive(Gain(a, b, side, n)) \in Int
    BY GainIs DEF Positive
  <2>. QED BY <1>10, <2>1, <2>2, <2>3
<1>13. HowMany(r \o t \o o, Bar) = Positive(d)
  <2>1. HowMany(r, Bar) = 0 /\ HowMany(t, Bar) = Positive(d) /\ HowMany(o, Bar) = 0
    BY <1>2, <1>4, <1>5, <1>6
  <2>. QED BY <1>10, <1>11, <2>1
<1>14. HowMany(r \o t \o o, Off) = Positive(e)
  <2>1. HowMany(r, Off) = 0 /\ HowMany(t, Off) = 0 /\ HowMany(o, Off) = Positive(e)
    BY <1>2, <1>4, <1>5, <1>6
  <2>. QED BY <1>10, <1>11, <2>1
<1>15. Len(r \o t \o o) = Len(r) + Positive(d) + Positive(e)
  BY <1>5, <1>8, <1>6, <1>9
<1>. QED BY <1>3, <1>9, <1>12, <1>13, <1>14, <1>15 DEF d, e, r

(* As many come as leave, when none is made and none is lost. *)
LEMMA AsManyComeAsLeave ==
  ASSUME NEW a \in Positions, NEW b \in Positions, NEW side \in Sides,
         Checkers(a, side) = Checkers(b, side), b.off[side] >= a.off[side]
  PROVE  Len(leaving(a, b, side)) = Len(dests(a, b, side))
<1>1. /\ Away(a, b, side) \in [Points -> Int] /\ Back(a, b, side) \in [Points -> Int]
      /\ Standing(a, side) \in [Points -> Int] /\ Standing(b, side) \in [Points -> Int]
  BY RowsAre, SideAtIs DEF Standing
<1>2. ASSUME NEW n \in Points
      PROVE  Positive(Away(a, b, side)[n]) - Positive(Back(a, b, side)[n])
               = Positive(Standing(a, side)[n]) - Positive(Standing(b, side)[n])
  BY GainIs, SideAtIs DEF Away, Back, Standing
<1>3. Len(Row(Away(a, b, side))) - Len(Row(Back(a, b, side)))
        = Len(Row(Standing(a, side))) - Len(Row(Standing(b, side)))
  <2>. DEFINE p == Away(a, b, side)
              q == Back(a, b, side)
              x == Standing(a, side)
              y == Standing(b, side)
  <2>1. /\ p \in [Points -> Int] /\ q \in [Points -> Int] /\ x \in [Points -> Int] /\ y \in [Points -> Int]
    BY <1>1
  <2>2. AsFar(p, q, x, y)
    BY <1>2 DEF AsFar
  <2>. HIDE DEF p, q, x, y
  <2>3. AsLong(p, q, x, y)
    BY <2>1, <2>2, RowsDiffer
  <2>. QED BY <2>3 DEF AsLong, p, q, x, y
<1>4. /\ [n \in Points |-> Times(Standing(a, side)[n], n)] = [n \in Points |-> Times(sideAt(a, side, n), n)]
      /\ [n \in Points |-> Times(Standing(b, side)[n], n)] = [n \in Points |-> Times(sideAt(b, side, n), n)]
  BY DEF Standing
<1>5. /\ Checkers(a, side) = Len(Row(Standing(a, side))) + a.bar[side] + a.off[side]
      /\ Checkers(b, side) = Len(Row(Standing(b, side))) + b.bar[side] + b.off[side]
  BY <1>4 DEF Row, Checkers
<1>6. /\ Row(Away(a, b, side)) \in Seq(Points) /\ Row(Back(a, b, side)) \in Seq(Points)
      /\ Row(Standing(a, side)) \in Seq(Points) /\ Row(Standing(b, side)) \in Seq(Points)
  BY <1>1, RowCounts
<1>7. /\ Len(leaving(a, b, side)) = Len(Row(Away(a, b, side))) + Positive(a.bar[side] - b.bar[side])
      /\ Len(dests(a, b, side)) = Len(Row(Back(a, b, side))) + Positive(b.bar[side] - a.bar[side])
                                    + Positive(b.off[side] - a.off[side])
  BY LeavingCounts, DestsCounts
<1>. DEFINE lw == Len(Row(Away(a, b, side)))
            lb == Len(Row(Back(a, b, side)))
            la == Len(Row(Standing(a, side)))
            lz == Len(Row(Standing(b, side)))
            ba == a.bar[side]
            bb == b.bar[side]
            oa == a.off[side]
            ob == b.off[side]
<1>8. lw \in Nat /\ lb \in Nat /\ la \in Nat /\ lz \in Nat
  BY <1>6, LenProperties
<1>9. ba \in Nat /\ bb \in Nat /\ oa \in Nat /\ ob \in Nat
  BY DEF Positions
<1>10. lw - lb = la - lz /\ la + ba + oa = lz + bb + ob /\ ob >= oa
  BY <1>3, <1>5
<1>11. Len(leaving(a, b, side)) = lw + Positive(ba - bb)
       /\ Len(dests(a, b, side)) = lb + Positive(bb - ba) + Positive(ob - oa)
  BY <1>7
<1>. HIDE DEF lw, lb, la, lz, ba, bb, oa, ob
<1>12. lw + Positive(ba - bb) = lb + Positive(bb - ba) + Positive(ob - oa)
  BY <1>8, <1>9, <1>10 DEF Positive
<1>. QED BY <1>11, <1>12

(* A sequence whose elements carry a tag. *)
Tagged(s, tag) == [i \in 1..Len(s) |-> <<s[i], tag>>]

(* A value carries its tag as often as it is there, and no other. *)
LEMMA TaggedCounts ==
  ASSUME NEW s \in Seq(Targets), NEW tag \in Sides
  PROVE  /\ Tagged(s, tag) \in Seq(Targets \X Sides) /\ Len(Tagged(s, tag)) = Len(s)
         /\ \A v : HowMany(Tagged(s, tag), <<v, tag>>) = HowMany(s, v)
         /\ \A v, u : u # tag => HowMany(Tagged(s, tag), <<v, u>>) = 0
<1>1. Len(s) \in Nat /\ DOMAIN s = 1..Len(s) /\ \A i \in 1..Len(s) : s[i] \in Targets
  BY LenProperties, ElementOfSeq
<1>2. /\ Tagged(s, tag) \in Seq(Targets \X Sides) /\ Len(Tagged(s, tag)) = Len(s)
      /\ DOMAIN Tagged(s, tag) = 1..Len(s)
      /\ \A i \in 1..Len(s) : Tagged(s, tag)[i] = <<s[i], tag>>
  BY <1>1 DEF Tagged
<1>3. ASSUME NEW v PROVE HowMany(Tagged(s, tag), <<v, tag>>) = HowMany(s, v)
  <2>1. {i \in DOMAIN Tagged(s, tag) : Tagged(s, tag)[i] = <<v, tag>>} = {i \in DOMAIN s : s[i] = v}
    BY <1>1, <1>2
  <2>. QED BY <2>1 DEF HowMany
<1>4. ASSUME NEW v, NEW u, u # tag PROVE HowMany(Tagged(s, tag), <<v, u>>) = 0
  <2>1. {i \in DOMAIN Tagged(s, tag) : Tagged(s, tag)[i] = <<v, u>>} = {}
    BY <1>2, <1>4
  <2>. QED BY <2>1, FS_EmptySet DEF HowMany
<1>. QED BY <1>2, <1>3, <1>4

(* The glides from w to x, of a side. *)
Glides(w, x, side) == [i \in 1..Len(w) |-> [from |-> w[i], to |-> x[i], side |-> side]]

(* How many of them leave t, and how many go there. *)
Gone(m, side, t) == Cardinality({i \in DOMAIN m : m[i].from = t /\ m[i].side = side})
Come(m, side, t) == Cardinality({i \in DOMAIN m : m[i].to = t /\ m[i].side = side})

(* White's glides and then Black's, counted by where they begin and end. *)
LEMMA GlidesCounted ==
  ASSUME NEW w \in Seq(Targets), NEW x \in Seq(Targets), Len(w) = Len(x),
         NEW b \in Seq(Targets), NEW y \in Seq(Targets), Len(b) = Len(y),
         NEW t, NEW side \in Sides
  PROVE  /\ Gone(Glides(w, x, "White") \o Glides(b, y, "Black"), side, t)
              = IF side = "White" THEN HowMany(w, t) ELSE HowMany(b, t)
         /\ Come(Glides(w, x, "White") \o Glides(b, y, "Black"), side, t)
              = IF side = "White" THEN HowMany(x, t) ELSE HowMany(y, t)
<1>. DEFINE mw == Glides(w, x, "White")
            mb == Glides(b, y, "Black")
            m == mw \o mb
            All == [from : Targets, to : Targets, side : Sides]
            fw == Tagged(w, "White")
            fb == Tagged(b, "Black")
            xw == Tagged(x, "White")
            xb == Tagged(y, "Black")
<1>1. /\ Len(w) \in Nat /\ Len(b) \in Nat
      /\ \A i \in 1..Len(w) : w[i] \in Targets /\ x[i] \in Targets
      /\ \A i \in 1..Len(b) : b[i] \in Targets /\ y[i] \in Targets
  BY LenProperties, ElementOfSeq
<1>2. "White" \in Sides /\ "Black" \in Sides /\ "White" # "Black" /\ (side = "White" \/ side = "Black")
  BY DEF Sides
<1>3. mw \in Seq(All) /\ Len(mw) = Len(w)
  BY <1>1, <1>2 DEF Glides
<1>4. mb \in Seq(All) /\ Len(mb) = Len(b)
  BY <1>1, <1>2 DEF Glides
<1>5. /\ \A i \in 1..Len(w) : mw[i] = [from |-> w[i], to |-> x[i], side |-> "White"]
      /\ \A i \in 1..Len(b) : mb[i] = [from |-> b[i], to |-> y[i], side |-> "Black"]
  BY DEF Glides
<1>6. /\ fw \in Seq(Targets \X Sides) /\ Len(fw) = Len(w) /\ xw \in Seq(Targets \X Sides) /\ Len(xw) = Len(w)
      /\ fb \in Seq(Targets \X Sides) /\ Len(fb) = Len(b) /\ xb \in Seq(Targets \X Sides) /\ Len(xb) = Len(b)
  BY <1>2, TaggedCounts
<1>7. /\ \A i \in 1..Len(w) : fw[i] = <<w[i], "White">> /\ xw[i] = <<x[i], "White">>
      /\ \A i \in 1..Len(b) : fb[i] = <<b[i], "Black">> /\ xb[i] = <<y[i], "Black">>
  BY DEF Tagged
<1>8. /\ HowMany(fw, <<t, side>>) = IF side = "White" THEN HowMany(w, t) ELSE 0
      /\ HowMany(xw, <<t, side>>) = IF side = "White" THEN HowMany(x, t) ELSE 0
      /\ HowMany(fb, <<t, side>>) = IF side = "Black" THEN HowMany(b, t) ELSE 0
      /\ HowMany(xb, <<t, side>>) = IF side = "Black" THEN HowMany(y, t) ELSE 0
  BY <1>2, TaggedCounts
<1>9. HowMany(w, t) \in Nat /\ HowMany(x, t) \in Nat /\ HowMany(b, t) \in Nat /\ HowMany(y, t) \in Nat
  BY PlacesAreFinite
<1>. HIDE DEF mw, mb, fw, fb, xw, xb
<1>10. /\ m \in Seq(All) /\ Len(m) = Len(w) + Len(b)
       /\ \A i \in 1..(Len(w) + Len(b)) : m[i] = IF i <= Len(w) THEN mw[i] ELSE mb[i - Len(w)]
  <2>1. mw \in Seq(All) /\ mb \in Seq(All)
    BY <1>3, <1>4
  <2>2. /\ mw \o mb \in Seq(All) /\ Len(mw \o mb) = Len(mw) + Len(mb)
        /\ \A i \in 1..(Len(mw) + Len(mb)) : (mw \o mb)[i] = IF i <= Len(mw) THEN mw[i] ELSE mb[i - Len(mw)]
    <3>. HIDE DEF All
    <3>. QED BY <2>1, ConcatProperties
  <2>. QED BY <1>3, <1>4, <2>2
<1>11. /\ fw \o fb \in Seq(Targets \X Sides) /\ Len(fw \o fb) = Len(w) + Len(b)
       /\ \A i \in 1..(Len(w) + Len(b)) : (fw \o fb)[i] = IF i <= Len(w) THEN fw[i] ELSE fb[i - Len(w)]
  <2>1. fw \in Seq(Targets \X Sides) /\ fb \in Seq(Targets \X Sides)
    BY <1>6
  <2>2. /\ fw \o fb \in Seq(Targets \X Sides) /\ Len(fw \o fb) = Len(fw) + Len(fb)
        /\ \A i \in 1..(Len(fw) + Len(fb)) : (fw \o fb)[i] = IF i <= Len(fw) THEN fw[i] ELSE fb[i - Len(fw)]
    <3>. HIDE DEF All
    <3>. QED BY <2>1, ConcatProperties
  <2>. QED BY <1>6, <2>2
<1>12. /\ xw \o xb \in Seq(Targets \X Sides) /\ Len(xw \o xb) = Len(w) + Len(b)
       /\ \A i \in 1..(Len(w) + Len(b)) : (xw \o xb)[i] = IF i <= Len(w) THEN xw[i] ELSE xb[i - Len(w)]
  <2>1. xw \in Seq(Targets \X Sides) /\ xb \in Seq(Targets \X Sides)
    BY <1>6
  <2>2. /\ xw \o xb \in Seq(Targets \X Sides) /\ Len(xw \o xb) = Len(xw) + Len(xb)
        /\ \A i \in 1..(Len(xw) + Len(xb)) : (xw \o xb)[i] = IF i <= Len(xw) THEN xw[i] ELSE xb[i - Len(xw)]
    <3>. HIDE DEF All
    <3>. QED BY <2>1, ConcatProperties
  <2>. QED BY <1>6, <2>2
<1>13. DOMAIN m = 1..(Len(w) + Len(b)) /\ DOMAIN (fw \o fb) = 1..(Len(w) + Len(b))
       /\ DOMAIN (xw \o xb) = 1..(Len(w) + Len(b))
  BY <1>10, <1>11, <1>12, LenProperties
<1>14. ASSUME NEW i \in 1..(Len(w) + Len(b))
       PROVE  (fw \o fb)[i] = <<m[i].from, m[i].side>> /\ (xw \o xb)[i] = <<m[i].to, m[i].side>>
  <2>1. CASE i <= Len(w)
    <3>1. i \in 1..Len(w)
      BY <1>1, <2>1
    <3>2. m[i] = mw[i] /\ (fw \o fb)[i] = fw[i] /\ (xw \o xb)[i] = xw[i]
      BY <1>10, <1>11, <1>12, <2>1
    <3>3. mw[i].from = w[i] /\ mw[i].to = x[i] /\ mw[i].side = "White"
      <4>1. mw[i] = [from |-> w[i], to |-> x[i], side |-> "White"]
        BY <1>5, <3>1
      <4>. QED BY <4>1
    <3>4. fw[i] = <<w[i], "White">> /\ xw[i] = <<x[i], "White">>
      BY <1>7, <3>1
    <3>. HIDE DEF m
    <3>. QED BY <3>2, <3>3, <3>4
  <2>2. CASE ~(i <= Len(w))
    <3>1. i - Len(w) \in 1..Len(b)
      BY <1>1, <2>2
    <3>2. m[i] = mb[i - Len(w)] /\ (fw \o fb)[i] = fb[i - Len(w)] /\ (xw \o xb)[i] = xb[i - Len(w)]
      BY <1>10, <1>11, <1>12, <2>2
    <3>. DEFINE j == i - Len(w)
    <3>3. mb[j].from = b[j] /\ mb[j].to = y[j] /\ mb[j].side = "Black"
      <4>1. mb[j] = [from |-> b[j], to |-> y[j], side |-> "Black"]
        BY <1>5, <3>1
      <4>. HIDE DEF j
      <4>. QED BY <4>1
    <3>4. fb[j] = <<b[j], "Black">> /\ xb[j] = <<y[j], "Black">>
      BY <1>7, <3>1
    <3>. HIDE DEF m
    <3>. QED BY <3>2, <3>3, <3>4
  <2>. QED BY <2>1, <2>2
<1>15. {i \in DOMAIN m : m[i].from = t /\ m[i].side = side}
         = {i \in DOMAIN (fw \o fb) : (fw \o fb)[i] = <<t, side>>}
  <2>. HIDE DEF m
  <2>1. ASSUME NEW i \in 1..(Len(w) + Len(b))
        PROVE  m[i].from = t /\ m[i].side = side <=> (fw \o fb)[i] = <<t, side>>
    <3>1. (fw \o fb)[i] = <<m[i].from, m[i].side>>
      BY <1>14
    <3>2. \A p, q : <<p, q>> = <<t, side>> <=> p = t /\ q = side
      OBVIOUS
    <3>. QED BY <3>1, <3>2
  <2>. QED BY <1>13, <2>1
<1>16. {i \in DOMAIN m : m[i].to = t /\ m[i].side = side}
         = {i \in DOMAIN (xw \o xb) : (xw \o xb)[i] = <<t, side>>}
  <2>. HIDE DEF m
  <2>1. ASSUME NEW i \in 1..(Len(w) + Len(b))
        PROVE  m[i].to = t /\ m[i].side = side <=> (xw \o xb)[i] = <<t, side>>
    <3>1. (xw \o xb)[i] = <<m[i].to, m[i].side>>
      BY <1>14
    <3>2. \A p, q : <<p, q>> = <<t, side>> <=> p = t /\ q = side
      OBVIOUS
    <3>. QED BY <3>1, <3>2
  <2>. QED BY <1>13, <2>1
<1>17. HowMany(fw \o fb, <<t, side>>) = HowMany(fw, <<t, side>>) + HowMany(fb, <<t, side>>)
  BY <1>6, HowManyOfBoth
<1>18. HowMany(xw \o xb, <<t, side>>) = HowMany(xw, <<t, side>>) + HowMany(xb, <<t, side>>)
  BY <1>6, HowManyOfBoth
<1>19. HowMany(fw \o fb, <<t, side>>) = IF side = "White" THEN HowMany(w, t) ELSE HowMany(b, t)
  BY <1>2, <1>8, <1>9, <1>17
<1>20. HowMany(xw \o xb, <<t, side>>) = IF side = "White" THEN HowMany(x, t) ELSE HowMany(y, t)
  BY <1>2, <1>8, <1>9, <1>18
<1>. QED BY <1>15, <1>16, <1>19, <1>20 DEF HowMany, Gone, Come, mw, mb

(* The two sides' numbers of the glides between two positions. *)
LEMMA GlidesBetween ==
  ASSUME NEW a \in Positions, NEW b \in Positions,
         \A side \in Sides : Checkers(a, side) = Checkers(b, side) /\ b.off[side] >= a.off[side],
         NEW t, NEW side \in Sides
  PROVE  /\ Gone(diffMoves(a, b), side, t) = HowMany(leaving(a, b, side), t)
         /\ Come(diffMoves(a, b), side, t) = HowMany(dests(a, b, side), t)
<1>1. ASSUME NEW s \in Sides
      PROVE  /\ leaving(a, b, s) \in Seq(Targets) /\ dests(a, b, s) \in Seq(Targets)
             /\ Len(leaving(a, b, s)) = Len(dests(a, b, s))
             /\ movesOf(a, b, s) = Glides(leaving(a, b, s), dests(a, b, s), s)
  <2>1. leaving(a, b, s) \in Seq(Targets) /\ dests(a, b, s) \in Seq(Targets)
    BY LeavingCounts, DestsCounts
  <2>2. Len(leaving(a, b, s)) = Len(dests(a, b, s))
    BY AsManyComeAsLeave
  <2>3. Len(leaving(a, b, s)) \in Int
    BY <2>1, LenProperties
  <2>4. Min({Len(leaving(a, b, s)), Len(dests(a, b, s))}) = Len(leaving(a, b, s))
    BY <2>2, <2>3, MinOfSame
  <2>. QED BY <2>1, <2>2, <2>4 DEF movesOf, Glides
<1>2. "White" \in Sides /\ "Black" \in Sides /\ (side = "White" \/ side = "Black")
  BY DEF Sides
<1>. DEFINE w == leaving(a, b, "White")
            x == dests(a, b, "White")
            u == leaving(a, b, "Black")
            y == dests(a, b, "Black")
<1>3. /\ w \in Seq(Targets) /\ x \in Seq(Targets) /\ Len(w) = Len(x)
      /\ u \in Seq(Targets) /\ y \in Seq(Targets) /\ Len(u) = Len(y)
  BY <1>1, <1>2
<1>4. diffMoves(a, b) = Glides(w, x, "White") \o Glides(u, y, "Black")
  BY <1>1, <1>2 DEF diffMoves
<1>. HIDE DEF w, x, u, y
<1>. DEFINE m == Glides(w, x, "White") \o Glides(u, y, "Black")
<1>5. /\ Gone(m, side, t) = IF side = "White" THEN HowMany(w, t) ELSE HowMany(u, t)
      /\ Come(m, side, t) = IF side = "White" THEN HowMany(x, t) ELSE HowMany(y, t)
  BY <1>3, GlidesCounted
<1>6. diffMoves(a, b) = m
  BY <1>4
<1>. HIDE DEF m
<1>7. CASE side = "White"
  BY <1>5, <1>6, <1>7 DEF w, x
<1>8. CASE side = "Black"
  BY <1>5, <1>6, <1>8 DEF u, y
<1>. QED BY <1>2, <1>7, <1>8

(* They make the next position out of the one that is shown. *)
LEMMA GlidesLand ==
  ASSUME NEW a \in Positions, NEW b \in Positions,
         \A side \in Sides : Checkers(a, side) = Checkers(b, side) /\ b.off[side] >= a.off[side]
  PROVE  Landed(Lifted(a, diffMoves(a, b)), diffMoves(a, b)) = b
<1>. DEFINE m == diffMoves(a, b)
            gone(side, t) == Gone(m, side, t)
            come(side, t) == Come(m, side, t)
            up == Lifted(a, m)
<1>1. ASSUME NEW side \in Sides, NEW t
      PROVE  gone(side, t) = HowMany(leaving(a, b, side), t) /\ come(side, t) = HowMany(dests(a, b, side), t)
  BY GlidesBetween
<1>2. ASSUME NEW side \in Sides
      PROVE  /\ \A n \in Points : gone(side, n) = Positive(-Gain(a, b, side, n)) /\ come(side, n) = Positive(Gain(a, b, side, n))
             /\ gone(side, Bar) = Positive(a.bar[side] - b.bar[side])
             /\ come(side, Bar) = Positive(b.bar[side] - a.bar[side])
             /\ come(side, Off) = Positive(b.off[side] - a.off[side])
  <2>. HIDE DEF gone, come
  <2>1. /\ \A n \in Points : HowMany(leaving(a, b, side), n) = Positive(-Gain(a, b, side, n))
        /\ HowMany(leaving(a, b, side), Bar) = Positive(a.bar[side] - b.bar[side])
    BY LeavingCounts
  <2>2. /\ \A n \in Points : HowMany(dests(a, b, side), n) = Positive(Gain(a, b, side, n))
        /\ HowMany(dests(a, b, side), Bar) = Positive(b.bar[side] - a.bar[side])
        /\ HowMany(dests(a, b, side), Off) = Positive(b.off[side] - a.off[side])
    BY DestsCounts
  <2>3. ASSUME NEW t PROVE gone(side, t) = HowMany(leaving(a, b, side), t) /\ come(side, t) = HowMany(dests(a, b, side), t)
    BY <1>1
  <2>. QED BY <2>1, <2>2, <2>3
<1>3. /\ up = [points |-> [n \in Points |-> a.points[n] - Signed("White", gone("White", n))
                                                     - Signed("Black", gone("Black", n))],
               bar |-> [side \in Sides |-> Max({0, a.bar[side] - gone(side, Bar)})],
               off |-> a.off]
      /\ Landed(up, m) = [points |-> [n \in Points |-> up.points[n] + Signed("White", come("White", n))
                                                             + Signed("Black", come("Black", n))],
                          bar |-> [side \in Sides |-> up.bar[side] + come(side, Bar)],
                          off |-> [side \in Sides |-> up.off[side] + come(side, Off)]]
  <2>1. Landed(up, m) = [points |-> [n \in Points |-> up.points[n] + Signed("White", come("White", n))
                                                             + Signed("Black", come("Black", n))],
                          bar |-> [side \in Sides |-> up.bar[side] + come(side, Bar)],
                          off |-> [side \in Sides |-> up.off[side] + come(side, Off)]]
    <3>. HIDE DEF m, up
    <3>. QED BY DEF Landed, Come
  <2>2. up = [points |-> [n \in Points |-> a.points[n] - Signed("White", gone("White", n))
                                                     - Signed("Black", gone("Black", n))],
               bar |-> [side \in Sides |-> Max({0, a.bar[side] - gone(side, Bar)})],
               off |-> a.off]
    <3>. HIDE DEF m
    <3>. QED BY DEF Lifted, Gone
  <2>. QED BY <2>1, <2>2
<1>4. Landed(up, m).points = [n \in Points |-> up.points[n] + Signed("White", come("White", n))
                                                       + Signed("Black", come("Black", n))]
  <2>. HIDE DEF m, up
  <2>. QED BY DEF Landed, Come
<1>5. Landed(up, m).off = [side \in Sides |-> up.off[side] + come(side, Off)]
  <2>. HIDE DEF m, up
  <2>. QED BY DEF Landed, Come
<1>6. Landed(up, m).bar = [side \in Sides |-> up.bar[side] + come(side, Bar)]
  <2>. HIDE DEF m, up
  <2>. QED BY DEF Landed, Come
<1>. HIDE DEF m, gone, come, up
<1>7. "White" \in Sides /\ "Black" \in Sides
  BY DEF Sides
<1>8. ASSUME NEW n \in Points PROVE Landed(up, m).points[n] = b.points[n]
  <2>. DEFINE gw == Gain(a, b, "White", n)
              gb == Gain(a, b, "Black", n)
  <2>1. /\ gone("White", n) = Positive(-gw) /\ come("White", n) = Positive(gw)
        /\ gone("Black", n) = Positive(-gb) /\ come("Black", n) = Positive(gb)
    BY <1>2, <1>7
  <2>2. /\ sideAt(a, "White", n) = Positive(a.points[n]) /\ sideAt(b, "White", n) = Positive(b.points[n])
        /\ sideAt(a, "Black", n) = Positive(-a.points[n]) /\ sideAt(b, "Black", n) = Positive(-b.points[n])
    BY <1>7, SideAtIs
  <2>3. a.points[n] \in Int /\ b.points[n] \in Int
    BY DEF Positions
  <2>4. /\ gw = Positive(b.points[n]) - Positive(a.points[n])
        /\ gb = Positive(-b.points[n]) - Positive(-a.points[n])
    BY <2>2 DEF Gain
  <2>5. Landed(up, m).points[n] = a.points[n] - Positive(-gw) + Positive(-gb) + Positive(gw) - Positive(gb)
    <3>1. up.points[n] = a.points[n] - Positive(-gw) - (-Positive(-gb))
      BY <1>3, <2>1 DEF Signed
    <3>2. Landed(up, m).points[n] = up.points[n] + Positive(gw) + (-Positive(gb))
      BY <1>3, <2>1 DEF Signed
    <3>3. gw \in Int /\ gb \in Int
      BY <2>3, <2>4 DEF Positive
    <3>. HIDE DEF gw, gb
    <3>4. Positive(gw) \in Int /\ Positive(gb) \in Int /\ Positive(-gw) \in Int /\ Positive(-gb) \in Int
      BY <3>3 DEF Positive
    <3>. QED BY <2>3, <3>1, <3>2, <3>4
  <2>. HIDE DEF gw, gb
  <2>6. a.points[n] - Positive(-gw) + Positive(-gb) + Positive(gw) - Positive(gb) = b.points[n]
    <3>. DEFINE p == a.points[n]
                q == b.points[n]
    <3>1. p \in Int /\ q \in Int /\ gw = Positive(q) - Positive(p) /\ gb = Positive(-q) - Positive(-p)
      BY <2>3, <2>4
    <3>. HIDE DEF p, q
    <3>2. p - Positive(-gw) + Positive(-gb) + Positive(gw) - Positive(gb) = q
      BY <3>1 DEF Positive
    <3>. QED BY <3>2 DEF p, q
  <2>. QED BY <2>5, <2>6
<1>9. ASSUME NEW side \in Sides PROVE Landed(up, m).bar[side] = b.bar[side]
  <2>1. a.bar[side] \in Nat /\ b.bar[side] \in Nat
    BY DEF Positions
  <2>2. Landed(up, m).bar[side] = Max({0, a.bar[side] - gone(side, Bar)}) + come(side, Bar)
    BY <1>3
  <2>3. gone(side, Bar) = Positive(a.bar[side] - b.bar[side]) /\ come(side, Bar) = Positive(b.bar[side] - a.bar[side])
    BY <1>2
  <2>4. gone(side, Bar) \in Int /\ a.bar[side] - gone(side, Bar) \in Int
    BY <2>1, <2>3 DEF Positive
  <2>5. Max({0, a.bar[side] - gone(side, Bar)}) = Positive(a.bar[side] - gone(side, Bar))
    BY <2>4, MaxWithZero
  <2>. QED BY <2>1, <2>2, <2>3, <2>5 DEF Positive
<1>10. ASSUME NEW side \in Sides PROVE Landed(up, m).off[side] = b.off[side]
  <2>1. a.off[side] \in Nat /\ b.off[side] \in Nat /\ b.off[side] >= a.off[side]
    BY DEF Positions
  <2>2. Landed(up, m).off[side] = a.off[side] + Positive(b.off[side] - a.off[side])
    BY <1>2, <1>3
  <2>. QED BY <2>1, <2>2 DEF Positive
<1>11. /\ Landed(up, m) = [points |-> Landed(up, m).points, bar |-> Landed(up, m).bar, off |-> Landed(up, m).off]
      /\ b = [points |-> b.points, bar |-> b.bar, off |-> b.off]
  BY <1>3 DEF Positions
<1>12. Landed(up, m).points = b.points
  <2>. DEFINE f == Landed(up, m).points
              g == b.points
              body(n) == up.points[n] + Signed("White", come("White", n)) + Signed("Black", come("Black", n))
  <2>1. f = [n \in Points |-> body(n)]
    BY <1>4
  <2>2. g = [n \in Points |-> g[n]]
    BY DEF Positions
  <2>3. \A n \in Points : f[n] = g[n]
    BY <1>8
  <2>. HIDE DEF f, g, body
  <2>4. f = g
    BY <2>1, <2>2, <2>3
  <2>. QED BY <2>4 DEF f, g
<1>13. Landed(up, m).bar = b.bar
  <2>. DEFINE f == Landed(up, m).bar
              g == b.bar
              body(side) == up.bar[side] + come(side, Bar)
  <2>1. f = [side \in Sides |-> body(side)]
    BY <1>6
  <2>2. g = [side \in Sides |-> g[side]]
    BY DEF Positions
  <2>3. \A side \in Sides : f[side] = g[side]
    BY <1>9
  <2>. HIDE DEF f, g, body
  <2>4. f = g
    BY <2>1, <2>2, <2>3
  <2>. QED BY <2>4 DEF f, g
<1>14. Landed(up, m).off = b.off
  <2>. DEFINE f == Landed(up, m).off
              g == b.off
              body(side) == up.off[side] + come(side, Off)
  <2>1. f = [side \in Sides |-> body(side)]
    BY <1>5
  <2>2. g = [side \in Sides |-> g[side]]
    BY DEF Positions
  <2>3. \A side \in Sides : f[side] = g[side]
    BY <1>10
  <2>. HIDE DEF f, g, body
  <2>4. f = g
    BY <2>1, <2>2, <2>3
  <2>. QED BY <2>4 DEF f, g
<1>15. Landed(up, m) = b
  BY <1>11, <1>12, <1>13, <1>14
<1>. QED BY <1>15 DEF up, m

(* LandsOn, of any two positions of a match. *)
LEMMA EveryGlideLands ==
  ASSUME BoardConstantsOK, NEW from \in Boards, NEW to \in Boards
  PROVE  LandsOn[from][to]
<1>. DEFINE a == Position[from]
            b == Position[to]
<1>1. a \in Positions /\ b \in Positions /\ \A side \in Sides : Checkers(a, side) = Checkers(b, side)
  BY DEF BoardConstantsOK, PositionsOK
<1>2. Moves[from][to] = diffMoves(a, b)
  BY DEF Moves
<1>3. LandsOn[from][to]
        = ((\A side \in Sides : b.off[side] >= a.off[side])
             => Landed(Lifted(a, Moves[from][to]), Moves[from][to]) = b)
  BY DEF LandsOn
<1>. HIDE DEF a, b
<1>4. (\A side \in Sides : b.off[side] >= a.off[side])
        => Landed(Lifted(a, diffMoves(a, b)), diffMoves(a, b)) = b
  BY <1>1, GlidesLand
<1>. QED BY <1>2, <1>3, <1>4

(*****************************************************************************)
(* The board on the screen: the inductive invariant                        *)
(*****************************************************************************)

(* What the renderer knows of the dice it was last told to show. *)
DiceKnown(r) ==
  r.diceSig # None =>
    \/ r.diceAnim = r.diceSig
    \/ r.diceAnim = None /\ r.painted = [dice |-> r.diceSig, side |-> r.diceOwner]

(* A renderer shows a position, and only what glides is followed by another. *)
Showing(r) ==
  /\ r.shownBoard # None
  /\ r.moveAnim = None => r.pendingBoard = None
  /\ DiceKnown(r)

(* Where the glides of r will have led. *)
HeadsFor(r, pos) ==
  CASE r.moveAnim = None -> r.shownBoard = pos
    [] r.moveAnim # None /\ r.pendingBoard = None -> r.moveAnim = pos
    [] OTHER -> r.pendingBoard = pos

(* The renderer has the dice of the props p, as the dice of their player. *)
TakesDice(r, p) ==
  /\ r.diceOwner = p.activePlayer
  /\ p.dice # None => r.diceSig = p.dice

(* It heads for what the component was last given. *)
Follows ==
  renderer # None /\ ~late => /\ ~returned => HeadsFor(renderer, props.board)
                              /\ TakesDice(renderer, props)

(* The creation that will be used has the newest props and stands as the screen. *)
CapturedOK == ~late => \A i \in DOMAIN creating : ~creating[i].disposed => creating[i].props = props

PoseOK == pose \in Poses /\ \A i \in DOMAIN creating : ~creating[i].disposed => creating[i].pose = pose

(* The inductive invariant. *)
BoardInv ==
  /\ ScreenOK /\ PoseOK /\ CapturedOK /\ Follows
  /\ late \in BOOLEAN /\ returned \in BOOLEAN
  /\ renderer # None => Showing(renderer)

(* A renderer at rest or gliding, or one that was only made. *)
Sound(r) ==
  /\ r \in Renderers
  /\ r.moveAnim = None => r.pendingBoard = None
  /\ r.moveAnim # None => r.shownBoard # None
  /\ DiceKnown(r)

(* Each part of render keeps a renderer sound. *)
LEMMA OwnerKeeps ==
  ASSUME NEW r, Sound(r), NEW side \in Sides
  PROVE  /\ Sound(WithOwner(r, side))
         /\ WithOwner(r, side).diceOwner = side
         /\ WithOwner(r, side).stage = r.stage /\ WithOwner(r, side).shownBoard = r.shownBoard
         /\ WithOwner(r, side).moveAnim = r.moveAnim /\ WithOwner(r, side).pendingBoard = r.pendingBoard
  BY DEF Sound, DiceKnown, WithOwner, Renderers, OrNull

LEMMA DiceKeep ==
  ASSUME BoardConstantsOK, NEW r, Sound(r), NEW rolled \in OrNull(Dice)
  PROVE  LET new == updateDice(r, rolled)
         IN /\ Sound(new) /\ (rolled # None => new.diceSig = rolled)
            /\ new.diceOwner = r.diceOwner /\ new.stage = r.stage /\ new.shownBoard = r.shownBoard
            /\ new.moveAnim = r.moveAnim /\ new.pendingBoard = r.pendingBoard
  BY DEF BoardConstantsOK, Sound, DiceKnown, updateDice, Renderers, OrNull

LEMMA CheckersKeep ==
  ASSUME BoardConstantsOK, NEW r, Sound(r), NEW pos \in Boards
  PROVE  LET new == updateCheckers(r, pos)
         IN /\ Sound(new) /\ Showing(new)
            /\ new.diceOwner = r.diceOwner /\ new.stage = r.stage /\ new.diceSig = r.diceSig
            /\ r.moveAnim = None \/ r.shownBoard # pos => HeadsFor(new, pos)
  BY DEF BoardConstantsOK, Sound, Showing, DiceKnown, HeadsFor, updateCheckers, startMoveAnim, Renderers, OrNull

LEMMA RenderKeeps ==
  ASSUME BoardConstantsOK, NEW r, Sound(r), NEW p \in AllProps
  PROVE  LET new == render(r, p)
         IN /\ Sound(new) /\ Showing(new) /\ TakesDice(new, p) /\ new.stage = r.stage
            /\ r.moveAnim = None \/ r.shownBoard # p.board => HeadsFor(new, p.board)
<1>1. p.activePlayer \in Sides /\ p.dice \in OrNull(Dice) /\ p.board \in Boards
  BY DEF AllProps, OrNull
<1> DEFINE a == WithOwner(r, p.activePlayer)
           b == updateDice(a, p.dice)
<1>2. /\ Sound(a) /\ a.diceOwner = p.activePlayer
      /\ a.stage = r.stage /\ a.shownBoard = r.shownBoard /\ a.moveAnim = r.moveAnim
  BY <1>1, OwnerKeeps
<1> HIDE DEF a
<1>3. /\ Sound(b) /\ (p.dice # None => b.diceSig = p.dice)
      /\ b.diceOwner = p.activePlayer /\ b.stage = r.stage /\ b.shownBoard = r.shownBoard /\ b.moveAnim = r.moveAnim
  BY <1>1, <1>2, DiceKeep
<1> HIDE DEF b
<1>4. LET new == updateCheckers(b, p.board)
      IN /\ Sound(new) /\ Showing(new)
         /\ new.diceOwner = b.diceOwner /\ new.stage = b.stage /\ new.diceSig = b.diceSig
         /\ b.moveAnim = None \/ b.shownBoard # p.board => HeadsFor(new, p.board)
  BY <1>1, <1>3, CheckersKeep
<1>5. render(r, p) = updateCheckers(b, p.board)
  BY DEF render, a, b
<1>. QED BY <1>3, <1>4, <1>5 DEF TakesDice

(* A glide that ends goes on to what is pending. *)
LEMMA LandedKeeps ==
  ASSUME BoardConstantsOK, NEW r, Sound(r), Showing(r), r.moveAnim # None
  PROVE  LET new == landed(r)
         IN /\ Sound(new) /\ Showing(new)
            /\ new.stage = r.stage /\ new.diceOwner = r.diceOwner /\ new.diceSig = r.diceSig
            /\ \A pos \in Boards : HeadsFor(r, pos) => HeadsFor(new, pos)
<1> DEFINE down == [r EXCEPT !.moveAnim = None, !.shownBoard = r.moveAnim, !.pendingBoard = None]
<1>1. /\ Sound(down) /\ Showing(down) /\ down.moveAnim = None /\ down.shownBoard = r.moveAnim
      /\ down.stage = r.stage /\ down.diceOwner = r.diceOwner /\ down.diceSig = r.diceSig
  BY DEF Sound, Showing, DiceKnown, Renderers, OrNull
<1>2. landed(r) = IF r.pendingBoard = None THEN down ELSE updateCheckers(down, r.pendingBoard)
  BY DEF landed
<1> HIDE DEF down
<1>3. CASE r.pendingBoard = None
  BY <1>1, <1>2, <1>3 DEF HeadsFor
<1>4. CASE r.pendingBoard # None
  <2>1. r.pendingBoard \in Boards
    BY <1>4 DEF Sound, Renderers, OrNull
  <2>2. LET new == updateCheckers(down, r.pendingBoard)
        IN /\ Sound(new) /\ Showing(new)
           /\ new.diceOwner = down.diceOwner /\ new.stage = down.stage /\ new.diceSig = down.diceSig
           /\ down.moveAnim = None \/ down.shownBoard # r.pendingBoard => HeadsFor(new, r.pendingBoard)
    BY <1>1, <2>1, CheckersKeep
  <2>3. \A pos \in Boards : HeadsFor(r, pos) => pos = r.pendingBoard
    BY <1>4 DEF HeadsFor
  <2>. QED BY <1>1, <1>2, <1>4, <2>2, <2>3
<1>. QED BY <1>3, <1>4

LEMMA SettledKeeps ==
  ASSUME BoardConstantsOK, NEW r, Sound(r), Showing(r), r.diceAnim # None
  PROVE  LET new == settled(r)
         IN /\ Sound(new) /\ Showing(new)
            /\ new.stage = r.stage /\ new.diceOwner = r.diceOwner /\ new.diceSig = r.diceSig
            /\ \A pos \in Boards : HeadsFor(r, pos) => HeadsFor(new, pos)
  BY DEF BoardConstantsOK, Sound, Showing, DiceKnown, HeadsFor, settled, Renderers, OrNull

Creations == [props : AllProps, pose : Poses, disposed : BOOLEAN]

(* The renderer in the invariant is sound. *)
LEMMA RendererIs == BoardInv => (renderer # None => Sound(renderer))
  BY DEF BoardInv, ScreenOK, Showing, Sound, OrNull

(* What the renderer promises once nothing moves. *)
LEMMA BoardFollows ==
  ASSUME BoardConstantsOK, BoardInv
  PROVE  BoardOK
<1> USE DEF BoardInv
<1>1. GlideLands
  <2>1. SUFFICES ASSUME renderer # None, renderer.moveAnim # None
                 PROVE  LandsOn[renderer.shownBoard][renderer.moveAnim]
    BY DEF GlideLands
  <2>2. renderer.shownBoard \in Boards /\ renderer.moveAnim \in Boards
    BY <2>1 DEF ScreenOK, OrNull, Renderers, Showing
  <2>. QED BY <2>2, EveryGlideLands
<1>2. InSync
  BY DEF InSync, Resting, Follows, HeadsFor, TakesDice, Showing, DiceKnown
<1>. QED BY <1>1, <1>2 DEF BoardOK

(* The invariant holds at first and is kept by each action. *)
LEMMA BoardInit == InitBoard => BoardInv
<1> SUFFICES ASSUME InitBoard PROVE BoardInv
  OBVIOUS
<1>1. props \in AllProps /\ pose \in Poses /\ renderer = None /\ late = FALSE /\ returned = FALSE
  BY DEF InitBoard
<1>2. Creation(props, pose) \in Creations
  BY <1>1 DEF Creation, Creations
<1>3. creating \in Seq(Creations) /\ DOMAIN creating = {1} /\ creating[1] = Creation(props, pose)
  BY <1>2 DEF InitBoard
<1>4. ScreenOK
  BY <1>1, <1>3 DEF ScreenOK, OrNull, Creations
<1>5. PoseOK /\ CapturedOK
  BY <1>1, <1>3 DEF PoseOK, CapturedOK, Creation
<1>6. Follows
  BY <1>1 DEF Follows
<1>. QED BY <1>1, <1>4, <1>5, <1>6 DEF BoardInv

(* New props: a renderer that is there follows them. *)
LEMMA RenderStep == ASSUME BoardConstantsOK, BoardInv, Render PROVE BoardInv'
<1> USE DEF BoardInv
<1>1. props' \in AllProps /\ UNCHANGED <<pose, creating>> /\ late' = (renderer = None)
      /\ (returned' <=> renderer # None /\ renderer.moveAnim # None /\ renderer.shownBoard = props'.board)
      /\ renderer' = IF renderer = None THEN None ELSE render(renderer, props')
  BY DEF Render
<1>2. CASE renderer = None
  BY <1>1, <1>2 DEF Render, ScreenOK, PoseOK, CapturedOK, Follows, OrNull
<1>3. CASE renderer # None
  <2> DEFINE new == render(renderer, props')
  <2>1. /\ Sound(new) /\ Showing(new) /\ TakesDice(new, props') /\ new.stage = renderer.stage
        /\ renderer.moveAnim = None \/ renderer.shownBoard # props'.board => HeadsFor(new, props'.board)
    BY <1>1, <1>3, RendererIs, RenderKeeps
  <2>2. renderer' = new
    BY <1>1, <1>3
  <2> HIDE DEF new
  <2>3. ScreenOK'
    BY <1>1, <1>3, <2>1, <2>2 DEF ScreenOK, Sound, OrNull
  <2>4. PoseOK' /\ CapturedOK'
    BY <1>1, <1>3 DEF PoseOK, CapturedOK, ScreenOK
  <2>5. Follows'
    BY <1>1, <1>3, <2>1, <2>2 DEF Follows
  <2>6. late' \in BOOLEAN /\ returned' \in BOOLEAN
    BY DEF Render
  <2>. QED BY <2>1, <2>2, <2>3, <2>4, <2>5, <2>6
<1> HIDE DEF BoardInv
<1>. QED BY <1>2, <1>3

(* The screen turned or left: whatever is being created is not wanted. *)
LEMMA DisposedAre ==
  ASSUME BoardInv
  PROVE  LET all == [i \in DOMAIN creating |-> [creating[i] EXCEPT !.disposed = TRUE]]
         IN all \in Seq(Creations) /\ DOMAIN all = DOMAIN creating /\ \A i \in DOMAIN all : all[i].disposed
<1>1. creating \in Seq(Creations)
  BY DEF BoardInv, ScreenOK, Creations
<1>2. Len(creating) \in Nat /\ DOMAIN creating = 1..Len(creating) /\ \A i \in DOMAIN creating : creating[i] \in Creations
  BY <1>1
<1>3. \A i \in DOMAIN creating : /\ [creating[i] EXCEPT !.disposed = TRUE] \in Creations
                                 /\ [creating[i] EXCEPT !.disposed = TRUE].disposed
  BY <1>2 DEF Creations
<1> DEFINE all == [i \in DOMAIN creating |-> [creating[i] EXCEPT !.disposed = TRUE]]
<1>4. all \in [1..Len(creating) -> Creations] /\ DOMAIN all = DOMAIN creating
      /\ \A i \in DOMAIN all : all[i].disposed
  BY <1>2, <1>3
<1> HIDE DEF all
<1>5. all \in Seq(Creations)
  BY <1>2, <1>4
<1>6. all \in Seq(Creations) /\ DOMAIN all = DOMAIN creating /\ \A i \in DOMAIN all : all[i].disposed
  BY <1>4, <1>5
<1>. QED BY <1>6 DEF all

LEMMA ToggleStep == ASSUME BoardConstantsOK, BoardInv, Toggle PROVE BoardInv'
<1> DEFINE all == [i \in DOMAIN creating |-> [creating[i] EXCEPT !.disposed = TRUE]]
           new == Creation(props, pose')
           n == Len(all)
<1>1. all \in Seq(Creations) /\ \A i \in DOMAIN all : all[i].disposed
  BY DisposedAre
<1>2. UNCHANGED <<props>> /\ renderer' = None /\ late' = FALSE /\ returned' = FALSE
      /\ pose' = [pose EXCEPT !.rotated = ~@] /\ creating' = Append(all, new)
  BY DEF Toggle
<1>3. pose' \in Poses /\ props \in AllProps
  BY <1>2 DEF BoardInv, PoseOK, ScreenOK, Poses
<1>4. new \in Creations /\ new.props = props /\ new.pose = pose'
  BY <1>3 DEF Creation, Creations
<1> HIDE DEF all, new
<1>5. /\ creating' \in Seq(Creations) /\ n \in Nat /\ DOMAIN creating' = 1..(n + 1)
      /\ creating'[n + 1] = new /\ \A i \in 1..n : creating'[i] = all[i] /\ creating'[i].disposed
  BY <1>1, <1>2, <1>4
<1>6. \A i \in DOMAIN creating' : ~creating'[i].disposed => i = n + 1
  BY <1>5
<1>7. ScreenOK'
  BY <1>2, <1>3, <1>5, <1>6 DEF ScreenOK, OrNull, Creations
<1>8. PoseOK' /\ CapturedOK' /\ Follows'
  BY <1>2, <1>3, <1>4, <1>5, <1>6 DEF PoseOK, CapturedOK, Follows
<1>. QED BY <1>2, <1>7, <1>8 DEF BoardInv

LEMMA UnmountStep == ASSUME BoardConstantsOK, BoardInv, Unmount PROVE BoardInv'
<1>1. creating' \in Seq(Creations) /\ \A i \in DOMAIN creating' : creating'[i].disposed
  BY DisposedAre DEF Unmount
<1>2. UNCHANGED <<props, pose, late, returned>> /\ renderer' = None
  BY DEF Unmount
<1>3. ScreenOK'
  BY <1>1, <1>2 DEF BoardInv, ScreenOK, OrNull, Creations
<1>. QED BY <1>1, <1>2, <1>3 DEF BoardInv, PoseOK, CapturedOK, Follows

(* A renderer is made: the one that is wanted, or one that is thrown away. *)
LEMMA CreatedStep == ASSUME BoardConstantsOK, BoardInv, NEW i \in DOMAIN creating, Created(i) PROVE BoardInv'
<1> USE DEF BoardInv
<1> DEFINE n == Len(creating)
           one == creating[i]
           Old(j) == IF j < i THEN j ELSE j + 1
<1>1. creating \in Seq(Creations) /\ n \in Nat /\ DOMAIN creating = 1..n /\ i \in 1..n /\ one \in Creations
  <2>1. creating \in Seq(Creations)
    BY DEF ScreenOK, Creations
  <2>. QED BY <2>1
<1>2. /\ creating' = RemoveAt(creating, i) /\ UNCHANGED <<props, pose, late, returned>>
      /\ renderer' = IF one.disposed THEN renderer ELSE render(NewRenderer(one.pose), one.props)
  BY DEF Created
<1>3. /\ creating' \in Seq(Creations) /\ DOMAIN creating' = 1..(n - 1)
      /\ \A j \in 1..(n - 1) : Old(j) \in 1..n \ {i} /\ creating'[j] = creating[Old(j)]
  <2>1. SubSeq(creating, 1, i - 1) \in Seq(Creations) /\ SubSeq(creating, i + 1, n) \in Seq(Creations)
    BY <1>1
  <2>2. creating' = SubSeq(creating, 1, i - 1) \o SubSeq(creating, i + 1, n)
    BY <1>2 DEF RemoveAt
  <2>3. creating' \in Seq(Creations) /\ DOMAIN creating' = 1..(n - 1)
    BY <1>1, <2>1, <2>2
  <2>4. ASSUME NEW j \in 1..(n - 1) PROVE Old(j) \in 1..n \ {i} /\ creating'[j] = creating[Old(j)]
    <3>1. CASE j < i
      BY <1>1, <2>2, <3>1
    <3>2. CASE j >= i
      <4> DEFINE a == SubSeq(creating, 1, i - 1)
                 b == SubSeq(creating, i + 1, n)
      <4>1. a \in Seq(Creations) /\ b \in Seq(Creations) /\ Len(a) = i - 1 /\ Len(b) = n - i
        BY <1>1, <2>1
      <4>2. creating' = a \o b
        BY <2>2
      <4> HIDE DEF a, b
      <4>3. (a \o b)[j] = b[j - Len(a)]
        BY <1>1, <3>2, <4>1
      <4>4. creating'[j] = SubSeq(creating, i + 1, n)[j - (i - 1)]
        BY <4>1, <4>2, <4>3 DEF b
      <4>5. SubSeq(creating, i + 1, n)[j - (i - 1)] = creating[(i + 1) + (j - (i - 1)) - 1]
        BY <1>1, <3>2
      <4>6. (i + 1) + (j - (i - 1)) - 1 = Old(j) /\ Old(j) \in 1..n \ {i}
        BY <1>1, <3>2
      <4>. QED BY <4>4, <4>5, <4>6
    <3>. QED BY <1>1, <3>1, <3>2
  <2>. QED BY <2>3, <2>4
<1>4. \A j, k \in 1..(n - 1) : Old(j) = Old(k) => j = k
  BY <1>1
<1> HIDE DEF one, Old
<1>5. \A j \in DOMAIN creating' : \E k \in DOMAIN creating \ {i} : creating'[j] = creating[k]
  BY <1>1, <1>3
<1>6. \A j, k \in DOMAIN creating' : ~creating'[j].disposed /\ ~creating'[k].disposed => j = k
  BY <1>1, <1>3, <1>4 DEF ScreenOK
<1>7. PoseOK' /\ CapturedOK'
  BY <1>2, <1>5 DEF PoseOK, CapturedOK
<1>8. CASE one.disposed
  <2>1. renderer' = renderer
    BY <1>2, <1>8
  <2>2. ScreenOK'
    BY <1>2, <1>3, <1>5, <1>6, <2>1 DEF ScreenOK, Creations
  <2>. QED BY <1>2, <1>7, <2>1, <2>2 DEF Follows
<1>9. CASE ~one.disposed
  <2> DEFINE made == render(NewRenderer(one.pose), one.props)
  <2>1. renderer = None /\ one.pose = pose /\ one.props \in AllProps /\ (~late => one.props = props)
    <3>1. renderer = None
      BY <1>1, <1>9 DEF one, ScreenOK
    <3>2. one.props \in AllProps
      BY <1>1 DEF Creations
    <3>3. one.pose = pose /\ (~late => one.props = props)
      BY <1>1, <1>9 DEF one, PoseOK, CapturedOK
    <3>. QED BY <3>1, <3>2, <3>3
  <2>2. Sound(NewRenderer(one.pose)) /\ NewRenderer(one.pose).stage = one.pose /\ NewRenderer(one.pose).moveAnim = None
    BY <2>1 DEF NewRenderer, Sound, DiceKnown, Renderers, OrNull, Sides, PoseOK
  <2>3. /\ Sound(made) /\ Showing(made) /\ TakesDice(made, one.props) /\ made.stage = one.pose
        /\ HeadsFor(made, one.props.board)
    BY <2>1, <2>2, RenderKeeps
  <2>4. renderer' = made
    BY <1>2, <1>9
  <2> HIDE DEF made
  <2>5. \A j \in DOMAIN creating' : creating'[j].disposed
    BY <1>1, <1>5, <1>9 DEF ScreenOK, one
  <2>6. ScreenOK'
    BY <1>2, <1>3, <1>6, <2>1, <2>3, <2>4, <2>5 DEF ScreenOK, Creations, Sound, OrNull
  <2>7. Follows'
    BY <1>2, <2>1, <2>3, <2>4 DEF Follows
  <2>. QED BY <1>2, <1>7, <2>3, <2>4, <2>6, <2>7
<1>. QED BY <1>8, <1>9

(* A frame: what glided has landed, or the dice lie. *)
LEMMA FrameStep ==
  ASSUME BoardConstantsOK, BoardInv, UNCHANGED <<props, pose, creating, late, returned>>,
         renderer # None, Sound(renderer'), Showing(renderer'),
         renderer'.stage = renderer.stage, renderer'.diceOwner = renderer.diceOwner,
         renderer'.diceSig = renderer.diceSig,
         \A pos \in Boards : HeadsFor(renderer, pos) => HeadsFor(renderer', pos)
  PROVE  BoardInv'
<1> USE DEF BoardInv
<1>1. ScreenOK'
  BY DEF ScreenOK, Sound, OrNull
<1>2. props.board \in Boards
  BY DEF ScreenOK, AllProps
<1>3. PoseOK' /\ CapturedOK' /\ Follows'
  BY <1>2 DEF PoseOK, CapturedOK, Follows, TakesDice
<1>. QED BY <1>1, <1>3

LEMMA BoardNext == ASSUME BoardConstantsOK, BoardInv, [NextBoard]_boardVars PROVE BoardInv'
<1>1. CASE StepMove
  <2>1. renderer # None /\ renderer.moveAnim # None /\ renderer' = landed(renderer)
    BY <1>1 DEF StepMove
  <2>2. Sound(renderer) /\ Showing(renderer)
    BY <2>1, RendererIs DEF BoardInv
  <2>. QED BY <1>1, <2>1, <2>2, LandedKeeps, FrameStep DEF StepMove
<1>2. CASE StepDice
  <2>1. renderer # None /\ renderer.diceAnim # None /\ renderer' = settled(renderer)
    BY <1>2 DEF StepDice
  <2>2. Sound(renderer) /\ Showing(renderer)
    BY <2>1, RendererIs DEF BoardInv
  <2>. QED BY <1>2, <2>1, <2>2, SettledKeeps, FrameStep DEF StepDice
<1>3. CASE UNCHANGED boardVars
  BY <1>3 DEF boardVars, BoardInv, ScreenOK, PoseOK, CapturedOK, Follows
<1>. QED BY <1>1, <1>2, <1>3, RenderStep, ToggleStep, UnmountStep, CreatedStep DEF NextBoard

(*****************************************************************************)
(* Taps on the board                                                       *)
(*****************************************************************************)

(* What is scaled is found again. *)
LEMMA Scaling == ASSUME NEW x \in Int, NEW s \in Nat \ {0} PROVE (x * s) \div s = x
  BY Z3

(* The design in numbers. *)
LEMMA Lengths ==
  /\ Edge = 240000 /\ playH = 4920000 /\ halfW = 3714000 /\ BAR_W = 384000 /\ pointW = 619000
  /\ TRAY_W = 624000 /\ pointH = 2066400 /\ checkerR = 259980 /\ barX = 3954000 /\ trayX = 8136000
  BY DEF Edge, playH, halfW, BAR_W, pointW, TRAY_W, TRAY_GAP, pointH, checkerR, barX, trayX, Unit, DESIGN_W, DESIGN_H,
     playRegionW

LEMMA FirstDisc == First = 277931
  BY Lengths DEF First, cRad

LEMMA MinOfTwo == ASSUME NEW a \in Int, NEW b \in Int PROVE Min({a, b}) = IF a <= b THEN a ELSE b
  BY DEF Min

LEMMA ShownOfStack == Shown(15) = 5
  BY MinOfTwo DEF Shown

LEMMA StepOfStack == StackStep(5) = 385372
  BY MinOfTwo, Lengths DEF StackStep, cRad

(* pointAt undoes the stage transform, at every size and in every pose. *)
LEMMA Undone ==
  ASSUME NEW p, p.sx \in Nat \ {0}, p.sy \in Nat \ {0}, p.rotated \in BOOLEAN, p.flipped \in BOOLEAN,
         NEW at, at.x \in Int, at.y \in Int
  PROVE  Design(p, OnScreen(p, at)) = [x |-> at.x, y |-> at.y]
<1> DEFINE X == at.x * p.sx
           Y == at.y * p.sy
           W == cssWidth(p)
           H == cssHeight(p)
<1>1. X \in Int /\ Y \in Int /\ X \div p.sx = at.x /\ Y \div p.sy = at.y
  BY Scaling
<1>2. W \in Int /\ H \in Int
  BY DEF cssWidth, cssHeight, DESIGN_W, DESIGN_H, Unit
<1> HIDE DEF X, Y, W, H
<1>3. CASE ~p.rotated /\ ~p.flipped
  <2>1. position(p) = [x |-> 0, y |-> 0] /\ stageRot(p) = 0
    BY <1>3 DEF position, stageRot
  <2>2. OnScreen(p, at) = [x |-> 0 + X, y |-> 0 + Y]
    BY <2>1 DEF OnScreen, Turned, X, Y
  <2>. QED BY <1>1, <1>3, <2>2 DEF Design
<1>4. CASE p.rotated /\ ~p.flipped
  <2>1. position(p) = [x |-> W, y |-> 0] /\ stageRot(p) = 1
    BY <1>4 DEF position, stageRot, W
  <2>2. OnScreen(p, at) = [x |-> W + (-Y), y |-> 0 + X]
    BY <2>1 DEF OnScreen, Turned, X, Y
  <2>3. Design(p, OnScreen(p, at)) = [x |-> (0 + X) \div p.sx, y |-> (W - (W + (-Y))) \div p.sy]
    BY <1>4, <2>2 DEF Design, W
  <2>. QED BY <1>1, <1>2, <2>3
<1>5. CASE ~p.rotated /\ p.flipped
  <2>1. position(p) = [x |-> W, y |-> H] /\ stageRot(p) = 2
    BY <1>5 DEF position, stageRot, W, H
  <2>2. OnScreen(p, at) = [x |-> W + (-X), y |-> H + (-Y)]
    BY <2>1 DEF OnScreen, Turned, X, Y
  <2>3. Design(p, OnScreen(p, at)) = [x |-> (W - (W + (-X))) \div p.sx, y |-> (H - (H + (-Y))) \div p.sy]
    BY <1>5, <2>2 DEF Design, W, H
  <2>. QED BY <1>1, <1>2, <2>3
<1>6. CASE p.rotated /\ p.flipped
  <2>1. position(p) = [x |-> 0, y |-> H] /\ stageRot(p) = 3
    BY <1>6 DEF position, stageRot, H
  <2>2. OnScreen(p, at) = [x |-> 0 + Y, y |-> H + (-X)]
    BY <2>1 DEF OnScreen, Turned, X, Y
  <2>3. Design(p, OnScreen(p, at)) = [x |-> (H - (H + (-X))) \div p.sx, y |-> (0 + Y) \div p.sy]
    BY <1>6, <2>2 DEF Design, H
  <2>. QED BY <1>1, <1>2, <2>3
<1>. QED BY <1>3, <1>4, <1>5, <1>6

(* What lies at a design position. *)
LEMMA Addressed ==
  ASSUME NEW p, NEW css, NEW x \in Int, NEW y \in Int, Design(p, css) = [x |-> x, y |-> y],
         240000 <= y, y <= 5160000
  PROVE  /\ 8136000 <= x /\ x <= 8760000 => pointAt(p, css) = Off
         /\ 3954000 <= x /\ x <= 4338000 => pointAt(p, css) = Bar
         /\ \A col \in 0..5 :
              x < 3954000 /\ (x - 240000) \div 619000 = col =>
                pointAt(p, css) = IF y > 2700000 THEN 12 - col ELSE col + 13
         /\ \A col \in 6..11 :
              4338000 < x /\ x < 8136000 /\ 6 + (x - 4338000) \div 619000 = col =>
                pointAt(p, css) = IF y > 2700000 THEN 12 - col ELSE col + 13
<1> DEFINE at == Design(p, css)
           left == at.x < barX
           col0 == IF left THEN (at.x - Edge) \div pointW
                   ELSE 6 + (at.x - (Edge + halfW + BAR_W)) \div pointW
<1>0. at.x = x /\ at.y = y
  OBVIOUS
<1>1. pointAt(p, css) =
        IF at.y < Edge \/ at.y > Edge + playH THEN NoTarget
        ELSE IF at.x >= trayX /\ at.x <= trayX + TRAY_W THEN Off
        ELSE IF at.x >= barX /\ at.x <= barX + BAR_W THEN Bar
        ELSE IF col0 \notin (IF left THEN 0..5 ELSE 6..11) THEN NoTarget
        ELSE IF at.y > Edge + playH \div 2 THEN 12 - col0 ELSE col0 + 13
  BY SMT DEF pointAt
<1> HIDE DEF at
<1>2. /\ left <=> x < 3954000
      /\ x < 3954000 => col0 = (x - 240000) \div 619000
      /\ x >= 3954000 => col0 = 6 + (x - 4338000) \div 619000
  BY <1>0, Lengths
<1>3. /\ ~(at.y < Edge \/ at.y > Edge + playH)
      /\ (at.x >= trayX /\ at.x <= trayX + TRAY_W) <=> (8136000 <= x /\ x <= 8760000)
      /\ (at.x >= barX /\ at.x <= barX + BAR_W) <=> (3954000 <= x /\ x <= 4338000)
      /\ (at.y > Edge + playH \div 2) <=> (y > 2700000)
  <2>1. ~(at.y < Edge \/ at.y > Edge + playH)
    BY SMT, <1>0, Lengths
  <2>2. (at.x >= trayX /\ at.x <= trayX + TRAY_W) <=> (8136000 <= x /\ x <= 8760000)
    BY SMT, <1>0, Lengths
  <2>3. (at.x >= barX /\ at.x <= barX + BAR_W) <=> (3954000 <= x /\ x <= 4338000)
    BY SMT, <1>0, Lengths
  <2>4. (at.y > Edge + playH \div 2) <=> (y > 2700000)
    BY SMT, <1>0, Lengths
  <2>. QED BY SMT, <2>1, <2>2, <2>3, <2>4
<1> HIDE DEF left, col0
<1>4. 8136000 <= x /\ x <= 8760000 => pointAt(p, css) = Off
  BY <1>1, <1>3
<1>5. 3954000 <= x /\ x <= 4338000 => pointAt(p, css) = Bar
  BY <1>1, <1>3
<1>6. ASSUME NEW col \in 0..5, x < 3954000, (x - 240000) \div 619000 = col
      PROVE  pointAt(p, css) = IF y > 2700000 THEN 12 - col ELSE col + 13
  <2>1. col0 = col /\ left /\ col0 \in 0..5
    BY <1>2, <1>6
  <2>2. ~(at.x >= trayX /\ at.x <= trayX + TRAY_W) /\ ~(at.x >= barX /\ at.x <= barX + BAR_W)
    BY <1>3, <1>6
  <2>. QED BY <1>1, <1>3, <2>1, <2>2
<1>7. ASSUME NEW col \in 6..11, 4338000 < x, x < 8136000, 6 + (x - 4338000) \div 619000 = col
      PROVE  pointAt(p, css) = IF y > 2700000 THEN 12 - col ELSE col + 13
  <2>1. col0 = col /\ ~left /\ col0 \in 6..11
    BY <1>2, <1>7
  <2>2. ~(at.x >= trayX /\ at.x <= trayX + TRAY_W) /\ ~(at.x >= barX /\ at.x <= barX + BAR_W)
    BY <1>3, <1>7
  <2>. QED BY <1>1, <1>3, <2>1, <2>2
<1>. QED BY <1>4, <1>5, <1>6, <1>7

(* A position in the column of a point, on its half, addresses it ... *)
LEMMA OfPoint ==
  ASSUME NEW t \in Points, NEW y \in Int, NEW x, x = colX(Col(t)),
         IF IsBottom(t) THEN 2700000 < y /\ y <= 5160000 ELSE 240000 <= y /\ y <= 2700000,
         NEW p, NEW css, Design(p, css) = [x |-> x, y |-> y]
  PROVE  pointAt(p, css) = t
<1> DEFINE col == Col(t)
<1>1. /\ t \in 1..24 /\ col \in 0..11
      /\ IsBottom(t) => col = 12 - t
      /\ ~IsBottom(t) => col = t - 13
      /\ col < 6 => x = 240000 + col * 619000 + 309500
      /\ col >= 6 => x = 4338000 + (col - 6) * 619000 + 309500
  BY Lengths DEF Points, Col, IsBottom, colX
<1> HIDE DEF col
<1>2. x \in Int /\ 240000 <= y /\ y <= 5160000 /\ (y > 2700000 <=> IsBottom(t))
  BY <1>1
<1>3. CASE col < 6
  <2>1. x < 3954000 /\ (x - 240000) \div 619000 = col /\ col \in 0..5
    BY <1>1, <1>3
  <2>2. pointAt(p, css) = IF y > 2700000 THEN 12 - col ELSE col + 13
    BY <1>2, <2>1, Addressed
  <2>. QED BY <1>1, <1>2, <2>2
<1>4. CASE col >= 6
  <2>1. 4338000 < x /\ x < 8136000 /\ 6 + (x - 4338000) \div 619000 = col /\ col \in 6..11
    BY <1>1, <1>4
  <2>2. pointAt(p, css) = IF y > 2700000 THEN 12 - col ELSE col + 13
    BY <1>2, <2>1, Addressed
  <2>. QED BY <1>1, <1>2, <2>2
<1>. QED BY <1>1, <1>3, <1>4

LEMMA Markers ==
  /\ markerPosition(Off) = [x |-> 8448000, y |-> 2700000]
  /\ markerPosition(Bar) = [x |-> 4146000, y |-> 2700000]
  /\ \A t \in Points : markerPosition(t) = [x |-> colX(Col(t)), y |-> Inwards(IsBottom(t), First)]
  BY Lengths DEF markerPosition, Points, Off, Bar

(* ... so the middle of a target does, ... *)
LEMMA OfMarker ==
  ASSUME NEW t \in Targets, NEW p, NEW css,
         Design(p, css) = [x |-> markerPosition(t).x, y |-> markerPosition(t).y]
  PROVE  pointAt(p, css) = t
<1>1. CASE t = Off
  BY <1>1, Markers, Addressed
<1>2. CASE t = Bar
  BY <1>2, Markers, Addressed
<1>3. CASE t \in Points
  <2>1. markerPosition(t) = [x |-> colX(Col(t)), y |-> Inwards(IsBottom(t), First)]
    BY <1>3, Markers
  <2>2. Inwards(IsBottom(t), First) = IF IsBottom(t) THEN 5160000 - 277931 ELSE 240000 + 277931
    BY Lengths, FirstDisc DEF Inwards, BaseY
  <2>3. Inwards(IsBottom(t), First) \in Int
    BY <2>2
  <2>. QED BY <1>3, <2>1, <2>2, <2>3, OfPoint
<1>. QED BY <1>1, <1>2, <1>3 DEF Targets

(* ... and each disc of a full stack. *)
LEMMA OfDisc ==
  ASSUME NEW t \in Points, NEW disc \in Stack(colX(Col(t)), IsBottom(t), 15), NEW p, NEW css,
         Design(p, css) = [x |-> disc.x, y |-> disc.y]
  PROVE  pointAt(p, css) = t /\ disc.y \in Int
<1>1. PICK i \in 0..4 : disc.x = colX(Col(t)) /\ disc.y = Inwards(IsBottom(t), First + i * StackStep(5))
  BY ShownOfStack DEF Stack
<1>2. disc.y = IF IsBottom(t) THEN 5160000 - (277931 + i * 385372) ELSE 240000 + (277931 + i * 385372)
  BY <1>1, Lengths, FirstDisc, StepOfStack DEF Inwards, BaseY
<1>3. disc.y \in Int
  BY <1>2
<1>. QED BY <1>1, <1>2, <1>3, OfPoint

LEMMA ColumnIsInt == \A t \in Points : colX(Col(t)) \in Int
  BY Lengths DEF colX, Col, IsBottom, Points

(* All of them hit, whatever the scales. *)
LEMMA EverySize == ASSUME Scales \subseteq Nat \ {0} PROVE AllHit
<1> SUFFICES ASSUME NEW stage \in Poses, NEW p \in Fitted(stage, Scales)
             PROVE  /\ \A t \in Targets : pointAt(p, OnScreen(p, markerPosition(t))) = t
                    /\ \A t \in Points : \A disc \in Stack(colX(Col(t)), IsBottom(t), 15) :
                         pointAt(p, OnScreen(p, disc)) = t
  BY DEF AllHit, Hits
<1>1. p.sx \in Nat \ {0} /\ p.sy \in Nat \ {0} /\ p.rotated \in BOOLEAN /\ p.flipped \in BOOLEAN
  BY DEF Fitted, Poses
<1>2. ASSUME NEW t \in Targets PROVE pointAt(p, OnScreen(p, markerPosition(t))) = t
  <2>1. markerPosition(t).x \in Int /\ markerPosition(t).y \in Int
    BY ColumnIsInt, Lengths, FirstDisc DEF markerPosition, Inwards, BaseY, Targets, Bar, Off
  <2>. QED BY <1>1, <2>1, Undone, OfMarker
<1>3. ASSUME NEW t \in Points, NEW disc \in Stack(colX(Col(t)), IsBottom(t), 15)
      PROVE  pointAt(p, OnScreen(p, disc)) = t
  <2>1. disc.x \in Int /\ disc.y \in Int
    <3>1. PICK i \in 0..4 : disc.x = colX(Col(t)) /\ disc.y = Inwards(IsBottom(t), First + i * StackStep(5))
      BY ShownOfStack DEF Stack
    <3>. QED BY <3>1, ColumnIsInt, Lengths, FirstDisc, StepOfStack DEF Inwards, BaseY
  <2>. QED BY <1>1, <2>1, Undone, OfDisc
<1>. QED BY <1>2, <1>3

(***************************************************************************)
(* The pages that follow a match                                           *)
(***************************************************************************)

JoinState == [at : {"none", "room", "clock", "mark", "members", "read", "ack"}, view : Pages!OrNone(Pages!Views)]
PageState == [status : {"idle", "connecting", "playing", "error"}, view : Pages!OrNone(Pages!Views), online : SUBSET Seated]

InJoin(c) == join[c].at \notin {"none", "room"}

Sockets(c) ==
  /\ sock[c] = "connecting" => c \notin cut
  /\ join[c].at = "room" => c \notin room
  /\ c \notin cut =>
       /\ bye[c] = "none"
       /\ sock[c] \in {"off", "connecting", "on"}
       /\ sock[c] # "on" => join[c].at = "none"
       /\ InJoin(c) => c \in room
       /\ c \notin room => page[c].view = NoView

Answers(c) ==
  /\ join[c].at # "ack" => join[c].view = NoView
  /\ join[c].view # NoView => join[c].view <= version
  /\ join[c].at \in {"clock", "mark", "members"} => Owner[c] \in Seated

HasShown(c) ==
  /\ page[c].status = "playing" => page[c].view # NoView
  /\ page[c].view # NoView => page[c].view <= version

Newest(c) ==
  c \in room \ overtaken =>
    /\ page[c].view # NoView => page[c].view = version \/ unsent
    /\ join[c].view # NoView /\ page[c].view = NoView => join[c].view = version \/ unsent

Untold == (\E c \in Clients : join[c].at = "members" \/ bye[c] = "emit")

Told(c) ==
  version < Final /\ ~Untold /\ c \in room /\ Owner[c] \in Seated
    /\ join[c].at \notin {"clock", "mark"} => page[c].online = online

Sole(c) == \A d \in Clients \ {c} : Owner[d] = Owner[c] => sock[d] = "off" /\ d \notin cut
Marked(c) ==
  version < Final /\ Sole(c) /\ c \notin cut /\ Owner[c] \in Seated =>
    (Owner[c] \in online <=> c \in room /\ join[c].at \notin {"clock", "mark"})

Client(c) == Sockets(c) /\ Answers(c) /\ HasShown(c) /\ Newest(c) /\ Told(c) /\ Marked(c)
PagesInv == Pages!TypeOK /\ room \cap cut = {} /\ \A c \in Clients : Client(c)

LEMMA Init0 == ASSUME Pages!ConstantsOK, Pages!Init PROVE PagesInv
<1>1. Pages!TypeOK
  <2>1. Pages!NoJoin \in [at : {"none", "room", "clock", "mark", "members", "read", "ack"}, view : Pages!OrNone(Pages!Views)]
    BY DEF Pages!NoJoin, Pages!OrNone
  <2>2. Pages!Idle \in [status : {"idle", "connecting", "playing", "error"}, view : Pages!OrNone(Pages!Views), online : SUBSET Seated]
    BY DEF Pages!Idle, Pages!OrNone
  <2>3. 0 \in Pages!Views
    BY DEF Pages!ConstantsOK, Pages!Views
  <2>. QED BY <2>1, <2>2, <2>3 DEF Pages!Init, Pages!TypeOK
<1>2. ASSUME NEW c \in Clients PROVE Client(c)
  BY DEF Pages!Init, Pages!NoJoin, Pages!Idle, Client, Sockets, Answers, HasShown, Newest, Told, Marked, InJoin
<1>. QED BY <1>1, <1>2 DEF PagesInv, Pages!Init

LEMMA ConnectKeeps == ASSUME Pages!ConstantsOK, PagesInv, NEW c \in Clients, Pages!ConnectToGame(c) PROVE PagesInv'
<1> USE DEF PagesInv
<1>0. /\ join' = join /\ room' = room /\ bye' = bye /\ cut' = cut /\ overtaken' = overtaken
      /\ version' = version /\ unsent' = unsent /\ online' = online
      /\ page'[c] = [status |-> "connecting", view |-> page[c].view, online |-> page[c].online]
      /\ \A d \in Clients \ {c} : page'[d] = page[d]
      /\ sock'[c] = "connecting" /\ sock[c] = "off" /\ c \notin cut
      /\ \A d \in Clients \ {c} : sock'[d] = sock[d]
  BY DEF Pages!ConnectToGame, Pages!TypeOK, Pages!server
<1>1. Pages!TypeOK'
  <2>1. page' \in [Clients -> [status : {"idle", "connecting", "playing", "error"},
                           view : Pages!OrNone(Pages!Views), online : SUBSET Seated]]
    BY DEF Pages!ConnectToGame, Pages!TypeOK
  <2>. QED BY <2>1 DEF Pages!ConnectToGame, Pages!TypeOK, Pages!server, Pages!OrNone, Pages!Views
<1>2. ASSUME NEW d \in Clients PROVE Client(d)'
  <2>1. Sockets(d)' /\ Answers(d)'
    BY <1>0 DEF Client, Sockets, Answers, InJoin
  <2>2. HasShown(d)' /\ Newest(d)'
    BY <1>0 DEF Client, HasShown, Newest
  <2>3. Told(d)'
    BY <1>0 DEF Client, Told, Untold
  <2>4. Marked(d)'
    BY <1>0 DEF Client, Marked, Sole, Sockets
  <2>. QED BY <2>1, <2>2, <2>3, <2>4 DEF Client
<1>. QED BY <1>0, <1>1, <1>2

LEMMA OpenKeeps == ASSUME Pages!ConstantsOK, PagesInv, NEW c \in Clients, Pages!Open(c) PROVE PagesInv'
<1> USE DEF PagesInv
<1>0. /\ page' = page /\ room' = room /\ bye' = bye /\ cut' = cut /\ overtaken' = overtaken
      /\ version' = version /\ unsent' = unsent /\ online' = online
      /\ join'[c] = [at |-> "room", view |-> join[c].view]
      /\ \A d \in Clients \ {c} : join'[d] = join[d]
      /\ sock'[c] = "on" /\ sock[c] = "connecting"
      /\ \A d \in Clients \ {c} : sock'[d] = sock[d]
  BY DEF Pages!Open, Pages!TypeOK, Pages!server
<1>1. Pages!TypeOK'
  <2>1. join' \in [Clients -> [at : {"none", "room", "clock", "mark", "members", "read", "ack"},
                           view : Pages!OrNone(Pages!Views)]]
    BY DEF Pages!Open, Pages!TypeOK
  <2>. QED BY <2>1 DEF Pages!Open, Pages!TypeOK, Pages!server, Pages!OrNone, Pages!Views
<1>2. ASSUME NEW d \in Clients PROVE Client(d)'
  <2>1. Sockets(d)' /\ Answers(d)'
    BY <1>0 DEF Client, Sockets, Answers, InJoin, Pages!TypeOK
  <2>2. HasShown(d)' /\ Newest(d)'
    BY <1>0 DEF Client, HasShown, Newest
  <2>3. Told(d)'
    BY <1>0 DEF Client, Told, Untold, Sockets
  <2>4. Marked(d)'
    BY <1>0 DEF Client, Marked, Sole, Sockets
  <2>. QED BY <2>1, <2>2, <2>3, <2>4 DEF Client
<1>. QED BY <1>0, <1>1, <1>2

LEMMA ErrorKeeps == ASSUME Pages!ConstantsOK, PagesInv, NEW c \in Clients, Pages!ConnectError(c) PROVE PagesInv'
<1> USE DEF PagesInv
<1>0. /\ join' = join /\ room' = room /\ bye' = bye /\ cut' = cut /\ overtaken' = overtaken
      /\ version' = version /\ unsent' = unsent /\ online' = online /\ sock' = sock
      /\ page'[c] = [status |-> "error", view |-> page[c].view, online |-> page[c].online]
      /\ \A d \in Clients \ {c} : page'[d] = page[d]
  BY DEF Pages!ConnectError, Pages!server, Pages!TypeOK
<1>1. Pages!TypeOK'
  <2>1. page' \in [Clients -> [status : {"idle", "connecting", "playing", "error"},
                           view : Pages!OrNone(Pages!Views), online : SUBSET Seated]]
    BY DEF Pages!ConnectError, Pages!TypeOK, Pages!OrNone, Pages!Views, Pages!ConstantsOK
  <2>. QED BY <1>0, <2>1 DEF Pages!ConnectError, Pages!TypeOK, Pages!server, Pages!OrNone, Pages!Views
<1>2. ASSUME NEW d \in Clients PROVE Client(d)'
  <2>1. Sockets(d)' /\ Answers(d)'
    BY <1>0 DEF Client, Sockets, Answers, InJoin, HasShown
  <2>2. HasShown(d)' /\ Newest(d)'
    BY <1>0 DEF Client, HasShown, Newest, Answers, Sockets
  <2>3. Told(d)'
    BY <1>0 DEF Client, Told, Untold, Sockets
  <2>4. Marked(d)'
    BY <1>0 DEF Client, Marked, Sole, Sockets
  <2>. QED BY <2>1, <2>2, <2>3, <2>4 DEF Client
<1>. QED BY <1>0, <1>1, <1>2

LEMMA DropKeeps == ASSUME Pages!ConstantsOK, PagesInv, NEW c \in Clients, Pages!Drop(c) PROVE PagesInv'
<1> USE DEF PagesInv
<1>0. /\ join' = join /\ page' = page /\ overtaken' = overtaken
      /\ version' = version /\ unsent' = unsent /\ online' = online
      /\ sock'[c] = "down"
      /\ \A d \in Clients \ {c} : sock'[d] = sock[d]
      /\ bye'[c] = (IF c \in room THEN "srem" ELSE bye[c])
      /\ \A d \in Clients \ {c} : bye'[d] = bye[d]
      /\ room' = room \ {c} /\ cut' = cut \union {c} /\ sock[c] = "on"
  BY DEF Pages!Drop, Pages!Gone, Pages!server, Pages!TypeOK
<1>1. Pages!TypeOK'
  <2>. QED BY <1>0 DEF Pages!Drop, Pages!Gone, Pages!TypeOK, Pages!server, Pages!OrNone, Pages!Views
<1>2. ASSUME NEW d \in Clients PROVE Client(d)'
  <2>1. Sockets(d)' /\ Answers(d)'
    BY <1>0 DEF Client, Sockets, Answers, InJoin, HasShown
  <2>2. HasShown(d)' /\ Newest(d)'
    BY <1>0 DEF Client, HasShown, Newest, Answers, Sockets
  <2>3. Told(d)'
    BY <1>0 DEF Client, Told, Untold, Sockets
  <2>4. Marked(d)'
    BY <1>0 DEF Client, Marked, Sole, Sockets
  <2>. QED BY <2>1, <2>2, <2>3, <2>4 DEF Client
<1>. QED BY <1>0, <1>1, <1>2

LEMMA ReconnectKeeps == ASSUME Pages!ConstantsOK, PagesInv, NEW c \in Clients, Pages!Reconnect(c) PROVE PagesInv'
<1> USE DEF PagesInv
<1>0. /\ join' = join /\ room' = room /\ bye' = bye /\ cut' = cut /\ overtaken' = overtaken /\ page' = page
      /\ version' = version /\ unsent' = unsent /\ online' = online
      /\ sock'[c] = "on"
      /\ \A d \in Clients \ {c} : sock'[d] = sock[d]
      /\ sock[c] = "down"
  BY DEF Pages!Reconnect, Pages!server, Pages!TypeOK
<1>1. Pages!TypeOK'
  <2>. QED BY <1>0 DEF Pages!Reconnect, Pages!TypeOK, Pages!server, Pages!OrNone, Pages!Views
<1>2. ASSUME NEW d \in Clients PROVE Client(d)'
  <2>1. Sockets(d)' /\ Answers(d)'
    BY <1>0 DEF Client, Sockets, Answers, InJoin, HasShown
  <2>2. HasShown(d)' /\ Newest(d)'
    BY <1>0 DEF Client, HasShown, Newest, Answers, Sockets
  <2>3. Told(d)'
    BY <1>0 DEF Client, Told, Untold, Sockets
  <2>4. Marked(d)'
    BY <1>0 DEF Client, Marked, Sole, Sockets
  <2>. QED BY <2>1, <2>2, <2>3, <2>4 DEF Client
<1>. QED BY <1>0, <1>1, <1>2

LEMMA LeaveKeeps == ASSUME Pages!ConstantsOK, PagesInv, NEW c \in Clients, Pages!Leave(c) PROVE PagesInv'
<1> USE DEF PagesInv
<1>0. /\ join' = join /\ overtaken' = overtaken
      /\ version' = version /\ unsent' = unsent /\ online' = online
      /\ sock'[c] = "off"
      /\ \A d \in Clients \ {c} : sock'[d] = sock[d]
      /\ bye'[c] = (IF c \in room THEN "srem" ELSE bye[c])
      /\ \A d \in Clients \ {c} : bye'[d] = bye[d]
      /\ room' = room \ {c} /\ cut' = cut \union {c}
      /\ page'[c] = [status |-> "idle", view |-> NoView, online |-> {}]
      /\ \A d \in Clients \ {c} : page'[d] = page[d]
  BY DEF Pages!Leave, Pages!Gone, Pages!server, Pages!Idle, Pages!TypeOK
<1>1. Pages!TypeOK'
  <2>1. page' \in [Clients -> [status : {"idle", "connecting", "playing", "error"},
                           view : Pages!OrNone(Pages!Views), online : SUBSET Seated]]
    BY DEF Pages!Leave, Pages!Gone, Pages!Idle, Pages!TypeOK, Pages!OrNone, Pages!Views, Pages!ConstantsOK
  <2>. QED BY <1>0, <2>1 DEF Pages!Leave, Pages!Gone, Pages!Idle, Pages!TypeOK, Pages!server, Pages!OrNone, Pages!Views
<1>2. ASSUME NEW d \in Clients PROVE Client(d)'
  <2>1. Sockets(d)' /\ Answers(d)'
    BY <1>0 DEF Client, Sockets, Answers, InJoin, HasShown
  <2>2. HasShown(d)' /\ Newest(d)'
    BY <1>0 DEF Client, HasShown, Newest, Answers, Sockets
  <2>3. Told(d)'
    BY <1>0 DEF Client, Told, Untold, Sockets
  <2>4. Marked(d)'
    BY <1>0 DEF Client, Marked, Sole, Sockets
  <2>. QED BY <2>1, <2>2, <2>3, <2>4 DEF Client
<1>. QED BY <1>0, <1>1, <1>2

LEMMA EnterKeeps == ASSUME Pages!ConstantsOK, PagesInv, NEW c \in Clients, Pages!EnterRoom(c) PROVE PagesInv'
<1> USE DEF PagesInv
<1> DEFINE at == IF version = Final THEN "ack" ELSE IF Owner[c] \in Seated THEN "clock" ELSE "read"
<1>a. /\ at \in {"ack", "clock", "read"}
      /\ at = "clock" => Owner[c] \in Seated
      /\ version < Final /\ Owner[c] \in Seated => at = "clock"
      /\ at = "ack" => ~(version < Final)
  BY DEF Pages!ConstantsOK, Pages!TypeOK, Pages!Views
<1>b. join' = [join EXCEPT ![c].at = at]
  BY DEF Pages!EnterRoom, Pages!GoTo
<1> HIDE DEF at
<1>0. /\ page' = page /\ bye' = bye /\ cut' = cut /\ overtaken' = overtaken /\ sock' = sock
      /\ version' = version /\ unsent' = unsent /\ online' = online
      /\ join'[c].at = at /\ join'[c].view = join[c].view
      /\ \A d \in Clients \ {c} : join'[d] = join[d]
      /\ room' = (IF c \in cut THEN room ELSE room \union {c}) /\ join[c].at = "room"
  BY <1>b DEF Pages!EnterRoom, Pages!server, Pages!TypeOK
<1>1. Pages!TypeOK'
  <2>1. join' \in [Clients -> [at : {"none", "room", "clock", "mark", "members", "read", "ack"},
                           view : Pages!OrNone(Pages!Views)]]
    BY <1>a, <1>b DEF Pages!TypeOK
  <2>2. room' \subseteq {d \in Clients : sock'[d] = "on"}
    BY <1>0 DEF Pages!TypeOK, Client, Sockets
  <2>. QED BY <1>0, <2>1, <2>2 DEF Pages!TypeOK, Pages!OrNone, Pages!Views
<1>2. ASSUME NEW d \in Clients PROVE Client(d)'
  <2>1. Sockets(d)' /\ Answers(d)'
    BY <1>0, <1>a DEF Client, Sockets, Answers, InJoin, HasShown
  <2>2. HasShown(d)' /\ Newest(d)'
    BY <1>0, <1>a DEF Client, HasShown, Newest, Answers, Sockets
  <2>3. Told(d)'
    BY <1>0, <1>a DEF Client, Told, Untold, Sockets
  <2>4. Marked(d)'
    BY <1>0, <1>a DEF Client, Marked, Sole, Sockets
  <2>. QED BY <2>1, <2>2, <2>3, <2>4 DEF Client
<1>. QED BY <1>0, <1>1, <1>2

LEMMA ClockKeeps == ASSUME Pages!ConstantsOK, PagesInv, NEW c \in Clients, Pages!StartClock(c) PROVE PagesInv'
<1> USE DEF PagesInv
<1>a. /\ version' \in Pages!Views /\ version' >= version /\ unsent' \in BOOLEAN
      /\ (version' = version /\ (unsent' <=> unsent)) \/ unsent' = TRUE
      /\ (version < Final <=> version' < Final)
  <2>1. CASE version = 0
    <3>1. version' = 1 /\ unsent' = TRUE
      BY <2>1 DEF Pages!StartClock
    <3>. QED BY <2>1, <3>1 DEF Pages!ConstantsOK, Pages!Views
  <2>2. CASE version # 0
    <3>1. version' = version /\ unsent' = unsent
      BY <2>2 DEF Pages!StartClock
    <3>. QED BY <3>1 DEF Pages!ConstantsOK, Pages!Views, Pages!TypeOK
  <2>. QED BY <2>1, <2>2
<1>b. join' = [join EXCEPT ![c].at = "mark"]
  BY DEF Pages!StartClock, Pages!GoTo
<1>0. /\ page' = page /\ bye' = bye /\ cut' = cut /\ overtaken' = overtaken /\ sock' = sock
      /\ room' = room /\ online' = online
      /\ join'[c].at = "mark" /\ join'[c].view = join[c].view
      /\ \A d \in Clients \ {c} : join'[d] = join[d]
      /\ join[c].at = "clock"
  BY <1>b DEF Pages!StartClock, Pages!TypeOK
<1>1. Pages!TypeOK'
  <2>1. join' \in [Clients -> [at : {"none", "room", "clock", "mark", "members", "read", "ack"},
                           view : Pages!OrNone(Pages!Views)]]
    BY <1>b DEF Pages!TypeOK
  <2>. QED BY <1>0, <1>a, <2>1 DEF Pages!TypeOK, Pages!OrNone, Pages!Views
<1>2. ASSUME NEW d \in Clients PROVE Client(d)'
  <2>1. Sockets(d)' /\ Answers(d)'
    BY <1>0, <1>a DEF Client, Sockets, Answers, InJoin, HasShown, Pages!TypeOK, Pages!OrNone, Pages!Views, Pages!ConstantsOK
  <2>2. HasShown(d)' /\ Newest(d)'
    BY <1>0, <1>a DEF Client, HasShown, Newest, Answers, Sockets, Pages!TypeOK, Pages!OrNone, Pages!Views, Pages!ConstantsOK
  <2>3. Told(d)'
    BY <1>0, <1>a DEF Client, Told, Untold, Sockets
  <2>4. Marked(d)'
    BY <1>0, <1>a DEF Client, Marked, Sole, Sockets
  <2>. QED BY <2>1, <2>2, <2>3, <2>4 DEF Client
<1>. QED BY <1>0, <1>a, <1>1, <1>2

LEMMA MarkKeeps == ASSUME Pages!ConstantsOK, PagesInv, NEW c \in Clients, Pages!MarkOnline(c) PROVE PagesInv'
<1> USE DEF PagesInv
<1>0. /\ page' = page /\ bye' = bye /\ cut' = cut /\ overtaken' = overtaken /\ sock' = sock
      /\ room' = room /\ version' = version /\ unsent' = unsent
      /\ online' = online \union {Owner[c]}
      /\ join' = [join EXCEPT ![c].at = "members"]
      /\ join'[c].at = "members" /\ join'[c].view = join[c].view
      /\ \A d \in Clients \ {c} : join'[d] = join[d]
      /\ join[c].at = "mark"
  BY DEF Pages!MarkOnline, Pages!GoTo, Pages!TypeOK
<1>1. Pages!TypeOK'
  <2>1. join' \in [Clients -> [at : {"none", "room", "clock", "mark", "members", "read", "ack"},
                           view : Pages!OrNone(Pages!Views)]]
    BY <1>0 DEF Pages!TypeOK
  <2>2. online' \subseteq {Owner[d] : d \in Clients} \intersect Seated
    BY <1>0 DEF Pages!TypeOK, Client, Answers
  <2>. QED BY <1>0, <2>1, <2>2 DEF Pages!TypeOK, Pages!OrNone, Pages!Views
<1>2. ASSUME NEW d \in Clients PROVE Client(d)'
  <2>1. Sockets(d)' /\ Answers(d)'
    BY <1>0 DEF Client, Sockets, Answers, InJoin, HasShown
  <2>2. HasShown(d)' /\ Newest(d)'
    BY <1>0 DEF Client, HasShown, Newest, Answers, Sockets
  <2>3. Told(d)'
    BY <1>0 DEF Told, Untold
  <2>4. Marked(d)'
    <3>1. CASE d = c
      BY <1>0, <3>1 DEF Client, Marked, Sole, Sockets, InJoin
    <3>2. CASE d # c /\ Owner[d] = Owner[c]
      BY <1>0, <3>2 DEF Client, Marked, Sole, Sockets, InJoin
    <3>3. CASE Owner[d] # Owner[c]
      BY <1>0, <3>3 DEF Client, Marked, Sole, Sockets, InJoin
    <3>. QED BY <3>1, <3>2, <3>3
  <2>. QED BY <2>1, <2>2, <2>3, <2>4 DEF Client
<1>. QED BY <1>0, <1>1, <1>2

(* All in the room are told the list. *)
LEMMA Telling ==
  ASSUME Pages!TypeOK, Pages!TellPresence
  PROVE  /\ page' \in [Clients -> [status : {"idle", "connecting", "playing", "error"},
                           view : Pages!OrNone(Pages!Views), online : SUBSET Seated]]
         /\ \A d \in Clients : /\ page'[d].status = page[d].status
                               /\ page'[d].view = page[d].view
                               /\ d \in room => page'[d].online = online
BY DEF Pages!TypeOK, Pages!TellPresence

LEMMA PresenceKeeps == ASSUME Pages!ConstantsOK, PagesInv, NEW c \in Clients, Pages!EmitPresence(c) PROVE PagesInv'
<1> USE DEF PagesInv
<1>0. /\ bye' = bye /\ cut' = cut /\ overtaken' = overtaken /\ sock' = sock
      /\ room' = room /\ version' = version /\ unsent' = unsent /\ online' = online
      /\ join' = [join EXCEPT ![c].at = "read"]
      /\ join'[c].at = "read" /\ join'[c].view = join[c].view
      /\ \A d \in Clients \ {c} : join'[d] = join[d]
      /\ join[c].at = "members" /\ Pages!TellPresence
  BY DEF Pages!EmitPresence, Pages!GoTo, Pages!TypeOK, Pages!server
<1>t. /\ page' \in [Clients -> [status : {"idle", "connecting", "playing", "error"},
                           view : Pages!OrNone(Pages!Views), online : SUBSET Seated]]
      /\ \A d \in Clients : /\ page'[d].status = page[d].status
                            /\ page'[d].view = page[d].view
                            /\ d \in room => page'[d].online = online
  BY <1>0, Telling
<1>1. Pages!TypeOK'
  <2>1. join' \in [Clients -> [at : {"none", "room", "clock", "mark", "members", "read", "ack"},
                           view : Pages!OrNone(Pages!Views)]]
    BY <1>0 DEF Pages!TypeOK
  <2>. QED BY <1>0, <1>t, <2>1 DEF Pages!TypeOK, Pages!OrNone, Pages!Views
<1>2. ASSUME NEW d \in Clients PROVE Client(d)'
  <2>1. Sockets(d)' /\ Answers(d)'
    BY <1>0, <1>t DEF Client, Sockets, Answers, InJoin, HasShown
  <2>2. HasShown(d)' /\ Newest(d)'
    BY <1>0, <1>t DEF Client, HasShown, Newest, Answers, Sockets
  <2>3. Told(d)'
    BY <1>0, <1>t DEF Client, Told, Untold
  <2>4. Marked(d)'
    BY <1>0 DEF Client, Marked, Sole, Sockets
  <2>. QED BY <2>1, <2>2, <2>3, <2>4 DEF Client
<1>. QED BY <1>0, <1>1, <1>2

LEMMA AbsenceKeeps == ASSUME Pages!ConstantsOK, PagesInv, NEW c \in Clients, Pages!EmitAbsence(c) PROVE PagesInv'
<1> USE DEF PagesInv
<1>0. /\ join' = join /\ cut' = cut /\ overtaken' = overtaken /\ sock' = sock
      /\ room' = room /\ version' = version /\ unsent' = unsent /\ online' = online
      /\ bye'[c] = "none" /\ bye[c] = "emit"
      /\ \A d \in Clients \ {c} : bye'[d] = bye[d]
      /\ Pages!TellPresence
  BY DEF Pages!EmitAbsence, Pages!TypeOK, Pages!server
<1>t. /\ page' \in [Clients -> [status : {"idle", "connecting", "playing", "error"},
                           view : Pages!OrNone(Pages!Views), online : SUBSET Seated]]
      /\ \A d \in Clients : /\ page'[d].status = page[d].status
                            /\ page'[d].view = page[d].view
                            /\ d \in room => page'[d].online = online
  BY <1>0, Telling
<1>1. Pages!TypeOK'
  BY <1>0, <1>t DEF Pages!EmitAbsence, Pages!TypeOK, Pages!OrNone, Pages!Views
<1>2. ASSUME NEW d \in Clients PROVE Client(d)'
  <2>1. Sockets(d)' /\ Answers(d)'
    BY <1>0, <1>t DEF Client, Sockets, Answers, InJoin, HasShown
  <2>2. HasShown(d)' /\ Newest(d)'
    BY <1>0, <1>t DEF Client, HasShown, Newest, Answers, Sockets
  <2>3. Told(d)'
    BY <1>0, <1>t DEF Client, Told, Untold
  <2>4. Marked(d)'
    BY <1>0 DEF Client, Marked, Sole, Sockets
  <2>. QED BY <2>1, <2>2, <2>3, <2>4 DEF Client
<1>. QED BY <1>0, <1>1, <1>2

LEMMA OfflineKeeps == ASSUME Pages!ConstantsOK, PagesInv, NEW c \in Clients, Pages!MarkOffline(c) PROVE PagesInv'
<1> USE DEF PagesInv
<1>0. /\ join' = join /\ cut' = cut /\ overtaken' = overtaken /\ sock' = sock /\ page' = page
      /\ room' = room /\ version' = version /\ unsent' = unsent /\ online' = online \ {Owner[c]}
      /\ bye'[c] = "emit" /\ bye[c] = "srem"
      /\ \A d \in Clients \ {c} : bye'[d] = bye[d]
  BY DEF Pages!MarkOffline, Pages!TypeOK
<1>1. Pages!TypeOK'
  BY <1>0 DEF Pages!MarkOffline, Pages!TypeOK, Pages!OrNone, Pages!Views
<1>2. ASSUME NEW d \in Clients PROVE Client(d)'
  <2>1. Sockets(d)' /\ Answers(d)'
    BY <1>0 DEF Client, Sockets, Answers, InJoin, HasShown
  <2>2. HasShown(d)' /\ Newest(d)'
    BY <1>0 DEF Client, HasShown, Newest, Answers, Sockets
  <2>3. Told(d)'
    BY <1>0 DEF Told, Untold
  <2>4. Marked(d)'
    <3>1. c \in cut
      BY <1>0 DEF Client, Sockets
    <3>. QED BY <1>0, <3>1 DEF Client, Marked, Sole
  <2>. QED BY <2>1, <2>2, <2>3, <2>4 DEF Client
<1>. QED BY <1>0, <1>1, <1>2

LEMMA ReadKeeps == ASSUME Pages!ConstantsOK, PagesInv, NEW c \in Clients, Pages!ReadView(c) PROVE PagesInv'
<1> USE DEF PagesInv
<1> DEFINE view == IF version = Final THEN NoView ELSE version
<1>a. /\ view \in Pages!OrNone(Pages!Views)
      /\ view # NoView => view = version
  BY DEF Pages!TypeOK, Pages!OrNone
<1>b. join' = [join EXCEPT ![c] = [at |-> "ack", view |-> view]]
  BY DEF Pages!ReadView
<1> HIDE DEF view
<1>0. /\ page' = page /\ bye' = bye /\ cut' = cut /\ overtaken' = overtaken /\ sock' = sock
      /\ room' = room /\ version' = version /\ unsent' = unsent /\ online' = online
      /\ join'[c] = [at |-> "ack", view |-> view]
      /\ \A d \in Clients \ {c} : join'[d] = join[d]
      /\ join[c].at = "read"
  BY <1>b DEF Pages!ReadView, Pages!server, Pages!TypeOK
<1>1. Pages!TypeOK'
  <2>1. join' \in [Clients -> [at : {"none", "room", "clock", "mark", "members", "read", "ack"},
                           view : Pages!OrNone(Pages!Views)]]
    BY <1>a, <1>b DEF Pages!TypeOK
  <2>. QED BY <1>0, <2>1 DEF Pages!TypeOK, Pages!OrNone, Pages!Views
<1>2. ASSUME NEW d \in Clients PROVE Client(d)'
  <2>1. Sockets(d)' /\ Answers(d)'
    BY <1>0, <1>a DEF Client, Sockets, Answers, InJoin, Pages!TypeOK, Pages!Views
  <2>2. HasShown(d)' /\ Newest(d)'
    BY <1>0, <1>a DEF Client, HasShown, Newest
  <2>3. Told(d)'
    BY <1>0 DEF Client, Told, Untold
  <2>4. Marked(d)'
    BY <1>0 DEF Client, Marked, Sole
  <2>. QED BY <2>1, <2>2, <2>3, <2>4 DEF Client
<1>. QED BY <1>0, <1>1, <1>2

(* What the answer leaves on the page. *)
LEMMA Answered ==
  ASSUME Pages!TypeOK, Pages!ConstantsOK, NEW c \in Clients, Pages!Answer(c)
  PROVE  /\ page' \in [Clients -> [status : {"idle", "connecting", "playing", "error"},
                           view : Pages!OrNone(Pages!Views), online : SUBSET Seated]]
         /\ \A d \in Clients \ {c} : page'[d] = page[d]
         /\ page'[c].online = page[c].online
         /\ \/ page'[c] = page[c] /\ c \in cut
            \/ page'[c].view = page[c].view /\ page'[c].status = "error" /\ join[c].view = NoView
            \/ page'[c].view = join[c].view /\ page'[c].view # NoView
<1>1. CASE c \in cut
  <2>1. page' = page
    BY <1>1 DEF Pages!Answer
  <2>. QED BY <1>1, <2>1 DEF Pages!TypeOK
<1>2. CASE c \notin cut /\ join[c].view = NoView
  <2>1. page' = [page EXCEPT ![c].status = "error"]
    BY <1>2 DEF Pages!Answer, Pages!Fails
  <2>. QED BY <1>2, <2>1 DEF Pages!TypeOK
<1>3. CASE c \notin cut /\ join[c].view # NoView
  <2>1. page' = [page EXCEPT ![c].view = join[c].view, ![c].status = "playing"]
    BY <1>3 DEF Pages!Answer, Pages!Shows
  <2>2. join[c].view \in Pages!OrNone(Pages!Views)
    BY DEF Pages!TypeOK
  <2>3. /\ page'[c] = [status |-> "playing", view |-> join[c].view, online |-> page[c].online]
        /\ \A d \in Clients \ {c} : page'[d] = page[d]
    <3>1. page[c] \in [status : {"idle", "connecting", "playing", "error"}, view : Pages!OrNone(Pages!Views), online : SUBSET Seated]
      BY DEF Pages!TypeOK
    <3>2. page' = [[page EXCEPT ![c] = [page[c] EXCEPT !.view = join[c].view]] EXCEPT ![c] = [[page[c] EXCEPT !.view = join[c].view] EXCEPT !.status = "playing"]]
      BY <2>1 DEF Pages!TypeOK
    <3>. QED BY <3>1, <3>2 DEF Pages!TypeOK
  <2>4. page' \in [Clients -> [status : {"idle", "connecting", "playing", "error"},
                           view : Pages!OrNone(Pages!Views), online : SUBSET Seated]]
    BY <2>1, <2>2 DEF Pages!TypeOK
  <2>. QED BY <1>3, <2>3, <2>4
<1>. QED BY <1>1, <1>2, <1>3

LEMMA AnswerKeeps == ASSUME Pages!ConstantsOK, PagesInv, NEW c \in Clients, Pages!Answer(c) PROVE PagesInv'
<1> USE DEF PagesInv
<1>a. /\ page' \in [Clients -> [status : {"idle", "connecting", "playing", "error"},
                           view : Pages!OrNone(Pages!Views), online : SUBSET Seated]]
      /\ \A d \in Clients \ {c} : page'[d] = page[d]
      /\ page'[c].online = page[c].online
      /\ \/ page'[c] = page[c] /\ c \in cut
         \/ page'[c].view = page[c].view /\ page'[c].status = "error" /\ join[c].view = NoView
         \/ page'[c].view = join[c].view /\ page'[c].view # NoView
  BY Answered
<1>b. join' = [join EXCEPT ![c] = [at |-> "none", view |-> NoView]]
  BY DEF Pages!Answer, Pages!NoJoin
<1>0. /\ bye' = bye /\ cut' = cut /\ sock' = sock
      /\ room' = room /\ version' = version /\ unsent' = unsent /\ online' = online
      /\ overtaken' = (IF page[c].view # NoView /\ join[c].view # page[c].view
                       THEN overtaken \union {c} ELSE overtaken)
      /\ join'[c] = [at |-> "none", view |-> NoView]
      /\ \A d \in Clients \ {c} : join'[d] = join[d]
      /\ join[c].at = "ack"
  BY <1>b DEF Pages!Answer, Pages!server, Pages!TypeOK
<1>1. Pages!TypeOK'
  <2>1. join' \in [Clients -> [at : {"none", "room", "clock", "mark", "members", "read", "ack"},
                           view : Pages!OrNone(Pages!Views)]]
    BY <1>b DEF Pages!TypeOK, Pages!OrNone
  <2>. QED BY <1>0, <1>a, <2>1 DEF Pages!TypeOK, Pages!OrNone, Pages!Views
<1>2. ASSUME NEW d \in Clients PROVE Client(d)'
  <2>1. Sockets(d)' /\ Answers(d)'
    BY <1>0, <1>a DEF Client, Sockets, Answers, InJoin
  <2>2. HasShown(d)'
    BY <1>0, <1>a DEF Client, HasShown, Answers
  <2>3. Newest(d)'
    BY <1>0, <1>a DEF Client, Newest
  <2>4. Told(d)'
    BY <1>0, <1>a DEF Client, Told, Untold
  <2>5. Marked(d)'
    BY <1>0 DEF Client, Marked, Sole
  <2>. QED BY <2>1, <2>2, <2>3, <2>4, <2>5 DEF Client
<1>. QED BY <1>0, <1>1, <1>2

LEMMA CommitKeeps == ASSUME Pages!ConstantsOK, PagesInv, Pages!Commit PROVE PagesInv'
<1> USE DEF PagesInv
<1>0. /\ page' = page /\ bye' = bye /\ cut' = cut /\ overtaken' = overtaken /\ sock' = sock
      /\ room' = room /\ join' = join /\ unsent' = TRUE
      /\ version \in Pages!Views /\ version' \in Pages!Views /\ version' = version + 1 /\ version < Final
      /\ version' < Final => online' = online
      /\ online' \subseteq online
  BY DEF Pages!Commit, Pages!TypeOK, Pages!ConstantsOK, Pages!Views
<1>1. Pages!TypeOK'
  BY <1>0 DEF Pages!TypeOK, Pages!OrNone, Pages!Views
<1>2. ASSUME NEW d \in Clients PROVE Client(d)'
  <2>1. Sockets(d)' /\ Answers(d)'
    BY <1>0 DEF Client, Sockets, Answers, InJoin, Pages!TypeOK, Pages!OrNone, Pages!Views, Pages!ConstantsOK
  <2>2. HasShown(d)' /\ Newest(d)'
    BY <1>0 DEF Client, HasShown, Newest, Pages!TypeOK, Pages!OrNone, Pages!Views, Pages!ConstantsOK
  <2>3. Told(d)'
    BY <1>0 DEF Client, Told, Untold
  <2>4. Marked(d)'
    BY <1>0 DEF Client, Marked, Sole
  <2>. QED BY <2>1, <2>2, <2>3, <2>4 DEF Client
<1>. QED BY <1>0, <1>1, <1>2

(* What a broadcast leaves on the pages. *)
LEMMA Broadcasting ==
  ASSUME Pages!TypeOK, Pages!ConstantsOK, Pages!Broadcast(version)
  PROVE  /\ page' \in [Clients -> [status : {"idle", "connecting", "playing", "error"},
                           view : Pages!OrNone(Pages!Views), online : SUBSET Seated]]
         /\ \A d \in Clients \ room : page'[d] = page[d]
         /\ \A d \in room : page'[d].view = version /\ page'[d].online = page[d].online
<1>1. ASSUME NEW d \in Clients
      PROVE  Pages!Shows(d, version)[d] = [status |-> "playing", view |-> version, online |-> page[d].online]
  <2>1. page[d] \in [status : {"idle", "connecting", "playing", "error"}, view : Pages!OrNone(Pages!Views), online : SUBSET Seated]
    BY DEF Pages!TypeOK
  <2>2. Pages!Shows(d, version)[d] = [[page[d] EXCEPT !.view = version] EXCEPT !.status = "playing"]
    BY DEF Pages!TypeOK, Pages!Shows
  <2>. QED BY <2>1, <2>2
<1>2. /\ \A d \in Clients \ room : page'[d] = page[d]
      /\ \A d \in room : page'[d] = [status |-> "playing", view |-> version, online |-> page[d].online]
  BY <1>1 DEF Pages!Broadcast, Pages!TypeOK
<1>3. page' = [d \in Clients |-> page'[d]]
  BY DEF Pages!Broadcast
<1>4. ASSUME NEW d \in Clients
      PROVE  page'[d] \in [status : {"idle", "connecting", "playing", "error"},
                           view : Pages!OrNone(Pages!Views), online : SUBSET Seated]
  <2>1. page[d] \in [status : {"idle", "connecting", "playing", "error"}, view : Pages!OrNone(Pages!Views), online : SUBSET Seated]
    BY DEF Pages!TypeOK
  <2>2. version \in Pages!OrNone(Pages!Views)
    BY DEF Pages!TypeOK, Pages!OrNone
  <2>3. CASE d \in room
    <3>1. page'[d] = [status |-> "playing", view |-> version, online |-> page[d].online]
      BY <1>2, <2>3
    <3>. QED BY <2>1, <2>2, <3>1
  <2>4. CASE d \notin room
    BY <1>2, <2>1, <2>4
  <2>. QED BY <2>3, <2>4
<1>5. page' \in [Clients -> [status : {"idle", "connecting", "playing", "error"},
                         view : Pages!OrNone(Pages!Views), online : SUBSET Seated]]
  BY <1>3, <1>4
<1>6. room \subseteq Clients
  BY DEF Pages!TypeOK
<1>7. ASSUME NEW d \in room PROVE page'[d].view = version /\ page'[d].online = page[d].online
  <2>1. page'[d] = [status |-> "playing", view |-> version, online |-> page[d].online]
    BY <1>2
  <2>. QED BY <2>1
<1>. QED BY <1>2, <1>5, <1>7

LEMMA ChangedKeeps == ASSUME Pages!ConstantsOK, PagesInv, Pages!OnStateChanged PROVE PagesInv'
<1> USE DEF PagesInv
<1>0. /\ bye' = bye /\ cut' = cut /\ overtaken' = overtaken /\ sock' = sock
      /\ room' = room /\ join' = join /\ unsent' = FALSE /\ version' = version /\ online' = online
      /\ Pages!Broadcast(version)
  BY DEF Pages!OnStateChanged
<1>a. /\ page' \in [Clients -> [status : {"idle", "connecting", "playing", "error"},
                           view : Pages!OrNone(Pages!Views), online : SUBSET Seated]]
      /\ \A d \in Clients \ room : page'[d] = page[d]
      /\ \A d \in room : page'[d].view = version /\ page'[d].online = page[d].online
  BY <1>0, Broadcasting
<1>b. version \in Nat /\ version # NoView
  BY DEF Pages!ConstantsOK, Pages!TypeOK, Pages!Views
<1>1. Pages!TypeOK'
  BY <1>0, <1>a DEF Pages!TypeOK, Pages!OrNone, Pages!Views
<1>2. ASSUME NEW d \in Clients PROVE Client(d)'
  <2>1. Sockets(d)' /\ Answers(d)'
    BY <1>0, <1>a DEF Client, Sockets, Answers, InJoin
  <2>2. HasShown(d)' /\ Newest(d)'
    BY <1>0, <1>a, <1>b DEF Client, HasShown, Newest
  <2>3. Told(d)'
    BY <1>0, <1>a DEF Client, Told, Untold
  <2>4. Marked(d)'
    BY <1>0 DEF Client, Marked, Sole
  <2>. QED BY <2>1, <2>2, <2>3, <2>4 DEF Client
<1>. QED BY <1>0, <1>1, <1>2

LEMMA PagesStutter == ASSUME PagesInv, UNCHANGED Pages!vars PROVE PagesInv'
BY DEF PagesInv, Pages!vars, Pages!TypeOK, Client, Sockets, Answers, HasShown, Newest, Told, Marked, Untold, Sole, InJoin

LEMMA PagesNext == ASSUME Pages!ConstantsOK, PagesInv, [Pages!Next]_(Pages!vars) PROVE PagesInv'
<1>1. ASSUME NEW c \in Clients,
             \/ Pages!ConnectToGame(c) \/ Pages!Open(c) \/ Pages!ConnectError(c)
             \/ Pages!Drop(c) \/ Pages!Reconnect(c) \/ Pages!Leave(c)
             \/ Pages!EnterRoom(c) \/ Pages!StartClock(c) \/ Pages!MarkOnline(c)
             \/ Pages!EmitPresence(c) \/ Pages!ReadView(c) \/ Pages!Answer(c)
             \/ Pages!MarkOffline(c) \/ Pages!EmitAbsence(c)
      PROVE  PagesInv'
  BY <1>1, ConnectKeeps, OpenKeeps, ErrorKeeps, DropKeeps, ReconnectKeeps, LeaveKeeps, EnterKeeps, ClockKeeps,
     MarkKeeps, PresenceKeeps, ReadKeeps, AnswerKeeps, OfflineKeeps, AbsenceKeeps
<1>. QED BY <1>1, CommitKeeps, ChangedKeeps, PagesStutter DEF Pages!Next

LEMMA PagesAlways == ASSUME Pages!ConstantsOK PROVE Pages!Spec => []PagesInv
<1>1. Pages!Init => PagesInv
  BY Init0
<1>2. PagesInv /\ [Pages!Next]_(Pages!vars) => PagesInv'
  BY PagesNext
<1>. QED BY <1>1, <1>2, PTL DEF Pages!Spec

(* Of the pages alone: when nothing is under way, they show the newest. *)
THEOREM PagesShowTheNewest == ASSUME Pages!ConstantsOK PROVE Pages!Spec => []Pages!ShowsNewest
<1>1. PagesInv => Pages!ShowsNewest
  BY DEF PagesInv, Client, Sockets, Answers, HasShown, Newest, Pages!Quiet, Pages!ShowsNewest
<1>. QED BY <1>1, PagesAlways, PTL

(* Of the pages alone: the players in the room agree with the server on who
   is online. *)
THEOREM RosterAgrees == ASSUME Pages!ConstantsOK PROVE Pages!Spec => []Pages!RosterOK
<1>1. PagesInv => Pages!PresenceAgrees
  BY DEF PagesInv, Client, Told, Untold, Pages!Quiet, Pages!PresenceAgrees, Pages!TypeOK
<1>2. PagesInv => Pages!OnlineWhileJoined
  BY DEF PagesInv, Client, Marked, Sole, Pages!Quiet, Pages!OnlineWhileJoined
<1>3. PagesInv => Pages!RosterOK
  BY <1>1, <1>2 DEF PagesInv, Pages!RosterOK
<1>. QED BY <1>3, PagesAlways, PTL

LEMMA BackStep ==
  ASSUME Pages!ConstantsOK, PagesInv, [Pages!Next]_(Pages!vars), NEW c \in Clients,
         page'[c].view # NoView, page[c].view # NoView, page'[c].view < page[c].view
  PROVE  join[c].at = "ack" /\ join'[c].at = "none"
<1> USE DEF PagesInv
<1>0. page[c].view \in Nat /\ page[c].view <= version /\ version \in Nat
  BY DEF Pages!TypeOK, Pages!OrNone, Pages!Views, Client, HasShown, Pages!ConstantsOK
<1>1. page'[c].view # page[c].view
  BY <1>0
<1>2. ASSUME NEW d \in Clients, Pages!Answer(d) PROVE join[c].at = "ack" /\ join'[c].at = "none"
  <2>1. d = c
    BY <1>1, <1>2, Answered
  <2>. QED BY <1>2, <2>1 DEF Pages!Answer, Pages!NoJoin, Pages!TypeOK
<1>3. ASSUME NEW d \in Clients,
             \/ Pages!ConnectToGame(d) \/ Pages!Open(d) \/ Pages!ConnectError(d)
             \/ Pages!Drop(d) \/ Pages!Reconnect(d) \/ Pages!Leave(d)
             \/ Pages!EnterRoom(d) \/ Pages!StartClock(d) \/ Pages!MarkOnline(d)
             \/ Pages!ReadView(d) \/ Pages!MarkOffline(d)
      PROVE  FALSE
  <2>1. page'[c].view = page[c].view \/ page'[c].view = NoView
    BY <1>3 DEF Pages!ConnectToGame, Pages!Open, Pages!ConnectError, Pages!Drop, Pages!Reconnect, Pages!Leave, Pages!EnterRoom, Pages!StartClock, Pages!MarkOnline,
       Pages!ReadView, Pages!MarkOffline, Pages!Idle, Pages!TypeOK
  <2>. QED BY <1>1, <2>1
<1>4. ASSUME NEW d \in Clients, Pages!EmitPresence(d) \/ Pages!EmitAbsence(d) PROVE FALSE
  BY <1>1, <1>4, Telling DEF Pages!EmitPresence, Pages!EmitAbsence
<1>5. ASSUME Pages!OnStateChanged PROVE FALSE
  <2>1. page'[c].view = version \/ page'[c].view = page[c].view
    BY <1>5, Broadcasting DEF Pages!OnStateChanged
  <2>. QED BY <1>0, <2>1
<1>6. ASSUME Pages!Commit \/ UNCHANGED Pages!vars PROVE FALSE
  BY <1>1, <1>6 DEF Pages!Commit, Pages!vars
<1>. QED BY <1>2, <1>3, <1>4, <1>5, <1>6 DEF Pages!Next

(* Of the pages alone: only a page that is joining goes back. *)
THEOREM BackOnlyWhileJoining == ASSUME Pages!ConstantsOK PROVE Pages!Spec => Pages!BackOnlyByJoin
<1>1. PagesInv /\ [Pages!Next]_(Pages!vars) =>
        [\A c \in Clients :
           page'[c].view # NoView /\ page[c].view # NoView /\ page'[c].view < page[c].view
             => join[c].at = "ack" /\ join'[c].at = "none"]_(Pages!vars)
  BY BackStep
<1>. QED BY <1>1, PagesAlways, PTL DEF Pages!Spec, Pages!BackOnlyByJoin

(*****************************************************************************)
(* The client as a whole                                                   *)
(*****************************************************************************)

(* Beside the pages the board stands still, and the pages beside the board. *)
LEMMA BoardRuns == SidesSpec => BoardSpec
<1>1. Begin => InitBoard
  BY DEF Begin
<1>2. [Step]_<<part, turnVars, boardVars, pageVars>> => [NextBoard]_boardVars
  BY DEF Step, boardVars
<1>. QED BY <1>1, <1>2, PTL DEF SidesSpec, BoardSpec

LEMMA PagesRun == SidesSpec => Pages!Spec
<1>1. Begin => Pages!Init
  BY DEF Begin
<1>2. [Step]_<<part, turnVars, boardVars, pageVars>> => [Pages!Next]_(Pages!vars)
  BY DEF Step, pageVars, Pages!vars
<1>. QED BY <1>1, <1>2, PTL DEF SidesSpec, Pages!Spec

(*****************************************************************************)
(* However props, turns of the screen, images and frames interleave, one   *)
(* renderer at most is there or wanted, it stands as the screen does, and  *)
(* when nothing moves it shows the position and the dice that the          *)
(* component was last given.  The checkers that diffMoves lets glide make  *)
(* the next position out of the one that is shown.                         *)
(*****************************************************************************)
THEOREM TheBoardKeepsUp == SidesSpec => []BoardOK
<1>1. BoardInv /\ [NextBoard]_boardVars => BoardInv'
  BY BoardNext, SidesAssumption
<1>2. BoardInv => BoardOK
  BY BoardFollows, SidesAssumption
<1>. QED BY BoardInit, <1>1, <1>2, BoardRuns, PTL DEF BoardSpec

(*****************************************************************************)
(* A tap on the middle of a point, the bar or the tray, or on a checker of *)
(* a full stack, addresses that target, in every orientation and however   *)
(* the board is scaled: pointAt undoes what resize does to the stage.      *)
(*****************************************************************************)
THEOREM TapsHitAtEverySize == SidesSpec => []TapHits
<1>1. TapHits
  BY EverySize, SidesAssumption DEF TapHits, BoardConstantsOK
<1>. QED BY <1>1, PTL

(*****************************************************************************)
(* When nothing is under way, a page that plays shows the newest state,    *)
(* however joins, broadcasts, drops and reconnections interleaved, unless  *)
(* its connection broke in the middle of its join or the answer to its     *)
(* join was overtaken.                                                     *)
(*****************************************************************************)
THEOREM ClientShowsTheNewest == SidesSpec => []ShowsNewest
<1>1. Pages!ShowsNewest => ShowsNewest
  BY DEF ShowsNewest
<1>2. Pages!Spec => []Pages!ShowsNewest
  BY SidesAssumption, PagesShowTheNewest
<1>. QED BY <1>1, <1>2, PagesRun, PTL

(*****************************************************************************)
(* When nothing is under way all players in the room have been told the    *)
(* same list of who is online, and it is the one the server keeps; a       *)
(* player whose only connection has not broken in the middle of its join   *)
(* is online exactly while it lasts.                                       *)
(*****************************************************************************)
THEOREM ClientRosterAgrees == SidesSpec => []RosterOK
<1>1. Pages!RosterOK => RosterOK
  BY DEF RosterOK
<1>2. Pages!Spec => []Pages!RosterOK
  BY SidesAssumption, RosterAgrees
<1>. QED BY <1>1, <1>2, PagesRun, PTL

(*****************************************************************************)
(* A page goes back to an older state at most while it is still joining.   *)
(*****************************************************************************)
THEOREM ClientGoesBackOnlyByJoining == SidesSpec => BackOnlyByJoin
<1>1. Pages!Spec => Pages!BackOnlyByJoin
  BY SidesAssumption, BackOnlyWhileJoining
<1>. QED BY <1>1, PagesRun, PTL DEF BackOnlyByJoin
=============================================================================
