-------------------------- MODULE ProgressionProofs --------------------------
(***************************************************************************)
(* Proofs about Progression: what is recorded agrees with the games that   *)
(* were played, for any players and matches and however the transactions   *)
(* overlap.                                                                *)
(***************************************************************************)
EXTENDS Progression, FiniteSetTheorems, TLAPS

(***************************************************************************)
(* Sums over a finite set, as the folds of the community modules take them *)
(***************************************************************************)

(* The element that the folds of the community modules take next. *)
Pick(s) == CHOOSE x \in s : TRUE

(* It takes one of them. *)
LEMMA PickIs == ASSUME NEW s, s # {} PROVE Pick(s) \in s
  BY DEF Pick

(* Of any sets of elements of S one is least: it contains no other of them. *)
LEMMA LeastSet ==
  ASSUME NEW S, IsFiniteSet(S), NEW Sets \in SUBSET SUBSET S, Sets # {}
  PROVE  \E s \in Sets : \A r \in Sets : ~(r \subseteq s /\ r # s)
<1>. DEFINE R == StrictSubsetOrdering(S)
<1>1. IsWellFoundedOn(R, FiniteSubsetsOf(S))
  BY FS_StrictSubsetOrderingWellFounded
<1>2. Sets \subseteq FiniteSubsetsOf(S)
  BY FS_Subset DEF FiniteSubsetsOf
<1>3. PICK s \in Sets : \A r \in Sets : ~(<<r, s>> \in R)
  <2>. HIDE DEF R
  <2>. QED BY <1>1, <1>2, WFMin
<1>4. ASSUME NEW r \in Sets, r \subseteq s, r # s PROVE FALSE
  <2>1. <<r, s>> \in R
    BY <1>4 DEF StrictSubsetOrdering
  <2>. QED BY <1>3, <2>1
<1>. QED BY <1>4

(* it takes the elements of every subset of S one by one. *)
Folds(it, S, base, h) ==
  \A s \in SUBSET S : it[s] = IF s = {} THEN base ELSE h[<<s, it[s \ {Pick(s)}]>>]

(* There is only one way to do so. *)
LEMMA FoldsAgree ==
  ASSUME NEW S, IsFiniteSet(S), NEW base, NEW h, NEW it, NEW jt, Folds(it, S, base, h), Folds(jt, S, base, h)
  PROVE  \A s \in SUBSET S : it[s] = jt[s]
<1>. DEFINE Bad == {s \in SUBSET S : it[s] # jt[s]}
<1>1. SUFFICES ASSUME Bad # {} PROVE FALSE
  OBVIOUS
<1>2. PICK s \in Bad : \A r \in Bad : ~(r \subseteq s /\ r # s)
  <2>1. Bad \in SUBSET SUBSET S
    OBVIOUS
  <2>. HIDE DEF Bad
  <2>. QED BY <1>1, <2>1, LeastSet
<1>3. s \in SUBSET S /\ it[s] # jt[s]
  OBVIOUS
<1>4. s # {}
  BY <1>3 DEF Folds
<1>5. s \ {Pick(s)} \notin Bad /\ s \ {Pick(s)} \in SUBSET S
  BY <1>2, <1>3, <1>4, PickIs
<1>6. it[s \ {Pick(s)}] = jt[s \ {Pick(s)}]
  BY <1>5
<1>. QED BY <1>3, <1>4, <1>6 DEF Folds

(* Taking the elements of a subset of a subset is the same. *)
LEMMA FoldsDown ==
  ASSUME NEW S, NEW base, NEW h, NEW it, Folds(it, S, base, h), NEW T \in SUBSET S
  PROVE  Folds(it, T, base, h)
  BY DEF Folds

(* The recursion of the folds defines a function. *)
LEMMA FoldExists ==
  ASSUME NEW S, IsFiniteSet(S), NEW V, NEW base \in V, NEW h \in [(SUBSET S) \X V -> V]
  PROVE  \E it \in [SUBSET S -> V] : Folds(it, S, base, h)
<1>. DEFINE Has(T) == \E it \in [SUBSET T -> V] : Folds(it, T, base, h)
            Bad == {T \in SUBSET S : ~Has(T)}
<1>1. SUFFICES ASSUME Bad # {} PROVE FALSE
  OBVIOUS
<1>2. PICK T \in Bad : \A U \in Bad : ~(U \subseteq T /\ U # T)
  <2>1. Bad \in SUBSET SUBSET S
    OBVIOUS
  <2>. HIDE DEF Bad
  <2>. QED BY <1>1, <2>1, LeastSet
<1>3. T \in SUBSET S /\ ~Has(T) /\ (\A U \in SUBSET T : U # T => Has(U))
  <2>. HIDE DEF Has
  <2>. QED BY <1>2
<1>. DEFINE Of(U) == CHOOSE it : it \in [SUBSET U -> V] /\ Folds(it, U, base, h)
            Value(U) == Of(U)[U]
            W == [U \in SUBSET T |-> IF U # T THEN Value(U)
                                     ELSE IF T = {} THEN base ELSE h[<<T, Value(T \ {Pick(T)})>>]]
<1>4. ASSUME NEW U \in SUBSET T, U # T
      PROVE  Of(U) \in [SUBSET U -> V] /\ Folds(Of(U), U, base, h) /\ Value(U) \in V
  <2>1. \E it : it \in [SUBSET U -> V] /\ Folds(it, U, base, h)
    BY <1>3, <1>4
  <2>2. Of(U) \in [SUBSET U -> V] /\ Folds(Of(U), U, base, h)
    BY <2>1
  <2>. HIDE DEF Of
  <2>. QED BY <2>2
<1>. HIDE DEF Of
<1>5. ASSUME NEW U \in SUBSET T, U # T, U # {}
      PROVE  Value(U) = h[<<U, Value(U \ {Pick(U)})>>]
  <2>. DEFINE X == U \ {Pick(U)}
  <2>1. X \in SUBSET U /\ X # T /\ IsFiniteSet(X)
    BY <1>3, <1>5, PickIs, FS_Subset
  <2>2. Folds(Of(U), X, base, h) /\ Folds(Of(X), X, base, h)
    BY <1>4, <1>5, <2>1, FoldsDown
  <2>3. Of(U)[X] = Of(X)[X]
    BY <2>1, <2>2, FoldsAgree
  <2>4. Of(U)[U] = h[<<U, Of(U)[X]>>]
    BY <1>4, <1>5 DEF Folds
  <2>. QED BY <2>3, <2>4
<1>6. Value({}) = base \/ T = {}
  <2>1. T # {} => Folds(Of({}), {}, base, h)
    BY <1>4
  <2>. QED BY <2>1 DEF Folds
<1>7. T # {} => T \ {Pick(T)} \in SUBSET T /\ T \ {Pick(T)} # T
  BY PickIs
<1>. HIDE DEF Value
<1>8. W \in [SUBSET T -> V]
  <2>1. ASSUME NEW U \in SUBSET T PROVE W[U] \in V
    <3>1. CASE U # T
      BY <1>4, <3>1
    <3>2. CASE U = T /\ T # {}
      BY <1>3, <1>4, <1>7, <3>2
    <3>3. CASE U = T /\ T = {}
      BY <3>3
    <3>. QED BY <3>1, <3>2, <3>3
  <2>. QED BY <2>1
<1>9. Folds(W, T, base, h)
  <2>. SUFFICES ASSUME NEW U \in SUBSET T
                PROVE  W[U] = IF U = {} THEN base ELSE h[<<U, W[U \ {Pick(U)}]>>]
    BY DEF Folds
  <2>1. CASE U = T
    BY <1>7, <2>1
  <2>2. CASE U # T /\ U = {}
    BY <1>6, <2>2
  <2>3. CASE U # T /\ U # {}
    <3>1. U \ {Pick(U)} \in SUBSET T /\ U \ {Pick(U)} # T
      BY <2>3, PickIs
    <3>2. W[U \ {Pick(U)}] = Value(U \ {Pick(U)})
      BY <3>1
    <3>. QED BY <1>5, <2>3, <3>2
  <2>. QED BY <2>1, <2>2, <2>3
<1>. QED BY <1>3, <1>8, <1>9

(* it sums g up over the subsets of S. *)
Sums(it, S, g) ==
  /\ it \in [SUBSET S -> Int]
  /\ \A s \in SUBSET S : it[s] = IF s = {} THEN 0 ELSE g[Pick(s)] + it[s \ {Pick(s)}]

(* Integers over a finite set have a sum. *)
LEMMA SumExists ==
  ASSUME NEW S, IsFiniteSet(S), NEW g \in [S -> Int]
  PROVE  \E it : Sums(it, S, g)
<1>. DEFINE h == [p \in (SUBSET S) \X Int |-> IF p[1] = {} THEN 0 ELSE g[Pick(p[1])] + p[2]]
<1>1. ASSUME NEW s \in SUBSET S, s # {} PROVE g[Pick(s)] \in Int
  BY <1>1, PickIs
<1>2. h \in [(SUBSET S) \X Int -> Int]
  BY <1>1
<1>3. \A s \in SUBSET S, v \in Int : h[<<s, v>>] = IF s = {} THEN 0 ELSE g[Pick(s)] + v
  OBVIOUS
<1>4. PICK it \in [SUBSET S -> Int] : Folds(it, S, 0, h)
  <2>1. 0 \in Int
    OBVIOUS
  <2>. HIDE DEF h
  <2>. QED BY <1>2, <2>1, FoldExists
<1>5. ASSUME NEW s \in SUBSET S
      PROVE  it[s] = IF s = {} THEN 0 ELSE g[Pick(s)] + it[s \ {Pick(s)}]
  <2>1. s \ {Pick(s)} \in SUBSET S
    OBVIOUS
  <2>2. it[s \ {Pick(s)}] \in Int
    BY <2>1
  <2>. HIDE DEF h
  <2>. QED BY <1>3, <1>4, <2>2 DEF Folds
<1>. QED BY <1>4, <1>5 DEF Sums

(* The sum of the community modules is such a sum. *)
LEMMA SumIs ==
  ASSUME NEW S, IsFiniteSet(S), NEW g \in [S -> Int]
  PROVE  \E it : Sums(it, S, g) /\ SumFunctionOnSet(g, S) = it[S]
<1>. DEFINE P(it) == it = [s \in SUBSET S |-> IF s = {} THEN 0
                                              ELSE g[CHOOSE x \in s : TRUE]
                                                     + it[s \ {CHOOSE x \in s : TRUE}]]
            sum == CHOOSE it : P(it)
<1>1. PICK it : Sums(it, S, g)
  BY SumExists
<1>2. P(it)
  <2>1. ASSUME NEW s \in SUBSET S
        PROVE  it[s] = IF s = {} THEN 0
                       ELSE g[CHOOSE x \in s : TRUE] + it[s \ {CHOOSE x \in s : TRUE}]
    BY <1>1, PickIs DEF Sums, Pick
  <2>. QED BY <1>1, <2>1 DEF Sums
<1>3. P(sum)
  <2>. HIDE DEF P
  <2>. QED BY <1>2
<1>4. SumFunctionOnSet(g, S) = sum[S]
  BY DEF SumFunctionOnSet, FoldFunctionOnSet, MapThenFoldSet
<1>5. Sums(sum, S, g)
  <2>1. ASSUME NEW s \in SUBSET S
        PROVE  sum[s] = IF s = {} THEN 0 ELSE g[Pick(s)] + sum[s \ {Pick(s)}]
    <3>. HIDE DEF sum
    <3>. QED BY <1>3 DEF Pick
  <2>2. sum = [s \in SUBSET S |-> sum[s]]
    <3>. HIDE DEF sum
    <3>. QED BY <1>3
  <2>3. \A s \in SUBSET S : sum[s] = it[s]
    <3>. DEFINE Bad == {s \in SUBSET S : sum[s] # it[s]}
    <3>1. SUFFICES ASSUME Bad # {} PROVE FALSE
      OBVIOUS
    <3>2. PICK s \in Bad : \A r \in Bad : ~(r \subseteq s /\ r # s)
      <4>1. Bad \in SUBSET SUBSET S
        OBVIOUS
      <4>. HIDE DEF Bad
      <4>. QED BY <3>1, <4>1, LeastSet
    <3>. HIDE DEF sum, P
    <3>3. s \in SUBSET S /\ sum[s] # it[s]
      OBVIOUS
    <3>4. s # {}
      BY <1>1, <2>1, <3>3 DEF Sums
    <3>5. s \ {Pick(s)} \notin Bad /\ s \ {Pick(s)} \in SUBSET S
      BY <3>2, <3>3, <3>4, PickIs
    <3>6. sum[s \ {Pick(s)}] = it[s \ {Pick(s)}]
      BY <3>5
    <3>. QED BY <1>1, <2>1, <3>3, <3>4, <3>6 DEF Sums
  <2>. HIDE DEF sum, P
  <2>4. sum = it
    <3>1. it = [s \in SUBSET S |-> it[s]]
      BY <1>1 DEF Sums
    <3>. QED BY <2>2, <2>3, <3>1
  <2>. QED BY <1>1, <2>4
<1>. HIDE DEF sum, P
<1>. QED BY <1>4, <1>5

(* Where one summand grows, so does the sum. *)
LEMMA SumGrows ==
  ASSUME NEW S, IsFiniteSet(S), NEW g, NEW f, NEW it, NEW jt, Sums(it, S, g), Sums(jt, S, f),
         g \in [S -> Int], f \in [S -> Int],
         NEW m \in S, NEW more \in Int, f[m] = g[m] + more, \A k \in S \ {m} : f[k] = g[k]
  PROVE  jt[S] = it[S] + more
<1>. DEFINE Bad == {s \in SUBSET S : jt[s] # it[s] + (IF m \in s THEN more ELSE 0)}
<1>1. ASSUME Bad # {} PROVE FALSE
  <2>1. PICK s \in Bad : \A r \in Bad : ~(r \subseteq s /\ r # s)
    <3>1. Bad \in SUBSET SUBSET S
      OBVIOUS
    <3>. HIDE DEF Bad
    <3>. QED BY <1>1, <3>1, LeastSet
  <2>2. s \in SUBSET S /\ jt[s] # it[s] + (IF m \in s THEN more ELSE 0)
    OBVIOUS
  <2>3. s # {}
    <3>1. it[{}] = 0 /\ jt[{}] = 0
      BY DEF Sums
    <3>2. s = {} => jt[s] = it[s] + (IF m \in s THEN more ELSE 0)
      BY <3>1
    <3>. HIDE DEF Bad
    <3>. QED BY <2>2, <3>2
  <2>4. s \ {Pick(s)} \notin Bad /\ s \ {Pick(s)} \in SUBSET S /\ Pick(s) \in s
    BY <2>1, <2>2, <2>3, PickIs
  <2>5. jt[s \ {Pick(s)}] = it[s \ {Pick(s)}] + (IF m \in s \ {Pick(s)} THEN more ELSE 0)
    BY <2>4
  <2>6. /\ it[s] = g[Pick(s)] + it[s \ {Pick(s)}]
        /\ jt[s] = f[Pick(s)] + jt[s \ {Pick(s)}]
    BY <2>2, <2>3 DEF Sums
  <2>7. /\ it[s \ {Pick(s)}] \in Int /\ g[Pick(s)] \in Int
        /\ it[s] \in Int /\ jt[s] \in Int
    BY <2>2, <2>4 DEF Sums
  <2>8. CASE Pick(s) = m
    <3>1. f[Pick(s)] = g[Pick(s)] + more /\ m \in s /\ m \notin s \ {Pick(s)}
      BY <2>4, <2>8
    <3>. HIDE DEF Bad
    <3>. QED BY <2>2, <2>5, <2>6, <2>7, <3>1
  <2>9. CASE Pick(s) # m
    <3>1. f[Pick(s)] = g[Pick(s)] /\ (m \in s <=> m \in s \ {Pick(s)})
      BY <2>2, <2>4, <2>9
    <3>. HIDE DEF Bad
    <3>. QED BY <2>2, <2>5, <2>6, <2>7, <3>1
  <2>. QED BY <2>8, <2>9
<1>2. S \notin Bad
  BY <1>1
<1>. QED BY <1>2

(* A sum of nothing is nothing. *)
LEMMA SumOfNothing ==
  ASSUME NEW S, IsFiniteSet(S), NEW g \in [S -> Int], \A m \in S : g[m] = 0
  PROVE  SumFunctionOnSet(g, S) = 0
<1>1. PICK it : Sums(it, S, g) /\ SumFunctionOnSet(g, S) = it[S]
  BY SumIs
<1>. DEFINE Bad == {s \in SUBSET S : it[s] # 0}
<1>3. ASSUME Bad # {} PROVE FALSE
  <2>1. PICK s \in Bad : \A r \in Bad : ~(r \subseteq s /\ r # s)
    <3>1. Bad \in SUBSET SUBSET S
      OBVIOUS
    <3>. HIDE DEF Bad
    <3>. QED BY <1>3, <3>1, LeastSet
  <2>2. s \in SUBSET S /\ s # {}
    BY <1>1 DEF Sums
  <2>3. it[s] = g[Pick(s)] + it[s \ {Pick(s)}] /\ Pick(s) \in s
    BY <1>1, <2>2, PickIs DEF Sums
  <2>4. it[s \ {Pick(s)}] = 0
    BY <2>1, <2>2, <2>3
  <2>5. it[s] # 0 /\ g[Pick(s)] = 0
    BY <2>2, <2>3
  <2>. QED BY <2>3, <2>4, <2>5
<1>. QED BY <1>1, <1>3

(***************************************************************************)
(* The inductive invariant                                                 *)
(***************************************************************************)

States == {"playing", "read", "stats", "rating", "commit", "committed", "aborted"}
Before == [elo : Int, peak : Int, streak : Nat, best : Nat]
StatsRow == [games : Nat, wins : Nat, losses : Nat, streak : Nat, best : Nat]
RatingRow == [elo : Int, peak : Int, rated : Nat]
Transaction ==
  [at : States, seat : {1, 2}, winner : Users \union {NoUser},
   before : Seq(Before), stats : Seq(StatsRow), rating : Seq(RatingRow)]

Shape ==
  /\ stats \in [Users -> StatsRow]
  /\ rating \in [Users -> RatingRow]
  /\ locks \in [Tables -> [Users -> Matches \union {NoUser}]]
  /\ tx \in [Matches -> Transaction]
  /\ delta \in [Matches -> [Users -> Int]]
  /\ overlap \in BOOLEAN

(* How many players of m are read, and have new rows, so far. *)
Read(m) ==
  IF At(m, "read") THEN tx[m].seat - 1
  ELSE IF tx[m].at \in {"stats", "rating", "commit"} THEN Len(Seats[m]) ELSE 0
Updated(m) ==
  IF At(m, "stats") THEN tx[m].seat - 1
  ELSE IF At(m, "rating") THEN tx[m].seat
  ELSE IF At(m, "commit") THEN Len(Seats[m]) ELSE 0
Rerated(m) ==
  IF m \notin Ranked THEN 0
  ELSE IF At(m, "stats") \/ At(m, "rating") THEN tx[m].seat - 1
  ELSE IF At(m, "commit") THEN Len(Seats[m]) ELSE 0

(* A transaction holds what it has read and what it is going to write. *)
Ordered(m) ==
  /\ tx[m].seat <= Len(Seats[m])
  /\ tx[m].at \in {"playing", "commit", "committed", "aborted"} => tx[m].seat = 1
  /\ At(m, "rating") => m \in Ranked
  /\ IF At(m, "playing") \/ At(m, "aborted") THEN tx[m].winner = NoUser ELSE tx[m].winner \in Winners(m)
  /\ Len(tx[m].before) = Read(m)
  /\ Len(tx[m].stats) = Updated(m)
  /\ Len(tx[m].rating) = Rerated(m)

(* It has locked the rows it is going to write, and no others. *)
Holds(m) ==
  \A u \in Users :
    /\ locks["stats"][u] = m <=> \E i \in 1..Updated(m) : Seats[m][i] = u
    /\ locks["rating"][u] = m <=> \E i \in 1..Rerated(m) : Seats[m][i] = u

(* The counters it is going to write are the present ones and one more. *)
Counts(m) ==
  /\ \A i \in 1..Updated(m) :
       LET new == tx[m].stats[i]
           old == stats[Seats[m][i]]
           won == IF tx[m].winner = Seats[m][i] THEN 1 ELSE 0
       IN /\ new.games = old.games + 1 /\ new.wins = old.wins + won
          /\ new.losses = old.losses + 1 - won /\ new.best >= new.streak
  /\ \A i \in 1..Rerated(m) :
       LET new == tx[m].rating[i] IN
         new.rated = rating[Seats[m][i]].rated + 1 /\ new.peak >= new.elo

(* Without overlapping transactions what it has read is still so. *)
Current(m) ==
  ~overlap => \A i \in 1..Read(m) : tx[m].before[i].elo = rating[Seats[m][i]].elo

Apart ==
  ~overlap => \A m, o \in Matches :
    m # o /\ Active(m) /\ Active(o) => Players(m) \intersect Players(o) = {}

Unchanged == \A m \in Matches : ~At(m, "committed") => \A u \in Users : delta[m][u] = 0

Best == \A u \in Users : rating[u].peak >= rating[u].elo /\ stats[u].best >= stats[u].streak

RecordInv ==
  /\ Shape
  /\ \A m \in Matches : Ordered(m) /\ Holds(m) /\ Counts(m) /\ Current(m)
  /\ Apart /\ Unchanged /\ Best
  /\ GamesCounted /\ RatingsAddUp /\ AbortNeedsExchangedSeats

(***************************************************************************)
(* Seats and transactions                                                  *)
(***************************************************************************)

LEMMA Sized ==
  ASSUME ConstantsOK, NEW m \in Matches
  PROVE  /\ Len(Seats[m]) \in {1, 2} /\ DOMAIN Seats[m] = 1..Len(Seats[m])
         /\ \A i \in 1..Len(Seats[m]) : Seats[m][i] \in Users
         /\ \A i, j \in 1..Len(Seats[m]) : Seats[m][i] = Seats[m][j] => i = j
<1>1. Seats[m] \in Seq(Users)
  BY DEF ConstantsOK
<1>2. Len(Seats[m]) \in {1, 2}
  BY DEF ConstantsOK
<1>3. DOMAIN Seats[m] = 1..Len(Seats[m]) /\ \A i \in 1..Len(Seats[m]) : Seats[m][i] \in Users
  BY <1>1
<1>4. Len(Seats[m]) = 2 => Seats[m][1] # Seats[m][2]
  BY DEF ConstantsOK
<1>5. ASSUME NEW i \in 1..Len(Seats[m]), NEW j \in 1..Len(Seats[m]), Seats[m][i] = Seats[m][j]
      PROVE  i = j
  BY <1>2, <1>4, <1>5
<1>. QED BY <1>2, <1>3, <1>5

(* After the first seat comes the second, if there is one. *)
LEMMA SeatNumbers ==
  ASSUME NEW n \in {1, 2}, NEW s \in 1..n
  PROVE  s \in {1, 2} /\ (s < n => s + 1 = 2)
  OBVIOUS

(* The players of a match are the users in its seats. *)
LEMMA PlayersAre ==
  ASSUME ConstantsOK, NEW m \in Matches
  PROVE  /\ Players(m) = {Seats[m][i] : i \in 1..Len(Seats[m])}
         /\ Players(m) \subseteq Users
  BY Sized DEF Players

(* A row that nobody has locked is told from one that a match has. *)
LEMMA NoMatchIsNoUser == ASSUME ConstantsOK PROVE NoUser \notin Matches /\ NoUser \notin Users
  BY DEF ConstantsOK

(* Whose turn it is, and what comes next. *)
LEMMA Turn ==
  ASSUME ConstantsOK, RecordInv, NEW m \in Matches
  PROVE  /\ tx[m] \in Transaction
         /\ tx[m].seat \in 1..Len(Seats[m]) /\ Player(m) \in Users /\ Player(m) = Seats[m][tx[m].seat]
         /\ Player(m) \in Players(m)
<1>1. tx[m] \in Transaction /\ tx[m].seat \in {1, 2} /\ tx[m].seat <= Len(Seats[m])
  BY DEF RecordInv, Shape, Ordered, Transaction
<1>2. tx[m].seat \in 1..Len(Seats[m])
  BY <1>1, Sized
<1>. QED BY <1>1, <1>2, Sized DEF Player, Players

(* What does not concern the transactions of other matches, and commits
   nothing, leaves everything recorded as it is. *)
LEMMA Quiet ==
  ASSUME ConstantsOK, RecordInv, NEW m \in Matches, UNCHANGED <<stats, rating, delta>>,
         \A k \in Matches \ {m} : tx'[k] = tx[k],
         ~At(m, "committed"), ~At(m, "committed")', overlap => overlap'
  PROVE  /\ \A k \in Matches \ {m} : Ordered(k)' /\ Counts(k)' /\ Current(k)'
         /\ Unchanged' /\ Best' /\ GamesCounted' /\ RatingsAddUp'
<1>1. ASSUME NEW k \in Matches \ {m} PROVE Ordered(k)' /\ Counts(k)' /\ Current(k)'
  <2>0. tx'[k] = tx[k] /\ k \in Matches
    OBVIOUS
  <2>1. Read(k)' = Read(k) /\ Updated(k)' = Updated(k) /\ Rerated(k)' = Rerated(k)
    BY <2>0 DEF Read, Updated, Rerated, At
  <2>2. Ordered(k)'
    BY <2>0, <2>1 DEF RecordInv, Ordered, At, Winners, Players
  <2>3. Counts(k)'
    BY <2>0, <2>1 DEF RecordInv, Counts
  <2>4. Current(k)'
    BY <2>0, <2>1 DEF RecordInv, Current
  <2>. QED BY <2>2, <2>3, <2>4
<1>2. Unchanged'
  BY DEF RecordInv, Unchanged, At
<1>3. Best'
  BY DEF RecordInv, Best
<1>4. ASSUME NEW u \in Users PROVE Committed(u)' = Committed(u) /\ Won(u)' = Won(u)
  <2>1. \A k \in Matches : tx'[k].at = "committed" <=> tx[k].at = "committed"
    BY DEF At
  <2>2. Committed(u)' = Committed(u)
    BY <2>1 DEF Committed, Players
  <2>3. \A k \in Committed(u) : tx'[k] = tx[k]
    BY DEF Committed, At
  <2>. QED BY <2>2, <2>3 DEF Won
<1>5. GamesCounted'
  BY <1>4 DEF RecordInv, GamesCounted
<1>6. RatingsAddUp'
  <2>1. RatingsAddUp
    BY DEF RecordInv
  <2>. QED BY <2>1 DEF RatingsAddUp
<1>. QED BY <1>1, <1>2, <1>3, <1>5, <1>6

(* It has no part in which transactions are active. *)
LEMMA StaysApart ==
  ASSUME RecordInv, NEW m \in Matches, Active(m), \A k \in Matches \ {m} : tx'[k] = tx[k],
         overlap => overlap'
  PROVE  Apart'
<1>1. \A k \in Matches : Active(k)' => Active(k)
  BY DEF Active
<1>. QED BY <1>1 DEF RecordInv, Apart, Players

(* A step of m that does not abort it leaves the aborted matches as they are. *)
LEMMA AbortsStay ==
  ASSUME RecordInv, NEW m \in Matches, \A k \in Matches \ {m} : tx'[k] = tx[k], ~At(m, "aborted")'
  PROVE  AbortNeedsExchangedSeats'
  BY DEF RecordInv, AbortNeedsExchangedSeats, SitsBefore, At

(***************************************************************************)
(* The steps of a transaction                                              *)
(***************************************************************************)

LEMMA RecordsInit == ASSUME ConstantsOK, Init PROVE RecordInv
<1>1. Shape
  <2>1. Fresh \in Transaction
    <3>1. << >> \in Seq(Before) /\ << >> \in Seq(StatsRow) /\ << >> \in Seq(RatingRow)
      OBVIOUS
    <3>. QED BY <3>1 DEF Fresh, Transaction, States
  <2>2. tx \in [Matches -> Transaction] /\ overlap \in BOOLEAN
    BY <2>1 DEF Init
  <2>3. stats \in [Users -> StatsRow] /\ rating \in [Users -> RatingRow]
    BY DEF Init, StatsRow, RatingRow, Start
  <2>4. delta \in [Matches -> [Users -> Int]]
    BY DEF Init
  <2>5. locks \in [Tables -> [Users -> Matches \union {NoUser}]]
    BY DEF Init
  <2>. QED BY <2>2, <2>3, <2>4, <2>5 DEF Shape
<1>2. ASSUME NEW m \in Matches PROVE Ordered(m) /\ Holds(m) /\ Counts(m) /\ Current(m)
  <2>1. tx[m] = Fresh /\ At(m, "playing")
    BY DEF Init, At, Fresh
  <2>2. Read(m) = 0 /\ Updated(m) = 0 /\ Rerated(m) = 0
    BY <2>1 DEF Read, Updated, Rerated, At, Fresh
  <2>3. Ordered(m)
    BY <2>1, <2>2, Sized DEF Ordered, At, Fresh
  <2>4. Holds(m)
    BY <2>2, NoMatchIsNoUser DEF Init, Holds, Tables
  <2>. QED BY <2>2, <2>3, <2>4 DEF Counts, Current
<1>3. Apart /\ AbortNeedsExchangedSeats
  BY DEF Init, Apart, Active, Fresh, AbortNeedsExchangedSeats
<1>4. Unchanged /\ Best
  BY DEF Init, Unchanged, Best, Start
<1>5. GamesCounted
  <2>1. \A u \in Users : Committed(u) = {} /\ Won(u) = {}
    BY DEF Init, Committed, Won, Fresh
  <2>. QED BY <2>1, FS_EmptySet DEF Init, GamesCounted
<1>6. RatingsAddUp
  <2>. SUFFICES ASSUME NEW u \in Users
                PROVE  rating[u].elo = Start + SumFunctionOnSet([m \in Matches |-> delta[m][u]], Matches)
    BY DEF RatingsAddUp
  <2>. DEFINE g == [m \in Matches |-> delta[m][u]]
  <2>1. g \in [Matches -> Int] /\ \A m \in Matches : g[m] = 0
    BY DEF Init
  <2>2. SumFunctionOnSet(g, Matches) = 0
    <3>. HIDE DEF g
    <3>. QED BY <2>1, SumOfNothing DEF ConstantsOK
  <2>3. rating[u].elo = Start /\ Start \in Int
    BY DEF Init, Start
  <2>. HIDE DEF g
  <2>4. rating[u].elo = Start + SumFunctionOnSet(g, Matches)
    BY <2>2, <2>3
  <2>. QED BY <2>4 DEF g
<1>. QED BY <1>1, <1>2, <1>3, <1>4, <1>5, <1>6 DEF RecordInv

(* persistFinished opens its transaction. *)
LEMMA BeginKeeps ==
  ASSUME ConstantsOK, RecordInv, NEW m \in Matches, Begin(m)
  PROVE  RecordInv'
<1>1. PICK w \in Winners(m) : tx' = [tx EXCEPT ![m].at = "read", ![m].winner = w]
  BY DEF Begin
<1>2. tx[m] \in Transaction /\ tx[m].at = "playing" /\ tx[m].seat = 1
  BY DEF Begin, RecordInv, Shape, Ordered, At
<1>3. w \in Users \union {NoUser}
  BY PlayersAre DEF Winners
<1>4. /\ tx'[m] = [tx[m] EXCEPT !.at = "read", !.winner = w]
      /\ \A k \in Matches \ {m} : tx'[k] = tx[k]
      /\ tx' \in [Matches -> Transaction]
  BY <1>1, <1>2, <1>3 DEF RecordInv, Shape, Transaction, States
<1>5. tx'[m].at = "read" /\ tx'[m].winner = w /\ tx'[m].seat = 1
        /\ tx'[m].before = tx[m].before /\ tx'[m].stats = tx[m].stats /\ tx'[m].rating = tx[m].rating
  BY <1>2, <1>4 DEF Transaction
<1>6. UNCHANGED <<stats, rating, locks, delta>>
        /\ overlap' = (overlap \/ \E o \in Matches : Active(o) /\ Players(o) \intersect Players(m) # {})
  BY DEF Begin
<1>7. Shape'
  BY <1>4, <1>6 DEF RecordInv, Shape
<1>8. ~At(m, "committed") /\ ~At(m, "committed")' /\ ~At(m, "aborted")' /\ (overlap => overlap')
  BY <1>2, <1>5, <1>6 DEF At
<1>9. /\ \A k \in Matches \ {m} : Ordered(k)' /\ Counts(k)' /\ Current(k)'
      /\ Unchanged' /\ Best' /\ GamesCounted' /\ RatingsAddUp' /\ AbortNeedsExchangedSeats'
  BY <1>4, <1>6, <1>8, Quiet, AbortsStay
<1>10. /\ Read(m) = 0 /\ Updated(m) = 0 /\ Rerated(m) = 0
       /\ Read(m)' = 0 /\ Updated(m)' = 0 /\ Rerated(m)' = 0
  BY <1>2, <1>5 DEF Read, Updated, Rerated, At
<1>11. Ordered(m)' /\ Counts(m)' /\ Current(m)'
  <2>1. Ordered(m)'
    BY <1>2, <1>5, <1>10 DEF RecordInv, Ordered, At, Winners, Players
  <2>. QED BY <1>10, <2>1 DEF Counts, Current
<1>12. ASSUME NEW k \in Matches PROVE Holds(k)'
  <2>1. Updated(k)' = Updated(k) /\ Rerated(k)' = Rerated(k)
    BY <1>4, <1>10 DEF Updated, Rerated, At
  <2>. QED BY <1>6, <2>1 DEF RecordInv, Holds
<1>13. Apart'
  <2>. SUFFICES ASSUME ~overlap', NEW k \in Matches, NEW o \in Matches, k # o, Active(k)', Active(o)'
                PROVE  Players(k) \intersect Players(o) = {}
    BY DEF Apart, Players
  <2>1. \A j \in Matches : Active(j)' => Active(j) \/ j = m
    BY <1>4 DEF Active
  <2>. QED BY <1>6, <2>1 DEF RecordInv, Apart
<1>. QED BY <1>7, <1>9, <1>11, <1>12, <1>13 DEF RecordInv

(* The query of applyGameResult reads the present values of one player. *)
LEMMA SnapshotKeeps ==
  ASSUME ConstantsOK, RecordInv, NEW m \in Matches, Snapshot(m)
  PROVE  RecordInv'
<1>. DEFINE u == Player(m)
            seen == [elo |-> rating[u].elo, peak |-> rating[u].peak,
                     streak |-> stats[u].streak, best |-> stats[u].best]
            next == NextSeat(m, "read", "stats")
<1>1. tx' = [tx EXCEPT ![m].before = Append(@, seen), ![m].at = next.at, ![m].seat = next.seat]
  BY DEF Snapshot
<1>2. /\ tx[m] \in Transaction /\ tx[m].at = "read" /\ tx[m].seat \in 1..Len(Seats[m])
      /\ u \in Users /\ u = Seats[m][tx[m].seat]
  BY Turn DEF Snapshot, At
<1>3. Len(Seats[m]) \in {1, 2}
  BY Sized
<1>4. seen \in Before
  BY <1>2 DEF RecordInv, Shape, Before, StatsRow, RatingRow
<1>5. IF tx[m].seat < Len(Seats[m]) THEN next.at = "read" /\ next.seat = tx[m].seat + 1
                                    ELSE next.at = "stats" /\ next.seat = 1
  BY DEF NextSeat
<1>. HIDE DEF seen, next, u
<1>6. next.at \in States /\ next.seat \in {1, 2}
  <2>1. tx[m].seat \in {1, 2} /\ (tx[m].seat < Len(Seats[m]) => tx[m].seat + 1 = 2)
    BY <1>2, <1>3, SeatNumbers
  <2>2. CASE tx[m].seat < Len(Seats[m])
    BY <1>5, <2>1, <2>2 DEF States
  <2>3. CASE ~(tx[m].seat < Len(Seats[m]))
    BY <1>5, <2>3 DEF States
  <2>. QED BY <2>2, <2>3
<1>7. Append(tx[m].before, seen) \in Seq(Before)
  BY <1>2, <1>4 DEF Transaction
<1>8. /\ tx'[m] = [tx[m] EXCEPT !.before = Append(@, seen), !.at = next.at, !.seat = next.seat]
      /\ \A k \in Matches \ {m} : tx'[k] = tx[k]
      /\ DOMAIN tx' = Matches /\ tx' = [k \in Matches |-> tx'[k]]
  BY <1>1 DEF RecordInv, Shape
<1>9. /\ tx'[m].at = next.at /\ tx'[m].winner = tx[m].winner /\ tx'[m].seat = next.seat
      /\ tx'[m].before = Append(tx[m].before, seen)
      /\ tx'[m].stats = tx[m].stats /\ tx'[m].rating = tx[m].rating
      /\ tx'[m] \in Transaction
  BY <1>2, <1>6, <1>7, <1>8 DEF Transaction
<1>10. UNCHANGED <<stats, rating, locks, delta, overlap>>
  BY DEF Snapshot
<1>11. Shape'
  <2>1. tx' \in [Matches -> Transaction]
    BY <1>8, <1>9 DEF RecordInv, Shape
  <2>. QED BY <1>10, <2>1 DEF RecordInv, Shape
<1>12. ~At(m, "committed") /\ ~At(m, "committed")' /\ ~At(m, "aborted")' /\ Active(m)
  BY <1>2, <1>5, <1>9 DEF At, Active
<1>13. /\ \A k \in Matches \ {m} : Ordered(k)' /\ Counts(k)' /\ Current(k)'
       /\ Unchanged' /\ Best' /\ GamesCounted' /\ RatingsAddUp' /\ AbortNeedsExchangedSeats' /\ Apart'
  BY <1>8, <1>10, <1>12, Quiet, AbortsStay, StaysApart
<1>14. /\ Read(m) = tx[m].seat - 1 /\ Updated(m) = 0 /\ Rerated(m) = 0
       /\ Read(m)' = tx[m].seat /\ Updated(m)' = 0 /\ Rerated(m)' = 0
  BY <1>2, <1>3, <1>5, <1>9 DEF Read, Updated, Rerated, At
<1>15. Ordered(m)
  BY DEF RecordInv
<1>16. Len(tx'[m].before) = Read(m)'
  BY <1>2, <1>9, <1>14, <1>15 DEF Ordered, Transaction
<1>17. Ordered(m)'
  BY <1>2, <1>3, <1>5, <1>9, <1>14, <1>15, <1>16 DEF Ordered, At, Winners, Players
<1>18. Current(m)'
  <2>. SUFFICES ASSUME ~overlap, NEW i \in 1..tx[m].seat
                PROVE  tx'[m].before[i].elo = rating[Seats[m][i]].elo
    BY <1>10, <1>14 DEF Current
  <2>1. Len(tx[m].before) = tx[m].seat - 1 /\ tx[m].before \in Seq(Before)
    BY <1>2, <1>14, <1>15 DEF Ordered, Transaction
  <2>2. CASE i = tx[m].seat
    <3>1. tx'[m].before[i] = seen
      BY <1>2, <1>3, <1>9, <2>1, <2>2
    <3>. QED BY <1>2, <2>2, <3>1 DEF seen
  <2>3. CASE i # tx[m].seat
    <3>1. i \in 1..Read(m) /\ tx'[m].before[i] = tx[m].before[i]
      BY <1>2, <1>3, <1>9, <1>14, <2>1, <2>3
    <3>. QED BY <3>1 DEF RecordInv, Current
  <2>. QED BY <2>2, <2>3
<1>19. Counts(m)'
  BY <1>14 DEF Counts
<1>20. ASSUME NEW k \in Matches PROVE Holds(k)'
  <2>1. Updated(k)' = Updated(k) /\ Rerated(k)' = Rerated(k)
    BY <1>8, <1>14 DEF Updated, Rerated, At
  <2>. QED BY <1>10, <2>1 DEF RecordInv, Holds
<1>. QED BY <1>11, <1>13, <1>17, <1>18, <1>19, <1>20 DEF RecordInv

(* What the lock of one more row does: everybody else holds what it held. *)
LEMMA LockKeeps ==
  ASSUME ConstantsOK, RecordInv, NEW m \in Matches, NEW table \in Tables,
         Free(table, m), Lock(table, m)
  PROVE  /\ locks' \in [Tables -> [Users -> Matches \union {NoUser}]]
         /\ \A t \in Tables, u \in Users :
              locks'[t][u] = IF t = table /\ u = Player(m) THEN m ELSE locks[t][u]
         /\ \A k \in Matches \ {m}, t \in Tables, u \in Users : locks'[t][u] = k <=> locks[t][u] = k
<1>1. Player(m) \in Users
  BY Turn
<1>2. locks \in [Tables -> [Users -> Matches \union {NoUser}]]
  BY DEF RecordInv, Shape
<1>3. locks' = [locks EXCEPT ![table][Player(m)] = m]
  BY DEF Lock
<1>4. \A t \in Tables, u \in Users :
        locks'[t][u] = IF t = table /\ u = Player(m) THEN m ELSE locks[t][u]
  BY <1>1, <1>2, <1>3
<1>5. locks' \in [Tables -> [Users -> Matches \union {NoUser}]]
  BY <1>1, <1>2, <1>3
<1>6. locks[table][Player(m)] \in {NoUser, m}
  BY DEF Free
<1>. QED BY <1>4, <1>5, <1>6, NoMatchIsNoUser

(* Who locks and releases rows of its own leaves the locks of the others alone. *)
LEMMA OthersHold ==
  ASSUME RecordInv, NEW k \in Matches, tx'[k] = tx[k],
         \A t \in Tables, u \in Users : locks'[t][u] = k <=> locks[t][u] = k
  PROVE  Holds(k)'
<1>1. Updated(k)' = Updated(k) /\ Rerated(k)' = Rerated(k)
  BY DEF Updated, Rerated, At
<1>. QED BY <1>1 DEF RecordInv, Holds, Tables

(* The update of a row of statistics. *)
LEMMA UpdateStatsKeeps ==
  ASSUME ConstantsOK, RecordInv, NEW m \in Matches, UpdateStats(m)
  PROVE  RecordInv'
<1>. DEFINE u == Player(m)
            won == IF tx[m].winner = u THEN 1 ELSE 0
            snap == tx[m].before[tx[m].seat]
            streak == IF won = 1 THEN snap.streak + 1 ELSE 0
            row == [games |-> stats[u].games + 1, wins |-> stats[u].wins + won,
                    losses |-> stats[u].losses + 1 - won,
                    streak |-> streak, best |-> Higher(snap.best, streak)]
            next == IF m \in Ranked THEN [at |-> "rating", seat |-> tx[m].seat]
                    ELSE NextSeat(m, "stats", "commit")
<1>1. tx' = [tx EXCEPT ![m].stats = Append(@, row), ![m].at = next.at, ![m].seat = next.seat]
  BY DEF UpdateStats
<1>2. /\ tx[m] \in Transaction /\ tx[m].at = "stats" /\ tx[m].seat \in 1..Len(Seats[m])
      /\ u \in Users /\ u = Seats[m][tx[m].seat]
  BY Turn DEF UpdateStats, At
<1>3. Len(Seats[m]) \in {1, 2}
  BY Sized
<1>4. Ordered(m)
  BY DEF RecordInv
<1>5. snap \in Before
  <2>1. Len(tx[m].before) = Len(Seats[m])
    BY <1>2, <1>4 DEF Ordered, Read, At
  <2>. QED BY <1>2, <2>1 DEF Transaction
<1>6. row \in StatsRow /\ row.best >= row.streak
  <2>1. stats[u] \in StatsRow
    BY <1>2 DEF RecordInv, Shape
  <2>2. won \in {0, 1}
    OBVIOUS
  <2>3. streak \in Nat
    BY <1>5 DEF Before
  <2>4. Higher(snap.best, streak) \in Nat /\ Higher(snap.best, streak) >= streak
    BY <1>5, <2>3 DEF Before, Higher
  <2>. HIDE DEF won, streak, snap, u
  <2>. QED BY <2>1, <2>2, <2>3, <2>4 DEF StatsRow
<1>7. /\ m \in Ranked => next.at = "rating" /\ next.seat = tx[m].seat
      /\ m \notin Ranked /\ tx[m].seat < Len(Seats[m]) => next.at = "stats" /\ next.seat = tx[m].seat + 1
      /\ m \notin Ranked /\ ~(tx[m].seat < Len(Seats[m])) => next.at = "commit" /\ next.seat = 1
  BY DEF NextSeat
<1>8. row.games = stats[u].games + 1 /\ row.wins = stats[u].wins + won
        /\ row.losses = stats[u].losses + 1 - won
  OBVIOUS
<1>. HIDE DEF row, next, u, snap, streak
<1>9. next.at \in States /\ next.seat \in {1, 2}
  <2>1. tx[m].seat \in {1, 2} /\ (tx[m].seat < Len(Seats[m]) => tx[m].seat + 1 = 2)
    BY <1>2, <1>3, SeatNumbers
  <2>2. CASE m \in Ranked
    BY <1>7, <2>1, <2>2 DEF States
  <2>3. CASE m \notin Ranked /\ tx[m].seat < Len(Seats[m])
    BY <1>7, <2>1, <2>3 DEF States
  <2>4. CASE m \notin Ranked /\ ~(tx[m].seat < Len(Seats[m]))
    BY <1>7, <2>4 DEF States
  <2>. QED BY <2>2, <2>3, <2>4
<1>10. Append(tx[m].stats, row) \in Seq(StatsRow)
  BY <1>2, <1>6 DEF Transaction
<1>11. /\ tx'[m] = [tx[m] EXCEPT !.stats = Append(@, row), !.at = next.at, !.seat = next.seat]
       /\ \A k \in Matches \ {m} : tx'[k] = tx[k]
       /\ DOMAIN tx' = Matches /\ tx' = [k \in Matches |-> tx'[k]]
  BY <1>1 DEF RecordInv, Shape
<1>12. /\ tx'[m].at = next.at /\ tx'[m].winner = tx[m].winner /\ tx'[m].seat = next.seat
       /\ tx'[m].stats = Append(tx[m].stats, row)
       /\ tx'[m].before = tx[m].before /\ tx'[m].rating = tx[m].rating
       /\ tx'[m] \in Transaction
  BY <1>2, <1>9, <1>10, <1>11 DEF Transaction
<1>13. UNCHANGED <<stats, rating, delta, overlap>> /\ Free("stats", m) /\ Lock("stats", m) /\ "stats" \in Tables
  BY DEF UpdateStats, Tables
<1>14. /\ locks' \in [Tables -> [Users -> Matches \union {NoUser}]]
       /\ \A t \in Tables, v \in Users : locks'[t][v] = IF t = "stats" /\ v = u THEN m ELSE locks[t][v]
       /\ \A k \in Matches \ {m}, t \in Tables, v \in Users : locks'[t][v] = k <=> locks[t][v] = k
  BY <1>13, LockKeeps DEF u
<1>15. Shape'
  <2>1. tx' \in [Matches -> Transaction]
    BY <1>11, <1>12 DEF RecordInv, Shape
  <2>. QED BY <1>13, <1>14, <2>1 DEF RecordInv, Shape
<1>16. ~At(m, "committed") /\ ~At(m, "committed")' /\ ~At(m, "aborted")' /\ Active(m)
  BY <1>2, <1>7, <1>12 DEF At, Active
<1>17. /\ \A k \in Matches \ {m} : Ordered(k)' /\ Counts(k)' /\ Current(k)'
       /\ Unchanged' /\ Best' /\ GamesCounted' /\ RatingsAddUp' /\ AbortNeedsExchangedSeats' /\ Apart'
  BY <1>11, <1>13, <1>16, Quiet, AbortsStay, StaysApart
<1>18. /\ Read(m) = Len(Seats[m]) /\ Updated(m) = tx[m].seat - 1
       /\ Read(m)' = Len(Seats[m]) /\ Updated(m)' = tx[m].seat /\ Rerated(m)' = Rerated(m)
  BY <1>2, <1>3, <1>7, <1>12 DEF Read, Updated, Rerated, At
<1>19. Len(tx'[m].stats) = Updated(m)'
  BY <1>2, <1>4, <1>12, <1>18 DEF Ordered, Transaction
<1>20. Ordered(m)'
  BY <1>2, <1>3, <1>4, <1>7, <1>12, <1>18, <1>19 DEF Ordered, At, Winners, Players
<1>21. Current(m)'
  BY <1>12, <1>13, <1>18 DEF RecordInv, Current
<1>22. Counts(m)'
  <2>1. Counts(m)
    BY DEF RecordInv
  <2>2. Len(tx[m].stats) = tx[m].seat - 1 /\ tx[m].stats \in Seq(StatsRow)
    BY <1>2, <1>4, <1>18 DEF Ordered, Transaction
  <2>3. ASSUME NEW i \in 1..tx[m].seat
        PROVE  LET new == tx'[m].stats[i]
                   old == stats[Seats[m][i]]
                   w == IF tx[m].winner = Seats[m][i] THEN 1 ELSE 0
               IN /\ new.games = old.games + 1 /\ new.wins = old.wins + w
                  /\ new.losses = old.losses + 1 - w /\ new.best >= new.streak
    <3>1. CASE i = tx[m].seat
      <4>1. tx'[m].stats[i] = row
        BY <1>2, <1>3, <1>12, <2>2, <3>1
      <4>. QED BY <1>2, <1>6, <1>8, <3>1, <4>1
    <3>2. CASE i # tx[m].seat
      <4>1. i \in 1..Updated(m) /\ tx'[m].stats[i] = tx[m].stats[i]
        BY <1>2, <1>3, <1>12, <1>18, <2>2, <3>2
      <4>. QED BY <2>1, <4>1 DEF Counts
    <3>. QED BY <3>1, <3>2
  <2>4. \A i \in 1..Rerated(m) :
          tx'[m].rating[i].rated = rating[Seats[m][i]].rated + 1 /\ tx'[m].rating[i].peak >= tx'[m].rating[i].elo
    BY <1>12, <2>1 DEF Counts
  <2>. QED BY <1>12, <1>13, <1>18, <2>3, <2>4 DEF Counts
<1>23. Holds(m)'
  <2>1. Holds(m) /\ u = Seats[m][tx[m].seat]
    BY <1>2 DEF RecordInv
  <2>2. ASSUME NEW v \in Users
        PROVE  locks'["stats"][v] = m <=> \E i \in 1..tx[m].seat : Seats[m][i] = v
    <3>1. locks'["stats"][v] = m <=> v = u \/ locks["stats"][v] = m
      BY <1>13, <1>14
    <3>2. locks["stats"][v] = m <=> \E i \in 1..(tx[m].seat - 1) : Seats[m][i] = v
      BY <1>18, <2>1 DEF Holds
    <3>. QED BY <1>2, <1>3, <2>1, <3>1, <3>2
  <2>3. ASSUME NEW v \in Users
        PROVE  locks'["rating"][v] = m <=> \E i \in 1..Rerated(m) : Seats[m][i] = v
    <3>1. locks'["rating"][v] = locks["rating"][v]
      BY <1>14 DEF Tables
    <3>. QED BY <2>1, <3>1 DEF Holds
  <2>. QED BY <1>18, <2>2, <2>3 DEF Holds
<1>24. ASSUME NEW k \in Matches \ {m} PROVE Holds(k)'
  BY <1>11, <1>14, OthersHold
<1>. QED BY <1>15, <1>17, <1>20, <1>21, <1>22, <1>23, <1>24 DEF RecordInv

(* The update of a rating. *)
LEMMA UpdateRatingKeeps ==
  ASSUME ConstantsOK, RecordInv, NEW m \in Matches, UpdateRating(m)
  PROVE  RecordInv'
<1>. DEFINE u == Player(m)
            after == NextElo(m, tx[m].seat)
            row == [elo |-> after, peak |-> Higher(tx[m].before[tx[m].seat].peak, after),
                    rated |-> rating[u].rated + 1]
            next == NextSeat(m, "stats", "commit")
<1>1. tx' = [tx EXCEPT ![m].rating = Append(@, row), ![m].at = next.at, ![m].seat = next.seat]
  BY DEF UpdateRating
<1>2. /\ tx[m] \in Transaction /\ tx[m].at = "rating" /\ tx[m].seat \in 1..Len(Seats[m])
      /\ u \in Users /\ u = Seats[m][tx[m].seat]
  BY Turn DEF UpdateRating, At
<1>3. Ordered(m)
  BY DEF RecordInv
<1>4. m \in Ranked /\ Len(Seats[m]) = 2
  BY <1>2, <1>3 DEF Ordered, At, ConstantsOK
<1>5. \A i \in {1, 2} : tx[m].before[i] \in Before
  <2>1. Len(tx[m].before) = 2
    BY <1>2, <1>3, <1>4 DEF Ordered, Read, At
  <2>. QED BY <1>2, <2>1 DEF Transaction
<1>6. row \in RatingRow /\ row.peak >= row.elo /\ row.rated = rating[u].rated + 1
  <2>1. tx[m].seat \in {1, 2} /\ 3 - tx[m].seat \in {1, 2}
    BY <1>2, <1>4
  <2>2. after \in Int
    <3>1. tx[m].before[tx[m].seat].elo \in Int /\ tx[m].before[3 - tx[m].seat].elo \in Int
      BY <1>5, <2>1 DEF Before
    <3>. QED BY <3>1 DEF NextElo, Stake
  <2>3. tx[m].before[tx[m].seat].peak \in Int
    BY <1>5, <2>1 DEF Before
  <2>4. rating[u].rated \in Nat
    BY <1>2 DEF RecordInv, Shape, RatingRow
  <2>. HIDE DEF after, u
  <2>. QED BY <2>2, <2>3, <2>4 DEF RatingRow, Higher
<1>7. /\ tx[m].seat < 2 => next.at = "stats" /\ next.seat = tx[m].seat + 1
      /\ ~(tx[m].seat < 2) => next.at = "commit" /\ next.seat = 1
  BY <1>4 DEF NextSeat
<1>. HIDE DEF row, next, u, after
<1>8. next.at \in States /\ next.seat \in {1, 2}
  <2>1. tx[m].seat \in {1, 2}
    BY <1>2, <1>4
  <2>2. CASE tx[m].seat = 1
    BY <1>7, <2>2 DEF States
  <2>3. CASE tx[m].seat = 2
    BY <1>7, <2>3 DEF States
  <2>. QED BY <2>1, <2>2, <2>3
<1>9. Append(tx[m].rating, row) \in Seq(RatingRow)
  BY <1>2, <1>6 DEF Transaction
<1>10. /\ tx'[m] = [tx[m] EXCEPT !.rating = Append(@, row), !.at = next.at, !.seat = next.seat]
       /\ \A k \in Matches \ {m} : tx'[k] = tx[k]
       /\ DOMAIN tx' = Matches /\ tx' = [k \in Matches |-> tx'[k]]
  BY <1>1 DEF RecordInv, Shape
<1>11. /\ tx'[m].at = next.at /\ tx'[m].winner = tx[m].winner /\ tx'[m].seat = next.seat
       /\ tx'[m].rating = Append(tx[m].rating, row)
       /\ tx'[m].before = tx[m].before /\ tx'[m].stats = tx[m].stats
       /\ tx'[m] \in Transaction
  BY <1>2, <1>8, <1>9, <1>10 DEF Transaction
<1>12. UNCHANGED <<stats, rating, delta, overlap>> /\ Free("rating", m) /\ Lock("rating", m) /\ "rating" \in Tables
  BY DEF UpdateRating, Tables
<1>13. /\ locks' \in [Tables -> [Users -> Matches \union {NoUser}]]
       /\ \A t \in Tables, v \in Users : locks'[t][v] = IF t = "rating" /\ v = u THEN m ELSE locks[t][v]
       /\ \A k \in Matches \ {m}, t \in Tables, v \in Users : locks'[t][v] = k <=> locks[t][v] = k
  BY <1>12, LockKeeps DEF u
<1>14. Shape'
  <2>1. tx' \in [Matches -> Transaction]
    BY <1>10, <1>11 DEF RecordInv, Shape
  <2>. QED BY <1>12, <1>13, <2>1 DEF RecordInv, Shape
<1>15. ~At(m, "committed") /\ ~At(m, "committed")' /\ ~At(m, "aborted")' /\ Active(m)
  BY <1>2, <1>7, <1>11 DEF At, Active
<1>16. /\ \A k \in Matches \ {m} : Ordered(k)' /\ Counts(k)' /\ Current(k)'
       /\ Unchanged' /\ Best' /\ GamesCounted' /\ RatingsAddUp' /\ AbortNeedsExchangedSeats' /\ Apart'
  BY <1>10, <1>12, <1>15, Quiet, AbortsStay, StaysApart
<1>17. /\ Read(m) = 2 /\ Updated(m) = tx[m].seat /\ Rerated(m) = tx[m].seat - 1
       /\ Read(m)' = 2 /\ Updated(m)' = tx[m].seat /\ Rerated(m)' = tx[m].seat
  BY <1>2, <1>4, <1>7, <1>11 DEF Read, Updated, Rerated, At
<1>18. Len(tx'[m].rating) = Rerated(m)'
  BY <1>2, <1>3, <1>11, <1>17 DEF Ordered, Transaction
<1>19. Ordered(m)'
  BY <1>2, <1>3, <1>4, <1>7, <1>11, <1>17, <1>18 DEF Ordered, At, Winners, Players
<1>20. Current(m)'
  BY <1>11, <1>12, <1>17 DEF RecordInv, Current
<1>21. Counts(m)'
  <2>1. Counts(m)
    BY DEF RecordInv
  <2>2. Len(tx[m].rating) = tx[m].seat - 1 /\ tx[m].rating \in Seq(RatingRow)
    BY <1>2, <1>3, <1>17 DEF Ordered, Transaction
  <2>3. ASSUME NEW i \in 1..tx[m].seat
        PROVE  tx'[m].rating[i].rated = rating[Seats[m][i]].rated + 1 /\ tx'[m].rating[i].peak >= tx'[m].rating[i].elo
    <3>1. CASE i = tx[m].seat
      <4>1. tx'[m].rating[i] = row
        BY <1>2, <1>4, <1>11, <2>2, <3>1
      <4>. QED BY <1>2, <1>6, <3>1, <4>1
    <3>2. CASE i # tx[m].seat
      <4>1. i \in 1..Rerated(m) /\ tx'[m].rating[i] = tx[m].rating[i]
        BY <1>2, <1>4, <1>11, <1>17, <2>2, <3>2
      <4>. QED BY <2>1, <4>1 DEF Counts
    <3>. QED BY <3>1, <3>2
  <2>4. ASSUME NEW i \in 1..tx[m].seat
        PROVE  LET new == tx'[m].stats[i]
                   old == stats[Seats[m][i]]
                   w == IF tx[m].winner = Seats[m][i] THEN 1 ELSE 0
               IN /\ new.games = old.games + 1 /\ new.wins = old.wins + w
                  /\ new.losses = old.losses + 1 - w /\ new.best >= new.streak
    <3>1. i \in 1..Updated(m) /\ tx'[m].stats[i] = tx[m].stats[i]
      BY <1>11, <1>17
    <3>. QED BY <2>1, <3>1 DEF Counts
  <2>. QED BY <1>11, <1>12, <1>17, <2>3, <2>4 DEF Counts
<1>22. Holds(m)'
  <2>1. Holds(m) /\ u = Seats[m][tx[m].seat]
    BY <1>2 DEF RecordInv
  <2>2. ASSUME NEW v \in Users
        PROVE  locks'["rating"][v] = m <=> \E i \in 1..tx[m].seat : Seats[m][i] = v
    <3>1. locks'["rating"][v] = m <=> v = u \/ locks["rating"][v] = m
      BY <1>12, <1>13
    <3>2. locks["rating"][v] = m <=> \E i \in 1..(tx[m].seat - 1) : Seats[m][i] = v
      BY <1>17, <2>1 DEF Holds
    <3>. QED BY <1>2, <1>4, <2>1, <3>1, <3>2
  <2>3. ASSUME NEW v \in Users
        PROVE  locks'["stats"][v] = m <=> \E i \in 1..tx[m].seat : Seats[m][i] = v
    <3>1. locks'["stats"][v] = locks["stats"][v]
      BY <1>13 DEF Tables
    <3>. QED BY <1>17, <2>1, <3>1 DEF Holds
  <2>. QED BY <1>17, <2>2, <2>3 DEF Holds
<1>23. ASSUME NEW k \in Matches \ {m} PROVE Holds(k)'
  BY <1>10, <1>13, OthersHold
<1>. QED BY <1>14, <1>16, <1>19, <1>20, <1>21, <1>22, <1>23 DEF RecordInv

(***************************************************************************)
(* The commit                                                              *)
(***************************************************************************)

(* Nobody else has new rows, or a snapshot, of the players of m. *)
LEMMA Exclusive ==
  ASSUME ConstantsOK, RecordInv, NEW m \in Matches, At(m, "commit"), NEW k \in Matches, k # m
  PROVE  /\ \A i \in 1..Updated(k) : Seats[k][i] \notin Players(m)
         /\ m \in Ranked => \A i \in 1..Rerated(k) : Seats[k][i] \notin Players(m)
         /\ ~overlap => \A i \in 1..Read(k) : Seats[k][i] \notin Players(m)
<1>1. /\ Updated(m) = Len(Seats[m]) /\ (m \in Ranked => Rerated(m) = Len(Seats[m]))
      /\ Holds(m) /\ Holds(k) /\ Ordered(k)
  BY DEF RecordInv, Updated, Rerated, At
<1>2. /\ Len(Seats[k]) \in {1, 2} /\ tx[k].seat \in {1, 2} /\ tx[k].seat <= Len(Seats[k])
  BY <1>1, Sized DEF RecordInv, Shape, Transaction, Ordered
<1>3. Updated(k) \in 0..Len(Seats[k]) /\ Rerated(k) \in 0..Len(Seats[k]) /\ Read(k) \in 0..Len(Seats[k])
  BY <1>2 DEF Updated, Rerated, Read
<1>4. \A i \in 1..Len(Seats[k]) : Seats[k][i] \in Users /\ Seats[k][i] \in Players(k)
  BY Sized, PlayersAre
<1>5. \A u \in Players(m) : u \in Users /\ \E i \in 1..Len(Seats[m]) : Seats[m][i] = u
  BY PlayersAre
<1>6. ASSUME NEW i \in 1..Updated(k) PROVE Seats[k][i] \notin Players(m)
  <2>1. Seats[k][i] \in Users
    BY <1>3, <1>4
  <2>2. locks["stats"][Seats[k][i]] = k
    BY <1>1, <2>1 DEF Holds
  <2>3. ASSUME Seats[k][i] \in Players(m) PROVE locks["stats"][Seats[k][i]] = m
    BY <1>1, <1>5, <2>1, <2>3 DEF Holds
  <2>. QED BY <2>2, <2>3
<1>7. ASSUME m \in Ranked, NEW i \in 1..Rerated(k) PROVE Seats[k][i] \notin Players(m)
  <2>1. Seats[k][i] \in Users
    BY <1>3, <1>4
  <2>2. locks["rating"][Seats[k][i]] = k
    BY <1>1, <2>1 DEF Holds
  <2>3. ASSUME Seats[k][i] \in Players(m) PROVE locks["rating"][Seats[k][i]] = m
    BY <1>1, <1>5, <1>7, <2>1, <2>3 DEF Holds
  <2>. QED BY <2>2, <2>3
<1>8. ASSUME ~overlap, NEW i \in 1..Read(k) PROVE Seats[k][i] \notin Players(m)
  <2>1. Active(m)
    BY DEF Active, At
  <2>2. Active(k)
    <3>1. Read(k) # 0
      BY <1>3, <1>8
    <3>2. tx[k].at \in {"read", "stats", "rating", "commit"}
      BY <3>1 DEF Read, At
    <3>. QED BY <3>2 DEF Active
  <2>3. Players(m) \intersect Players(k) = {}
    BY <1>8, <2>1, <2>2 DEF RecordInv, Apart
  <2>4. Seats[k][i] \in Players(k)
    BY <1>3, <1>4
  <2>. QED BY <2>3, <2>4
<1>. QED BY <1>6, <1>7, <1>8

(* Releasing the locks of m leaves the others'. *)
LEMMA ReleaseIs ==
  ASSUME ConstantsOK, RecordInv, NEW m \in Matches, Release(m)
  PROVE  /\ locks' \in [Tables -> [Users -> Matches \union {NoUser}]]
         /\ \A k \in Matches, t \in Tables, u \in Users : locks'[t][u] = k <=> k # m /\ locks[t][u] = k
<1>1. locks \in [Tables -> [Users -> Matches \union {NoUser}]]
  BY DEF RecordInv, Shape
<1>2. \A t \in Tables, u \in Users : locks'[t][u] = IF locks[t][u] = m THEN NoUser ELSE locks[t][u]
  BY DEF Release
<1>3. locks' \in [Tables -> [Users -> Matches \union {NoUser}]]
  BY <1>1 DEF Release
<1>. QED BY <1>2, <1>3, NoMatchIsNoUser

(* The rows that the commit of m writes. *)
LEMMA Written ==
  ASSUME ConstantsOK, RecordInv, NEW m \in Matches, At(m, "commit"), NEW u \in Players(m)
  PROVE  LET i == SeatOf(m, u)
             won == IF tx[m].winner = u THEN 1 ELSE 0
         IN /\ u \in Users /\ i \in 1..Len(Seats[m]) /\ Seats[m][i] = u
            /\ tx[m].stats[i] \in StatsRow
            /\ tx[m].stats[i].games = stats[u].games + 1
            /\ tx[m].stats[i].wins = stats[u].wins + won
            /\ tx[m].stats[i].losses = stats[u].losses + 1 - won
            /\ tx[m].stats[i].best >= tx[m].stats[i].streak
            /\ m \in Ranked =>
                 /\ tx[m].rating[i] \in RatingRow /\ tx[m].before[i] \in Before
                 /\ tx[m].rating[i].rated = rating[u].rated + 1
                 /\ tx[m].rating[i].peak >= tx[m].rating[i].elo
                 /\ ~overlap => tx[m].before[i].elo = rating[u].elo
<1>. DEFINE i == SeatOf(m, u)
<1>1. i \in 1..Len(Seats[m]) /\ Seats[m][i] = u /\ u \in Users
  <2>1. \E j \in DOMAIN Seats[m] : Seats[m][j] = u
    BY DEF Players
  <2>2. i \in DOMAIN Seats[m] /\ Seats[m][i] = u
    BY <2>1 DEF SeatOf
  <2>. QED BY <2>2, Sized
<1>. HIDE DEF i
<1>2. /\ Updated(m) = Len(Seats[m]) /\ Read(m) = Len(Seats[m]) /\ (m \in Ranked => Rerated(m) = Len(Seats[m]))
      /\ Ordered(m) /\ Counts(m) /\ Current(m) /\ tx[m] \in Transaction
  BY DEF RecordInv, Updated, Rerated, Read, At, Shape
<1>3. tx[m].stats[i] \in StatsRow
  BY <1>1, <1>2 DEF Ordered, Transaction
<1>4. tx[m].before[i] \in Before /\ (m \in Ranked => tx[m].rating[i] \in RatingRow)
  BY <1>1, <1>2 DEF Ordered, Transaction
<1>5. LET won == IF tx[m].winner = u THEN 1 ELSE 0
      IN /\ tx[m].stats[i].games = stats[u].games + 1
         /\ tx[m].stats[i].wins = stats[u].wins + won
         /\ tx[m].stats[i].losses = stats[u].losses + 1 - won
         /\ tx[m].stats[i].best >= tx[m].stats[i].streak
  BY <1>1, <1>2 DEF Counts
<1>6. m \in Ranked => tx[m].rating[i].rated = rating[u].rated + 1 /\ tx[m].rating[i].peak >= tx[m].rating[i].elo
  BY <1>1, <1>2 DEF Counts
<1>7. ~overlap => tx[m].before[i].elo = rating[u].elo
  BY <1>1, <1>2 DEF Current
<1>. QED BY <1>1, <1>3, <1>4, <1>5, <1>6, <1>7 DEF i

(* What a commit changes: the rows of the players of m, and m itself. *)
LEMMA CommitIs ==
  ASSUME ConstantsOK, RecordInv, NEW m \in Matches, Commit(m)
  PROVE  /\ At(m, "commit") /\ At(m, "committed")' /\ ~Active(m)' /\ UNCHANGED overlap
         /\ tx'[m] = [Fresh EXCEPT !.at = "committed", !.winner = tx[m].winner]
         /\ tx'[m].winner = tx[m].winner /\ tx[m].winner \in Winners(m)
         /\ \A k \in Matches \ {m} : tx'[k] = tx[k]
         /\ \A u \in Users \ Players(m) : stats'[u] = stats[u] /\ rating'[u] = rating[u]
         /\ m \notin Ranked => rating' = rating /\ delta' = delta
         /\ \A k \in Matches \ {m} : delta'[k] = delta[k]
         /\ Shape'
<1>1. At(m, "commit") /\ UNCHANGED overlap
  BY DEF Commit
<1>2. tx' = [tx EXCEPT ![m] = [Fresh EXCEPT !.at = "committed", !.winner = tx[m].winner]]
  BY DEF Commit
<1>3. tx \in [Matches -> Transaction] /\ tx[m].winner \in Winners(m) /\ tx[m].winner \in Users \union {NoUser}
  BY <1>1 DEF RecordInv, Shape, Ordered, At, Transaction
<1>4. /\ tx'[m] = [Fresh EXCEPT !.at = "committed", !.winner = tx[m].winner]
      /\ \A k \in Matches \ {m} : tx'[k] = tx[k]
      /\ DOMAIN tx' = Matches /\ tx' = [k \in Matches |-> tx'[k]]
  BY <1>2, <1>3
<1>5. tx'[m] \in Transaction /\ tx'[m].at = "committed" /\ tx'[m].winner = tx[m].winner
  <2>1. << >> \in Seq(Before) /\ << >> \in Seq(StatsRow) /\ << >> \in Seq(RatingRow)
    OBVIOUS
  <2>. QED BY <1>3, <1>4, <2>1 DEF Fresh, Transaction, States
<1>6. tx' \in [Matches -> Transaction]
  BY <1>3, <1>4, <1>5
<1>7. stats' = [u \in Users |-> IF u \in Players(m) THEN tx[m].stats[SeatOf(m, u)] ELSE stats[u]]
  BY DEF Commit
<1>8. stats' \in [Users -> StatsRow]
  <2>1. \A u \in Players(m) : tx[m].stats[SeatOf(m, u)] \in StatsRow
    BY <1>1, Written
  <2>. QED BY <1>7, <2>1 DEF RecordInv, Shape
<1>9. \A u \in Users \ Players(m) : stats'[u] = stats[u]
  BY <1>7
<1>10. CASE m \in Ranked
  <2>1. rating' = [u \in Users |-> IF u \in Players(m) THEN tx[m].rating[SeatOf(m, u)] ELSE rating[u]]
    BY <1>10 DEF Commit
  <2>2. delta' = [delta EXCEPT ![m] = [u \in Users |->
                         IF u \in Players(m)
                         THEN tx[m].rating[SeatOf(m, u)].elo - tx[m].before[SeatOf(m, u)].elo ELSE 0]]
    BY <1>10 DEF Commit
  <2>3. \A u \in Players(m) : tx[m].rating[SeatOf(m, u)] \in RatingRow /\ tx[m].before[SeatOf(m, u)] \in Before
    BY <1>1, <1>10, Written
  <2>4. rating' \in [Users -> RatingRow] /\ \A u \in Users \ Players(m) : rating'[u] = rating[u]
    BY <2>1, <2>3 DEF RecordInv, Shape
  <2>5. [u \in Users |-> IF u \in Players(m)
                         THEN tx[m].rating[SeatOf(m, u)].elo - tx[m].before[SeatOf(m, u)].elo ELSE 0]
          \in [Users -> Int]
    BY <2>3 DEF RatingRow, Before
  <2>6. delta' \in [Matches -> [Users -> Int]] /\ \A k \in Matches \ {m} : delta'[k] = delta[k]
    BY <2>2, <2>5 DEF RecordInv, Shape
  <2>7. locks' \in [Tables -> [Users -> Matches \union {NoUser}]]
    BY ReleaseIs DEF Commit
  <2>8. Shape'
    BY <1>1, <1>6, <1>8, <2>4, <2>6, <2>7 DEF RecordInv, Shape
  <2>. QED BY <1>1, <1>3, <1>4, <1>5, <1>9, <1>10, <2>4, <2>6, <2>8 DEF At, Active
<1>11. CASE m \notin Ranked
  <2>1. UNCHANGED <<rating, delta>>
    BY <1>11 DEF Commit
  <2>2. locks' \in [Tables -> [Users -> Matches \union {NoUser}]]
    BY ReleaseIs DEF Commit
  <2>3. Shape'
    BY <1>1, <1>6, <1>8, <2>1, <2>2 DEF RecordInv, Shape
  <2>. QED BY <1>1, <1>3, <1>4, <1>5, <1>9, <2>1, <2>3 DEF At, Active
<1>. QED BY <1>10, <1>11

(* One more game of each of its players is counted. *)
LEMMA CommitCounts ==
  ASSUME ConstantsOK, RecordInv, NEW m \in Matches, Commit(m)
  PROVE  GamesCounted'
<1>0. /\ At(m, "commit") /\ At(m, "committed")' /\ tx'[m].winner = tx[m].winner
      /\ \A k \in Matches \ {m} : tx'[k] = tx[k]
      /\ \A u \in Users \ Players(m) : stats'[u] = stats[u] /\ rating'[u] = rating[u]
      /\ (m \notin Ranked => rating' = rating)
  BY CommitIs
<1>1. ASSUME NEW u \in Users
      PROVE  /\ Committed(u)' = IF u \in Players(m) THEN Committed(u) \union {m} ELSE Committed(u)
             /\ m \notin Committed(u) /\ m \notin Won(u)
             /\ Won(u)' = IF u \in Players(m) /\ tx[m].winner = u THEN Won(u) \union {m} ELSE Won(u)
  <2>1. m \notin Committed(u)
    BY <1>0 DEF Committed, At
  <2>2. Committed(u)' = IF u \in Players(m) THEN Committed(u) \union {m} ELSE Committed(u)
    BY <1>0 DEF Committed, At, Players
  <2>3. \A k \in Committed(u) : tx'[k] = tx[k]
    BY <1>0, <2>1 DEF Committed
  <2>. QED BY <1>0, <2>1, <2>2, <2>3 DEF Won
<1>2. ASSUME NEW u \in Users
      PROVE  IsFiniteSet(Committed(u)) /\ IsFiniteSet(Won(u)) /\ IsFiniteSet(Committed(u) \ Won(u))
               /\ IsFiniteSet(Committed(u) \intersect Ranked)
  <2>1. Committed(u) \subseteq Matches /\ Won(u) \subseteq Matches
    BY DEF Committed, Won
  <2>2. Committed(u) \ Won(u) \subseteq Matches /\ Committed(u) \intersect Ranked \subseteq Matches
    BY <2>1
  <2>. QED BY <2>1, <2>2, FS_Subset DEF ConstantsOK
<1>3. ASSUME NEW u \in Users
      PROVE  /\ stats'[u].games = Cardinality(Committed(u)')
             /\ stats'[u].wins = Cardinality(Won(u)')
             /\ stats'[u].losses = Cardinality(Committed(u)' \ Won(u)')
             /\ rating'[u].rated = Cardinality(Committed(u)' \intersect Ranked)
  <2>0. /\ stats[u].games = Cardinality(Committed(u)) /\ stats[u].wins = Cardinality(Won(u))
        /\ stats[u].losses = Cardinality(Committed(u) \ Won(u))
        /\ rating[u].rated = Cardinality(Committed(u) \intersect Ranked)
    BY DEF RecordInv, GamesCounted
  <2>1. CASE u \notin Players(m)
    BY <1>0, <1>1, <2>0, <2>1
  <2>2. CASE u \in Players(m)
    <3>1. stats'[u] = tx[m].stats[SeatOf(m, u)]
      BY <2>2 DEF Commit
    <3>2. stats[u].games \in Nat /\ stats[u].wins \in Nat /\ stats[u].losses \in Nat /\ rating[u].rated \in Nat
      BY DEF RecordInv, Shape, StatsRow, RatingRow
    <3>3. /\ stats'[u].games = stats[u].games + 1
          /\ tx[m].winner = u => stats'[u].wins = stats[u].wins + 1 /\ stats'[u].losses = stats[u].losses
          /\ tx[m].winner # u => stats'[u].wins = stats[u].wins /\ stats'[u].losses = stats[u].losses + 1
      BY <1>0, <2>2, <3>1, <3>2, Written
    <3>4. Cardinality(Committed(u)') = Cardinality(Committed(u)) + 1
      BY <1>1, <1>2, <2>2, FS_AddElement
    <3>7. rating'[u].rated = Cardinality(Committed(u)' \intersect Ranked)
      <4>1. CASE m \in Ranked
        <5>1. rating'[u] = tx[m].rating[SeatOf(m, u)]
          BY <2>2, <4>1 DEF Commit
        <5>2. rating'[u].rated = rating[u].rated + 1
          BY <1>0, <2>2, <4>1, <5>1, Written
        <5>3. Committed(u)' \intersect Ranked = (Committed(u) \intersect Ranked) \union {m}
                /\ m \notin Committed(u) \intersect Ranked
          BY <1>1, <2>2, <4>1
        <5>4. Cardinality(Committed(u)' \intersect Ranked) = Cardinality(Committed(u) \intersect Ranked) + 1
          BY <1>2, <5>3, FS_AddElement
        <5>. QED BY <2>0, <5>2, <5>4
      <4>2. CASE m \notin Ranked
        <5>1. Committed(u)' \intersect Ranked = Committed(u) \intersect Ranked
          BY <1>1, <2>2, <4>2
        <5>. QED BY <1>0, <2>0, <4>2, <5>1
      <4>. QED BY <4>1, <4>2
    <3>5. CASE tx[m].winner = u
      <4>1. Won(u)' = Won(u) \union {m} /\ Committed(u)' \ Won(u)' = Committed(u) \ Won(u)
        BY <1>1, <2>2, <3>5
      <4>2. Cardinality(Won(u)') = Cardinality(Won(u)) + 1
        BY <1>1, <1>2, <4>1, FS_AddElement
      <4>3. Cardinality(Committed(u)' \ Won(u)') = Cardinality(Committed(u) \ Won(u))
        BY <4>1
      <4>. QED BY <2>0, <2>2, <3>3, <3>4, <3>5, <4>2, <4>3, <3>7
    <3>6. CASE tx[m].winner # u
      <4>1. Won(u)' = Won(u) /\ Committed(u)' \ Won(u)' = (Committed(u) \ Won(u)) \union {m}
               /\ m \notin Committed(u) \ Won(u)
        BY <1>1, <2>2, <3>6
      <4>2. Cardinality(Committed(u)' \ Won(u)') = Cardinality(Committed(u) \ Won(u)) + 1
        BY <1>2, <4>1, FS_AddElement
      <4>3. Cardinality(Won(u)') = Cardinality(Won(u))
        BY <4>1
      <4>. QED BY <2>0, <2>2, <3>3, <3>4, <3>6, <4>2, <4>3, <3>7
    <3>. QED BY <3>5, <3>6
  <2>. QED BY <2>1, <2>2
<1>. QED BY <1>3 DEF GamesCounted

(* What the ratings changed by in a match that is committed. *)
LEMMA CommitAddsUp ==
  ASSUME ConstantsOK, RecordInv, NEW m \in Matches, Commit(m)
  PROVE  RatingsAddUp'
<1>0. /\ At(m, "commit") /\ UNCHANGED overlap /\ Shape'
      /\ \A u \in Users \ Players(m) : rating'[u] = rating[u]
      /\ (m \notin Ranked => rating' = rating /\ delta' = delta)
      /\ \A k \in Matches \ {m} : delta'[k] = delta[k]
  BY CommitIs
<1>. SUFFICES ASSUME ~overlap, NEW u \in Users
              PROVE  rating'[u].elo = Start + SumFunctionOnSet([k \in Matches |-> delta'[k][u]], Matches)
  BY <1>0 DEF RatingsAddUp
<1>. DEFINE g == [k \in Matches |-> delta[k][u]]
            f == [k \in Matches |-> delta'[k][u]]
            more == rating'[u].elo - rating[u].elo
<1>1. g \in [Matches -> Int] /\ f \in [Matches -> Int]
  BY <1>0 DEF RecordInv, Shape
<1>2. rating[u].elo = Start + SumFunctionOnSet(g, Matches)
  BY DEF RecordInv, RatingsAddUp
<1>3. rating[u].elo \in Int /\ rating'[u].elo \in Int
  BY <1>0 DEF RecordInv, Shape, RatingRow
<1>4. g[m] = 0
  BY <1>0 DEF RecordInv, Unchanged, At
<1>5. f[m] = g[m] + more
  <2>1. CASE m \notin Ranked
    <3>1. f[m] = g[m] /\ rating'[u] = rating[u]
      BY <1>0, <2>1
    <3>. HIDE DEF f, g
    <3>. QED BY <1>1, <1>3, <3>1
  <2>2. CASE m \in Ranked /\ u \notin Players(m)
    <3>1. f[m] = 0
      <4>1. delta' = [delta EXCEPT ![m] = [v \in Users |->
                         IF v \in Players(m)
                         THEN tx[m].rating[SeatOf(m, v)].elo - tx[m].before[SeatOf(m, v)].elo ELSE 0]]
        BY <2>2 DEF Commit
      <4>. QED BY <2>2, <4>1 DEF RecordInv, Shape
    <3>2. rating'[u] = rating[u]
      BY <1>0, <2>2
    <3>. HIDE DEF f, g
    <3>. QED BY <1>3, <1>4, <3>1, <3>2
  <2>3. CASE m \in Ranked /\ u \in Players(m)
    <3>1. f[m] = tx[m].rating[SeatOf(m, u)].elo - tx[m].before[SeatOf(m, u)].elo
      <4>1. delta' = [delta EXCEPT ![m] = [v \in Users |->
                         IF v \in Players(m)
                         THEN tx[m].rating[SeatOf(m, v)].elo - tx[m].before[SeatOf(m, v)].elo ELSE 0]]
        BY <2>3 DEF Commit
      <4>. QED BY <2>3, <4>1 DEF RecordInv, Shape
    <3>2. rating'[u] = tx[m].rating[SeatOf(m, u)]
      BY <2>3 DEF Commit
    <3>3. tx[m].before[SeatOf(m, u)].elo = rating[u].elo
      BY <1>0, <2>3, Written
    <3>. HIDE DEF f, g
    <3>. QED BY <1>3, <1>4, <3>1, <3>2, <3>3
  <2>. QED BY <2>1, <2>2, <2>3
<1>6. \A k \in Matches \ {m} : f[k] = g[k]
  BY <1>0
<1>7. IsFiniteSet(Matches) /\ more \in Int
  BY <1>3 DEF ConstantsOK
<1>. HIDE DEF f, g, more
<1>8. PICK it : Sums(it, Matches, g) /\ SumFunctionOnSet(g, Matches) = it[Matches]
  BY <1>1, <1>7, SumIs
<1>9. PICK jt : Sums(jt, Matches, f) /\ SumFunctionOnSet(f, Matches) = jt[Matches]
  BY <1>1, <1>7, SumIs
<1>10. jt[Matches] = it[Matches] + more
  BY <1>1, <1>5, <1>6, <1>7, <1>8, <1>9, SumGrows
<1>11. it[Matches] \in Int /\ Start \in Int
  BY <1>8 DEF Sums, Start
<1>12. rating'[u].elo = rating[u].elo + more
  BY <1>3 DEF more
<1>13. rating'[u].elo = Start + SumFunctionOnSet(f, Matches)
  BY <1>2, <1>3, <1>7, <1>8, <1>9, <1>10, <1>11, <1>12
<1>. QED BY <1>13 DEF f

(* The commit of a transaction. *)
LEMMA CommitKeeps ==
  ASSUME ConstantsOK, RecordInv, NEW m \in Matches, Commit(m)
  PROVE  RecordInv'
<1>0. /\ At(m, "commit") /\ At(m, "committed")' /\ ~Active(m)' /\ UNCHANGED overlap
      /\ tx'[m] = [Fresh EXCEPT !.at = "committed", !.winner = tx[m].winner]
      /\ tx'[m].winner = tx[m].winner /\ tx[m].winner \in Winners(m)
      /\ \A k \in Matches \ {m} : tx'[k] = tx[k]
      /\ \A u \in Users \ Players(m) : stats'[u] = stats[u] /\ rating'[u] = rating[u]
      /\ (m \notin Ranked => rating' = rating /\ delta' = delta)
      /\ \A k \in Matches \ {m} : delta'[k] = delta[k]
      /\ Shape'
  BY CommitIs
<1>1. Read(m)' = 0 /\ Updated(m)' = 0 /\ Rerated(m)' = 0
  BY <1>0 DEF Read, Updated, Rerated, At
<1>2. Ordered(m)' /\ Counts(m)' /\ Current(m)'
  <2>1. tx'[m].seat = 1 /\ tx'[m].at = "committed" /\ Len(tx'[m].before) = 0
          /\ Len(tx'[m].stats) = 0 /\ Len(tx'[m].rating) = 0
    BY <1>0 DEF Fresh
  <2>2. Ordered(m)'
    BY <1>0, <1>1, <2>1, Sized DEF Ordered, At, Winners, Players
  <2>. QED BY <1>1, <2>2 DEF Counts, Current
<1>3. Release(m)
  BY DEF Commit
<1>4. \A k \in Matches, t \in Tables, u \in Users : locks'[t][u] = k <=> k # m /\ locks[t][u] = k
  BY <1>3, ReleaseIs
<1>5. Holds(m)'
  BY <1>1, <1>4 DEF Holds, Tables
<1>6. ASSUME NEW k \in Matches \ {m} PROVE Ordered(k)' /\ Holds(k)' /\ Counts(k)' /\ Current(k)'
  <2>0. tx'[k] = tx[k] /\ k \in Matches /\ k # m
    BY <1>0
  <2>1. Read(k)' = Read(k) /\ Updated(k)' = Updated(k) /\ Rerated(k)' = Rerated(k)
    BY <2>0 DEF Read, Updated, Rerated, At
  <2>2. Ordered(k)'
    BY <2>0, <2>1 DEF RecordInv, Ordered, At, Winners, Players
  <2>3. Holds(k)'
    BY <1>4, <2>0, OthersHold
  <2>4. /\ \A i \in 1..Updated(k) : Seats[k][i] \notin Players(m)
        /\ (m \in Ranked => \A i \in 1..Rerated(k) : Seats[k][i] \notin Players(m))
        /\ (~overlap => \A i \in 1..Read(k) : Seats[k][i] \notin Players(m))
    BY <1>0, <2>0, Exclusive
  <2>5. /\ Updated(k) \in 0..Len(Seats[k]) /\ Rerated(k) \in 0..Len(Seats[k]) /\ Read(k) \in 0..Len(Seats[k])
        /\ \A i \in 1..Len(Seats[k]) : Seats[k][i] \in Users
    <3>1. Len(Seats[k]) \in {1, 2} /\ tx[k].seat \in {1, 2} /\ tx[k].seat <= Len(Seats[k])
      BY <2>0, Sized DEF RecordInv, Shape, Transaction, Ordered
    <3>2. Updated(k) \in 0..Len(Seats[k]) /\ Rerated(k) \in 0..Len(Seats[k]) /\ Read(k) \in 0..Len(Seats[k])
      BY <3>1 DEF Updated, Rerated, Read
    <3>. QED BY <2>0, <3>2, Sized
  <2>6. /\ \A i \in 1..Updated(k) : stats'[Seats[k][i]] = stats[Seats[k][i]]
        /\ \A i \in 1..Rerated(k) : rating'[Seats[k][i]] = rating[Seats[k][i]]
        /\ (~overlap => \A i \in 1..Read(k) : rating'[Seats[k][i]] = rating[Seats[k][i]])
    <3>1. \A i \in 1..Updated(k) : stats'[Seats[k][i]] = stats[Seats[k][i]]
      BY <1>0, <2>4, <2>5
    <3>2. \A i \in 1..Rerated(k) : rating'[Seats[k][i]] = rating[Seats[k][i]]
      BY <1>0, <2>4, <2>5
    <3>3. ~overlap => \A i \in 1..Read(k) : rating'[Seats[k][i]] = rating[Seats[k][i]]
      BY <1>0, <2>4, <2>5
    <3>. QED BY <3>1, <3>2, <3>3
  <2>7. Counts(k)'
    <3>1. Counts(k)
      BY <2>0 DEF RecordInv
    <3>. QED BY <2>0, <2>1, <2>6, <3>1 DEF Counts
  <2>8. Current(k)'
    <3>1. Current(k)
      BY <2>0 DEF RecordInv
    <3>. QED BY <1>0, <2>0, <2>1, <2>6, <3>1 DEF Current
  <2>. QED BY <2>2, <2>3, <2>7, <2>8
<1>7. Apart'
  <2>1. \A k \in Matches : Active(k)' => Active(k)
    BY <1>0 DEF Active
  <2>. QED BY <1>0, <2>1 DEF RecordInv, Apart, Players
<1>8. Unchanged'
  <2>. SUFFICES ASSUME NEW k \in Matches, ~At(k, "committed")', NEW u \in Users
                PROVE  delta'[k][u] = 0
    BY DEF Unchanged
  <2>1. k # m
    BY <1>0
  <2>2. ~At(k, "committed") /\ delta'[k] = delta[k]
    BY <1>0, <2>1 DEF At
  <2>. QED BY <2>2 DEF RecordInv, Unchanged
<1>9. Best'
  <2>. SUFFICES ASSUME NEW u \in Users
                PROVE  rating'[u].peak >= rating'[u].elo /\ stats'[u].best >= stats'[u].streak
    BY DEF Best
  <2>0. rating[u].peak >= rating[u].elo /\ stats[u].best >= stats[u].streak
    BY DEF RecordInv, Best
  <2>1. CASE u \notin Players(m)
    BY <1>0, <2>0, <2>1
  <2>2. CASE u \in Players(m)
    <3>1. stats'[u] = tx[m].stats[SeatOf(m, u)]
      BY <2>2 DEF Commit
    <3>2. stats'[u].best >= stats'[u].streak
      BY <1>0, <2>2, <3>1, Written
    <3>3. CASE m \in Ranked
      <4>1. rating'[u] = tx[m].rating[SeatOf(m, u)]
        BY <2>2, <3>3 DEF Commit
      <4>. QED BY <1>0, <2>2, <3>2, <3>3, <4>1, Written
    <3>4. CASE m \notin Ranked
      BY <1>0, <2>0, <3>2, <3>4
    <3>. QED BY <3>3, <3>4
  <2>. QED BY <2>1, <2>2
<1>10. AbortNeedsExchangedSeats'
  <2>1. ~At(m, "aborted")'
    BY <1>0 DEF At
  <2>. QED BY <1>0, <2>1, AbortsStay
<1>. QED BY <1>0, <1>2, <1>5, <1>6, <1>7, <1>8, <1>9, <1>10, CommitCounts, CommitAddsUp DEF RecordInv

(***************************************************************************)
(* Deadlocks                                                               *)
(***************************************************************************)

Waits(m) == Blocker(m) # NoUser

(* Nobody waits for a rating: whoever has locked that row has the statistics
   of the same player too, and these were locked before. *)
LEMMA WaitsForStatistics ==
  ASSUME ConstantsOK, RecordInv, NEW m \in Matches, Waits(m)
  PROVE  /\ At(m, "stats") /\ Blocker(m) \in Matches /\ Blocker(m) # m
         /\ Blocker(m) = locks["stats"][Player(m)]
<1>1. At(m, "stats") \/ At(m, "rating")
  BY DEF Waits, Blocker
<1>2. ~Free(tx[m].at, m) /\ Blocker(m) = locks[tx[m].at][Player(m)]
  BY DEF Waits, Blocker
<1>3. Player(m) \in Users /\ Player(m) = Seats[m][tx[m].seat] /\ tx[m].seat \in 1..Len(Seats[m])
  BY Turn
<1>4. Blocker(m) \in Matches /\ Blocker(m) # m
  <2>1. tx[m].at \in Tables
    BY <1>1 DEF At, Tables
  <2>2. locks[tx[m].at][Player(m)] \in Matches \union {NoUser}
    BY <1>3, <2>1 DEF RecordInv, Shape
  <2>. QED BY <1>2, <2>2 DEF Free
<1>5. CASE At(m, "rating")
  <2>. DEFINE o == Blocker(m)
  <2>1. locks["rating"][Player(m)] = o /\ o \in Matches /\ o # m
    BY <1>2, <1>4, <1>5 DEF At
  <2>. HIDE DEF o
  <2>2. Holds(o) /\ Holds(m) /\ Ordered(o)
    BY <2>1 DEF RecordInv
  <2>3. PICK i \in 1..Rerated(o) : Seats[o][i] = Player(m)
    BY <1>3, <2>1, <2>2 DEF Holds
  <2>4. i \in 1..Updated(o)
    <3>1. Len(Seats[o]) \in {1, 2} /\ tx[o].seat \in {1, 2}
      BY <2>1, Sized DEF RecordInv, Shape, Transaction
    <3>2. Rerated(o) <= Updated(o) /\ Rerated(o) \in Int /\ Updated(o) \in Int
      BY <3>1 DEF Rerated, Updated, At
    <3>. QED BY <3>2
  <2>5. locks["stats"][Player(m)] = o
    BY <1>3, <2>2, <2>3, <2>4 DEF Holds
  <2>6. Updated(m) = tx[m].seat
    BY <1>5 DEF Updated, At
  <2>7. locks["stats"][Player(m)] = m
    BY <1>3, <2>2, <2>6 DEF Holds
  <2>. QED BY <2>1, <2>5, <2>7
<1>6. CASE At(m, "stats")
  BY <1>2, <1>4, <1>6 DEF At
<1>. QED BY <1>1, <1>5, <1>6

(* A match with a second seat has two. *)
LEMMA OneOrTwo ==
  ASSUME NEW n \in {1, 2}, NEW s, s = 2, s <= n
  PROVE  n = 2
<1>1. CASE n = 1
  BY <1>1
<1>. QED BY <1>1

(* One that waits for another that waits wants the row of its first player,
   which is all the other has locked. *)
LEMMA WaitsForTheFirst ==
  ASSUME ConstantsOK, RecordInv, NEW m \in Matches, Waits(m), Waits(Blocker(m))
  PROVE  LET o == Blocker(m)
         IN Len(Seats[o]) = 2 /\ tx[o].seat = 2 /\ Seats[o][1] = Player(m) /\ Player(o) = Seats[o][2]
<1>. DEFINE o == Blocker(m)
<1>1. o \in Matches /\ o = locks["stats"][Player(m)] /\ Waits(o)
  BY WaitsForStatistics
<1>. HIDE DEF o
<1>2. At(o, "stats")
  BY <1>1, WaitsForStatistics
<1>3. Holds(o) /\ Player(m) \in Users
  BY <1>1, Turn DEF RecordInv
<1>4. PICK i \in 1..Updated(o) : Seats[o][i] = Player(m)
  BY <1>1, <1>3 DEF Holds
<1>5. Len(Seats[o]) \in {1, 2} /\ tx[o].seat \in {1, 2} /\ tx[o].seat <= Len(Seats[o])
  BY <1>1, Sized DEF RecordInv, Shape, Transaction, Ordered
<1>6. Updated(o) = tx[o].seat - 1
  BY <1>2 DEF Updated, At
<1>7. tx[o].seat = 2 /\ Len(Seats[o]) = 2 /\ i = 1
  <2>1. CASE tx[o].seat = 1
    BY <1>4, <1>6, <2>1
  <2>2. CASE tx[o].seat = 2
    <3>1. Updated(o) = 1
      BY <1>6, <2>2
    <3>3. Len(Seats[o]) = 2
      BY <1>5, <2>2, OneOrTwo
    <3>2. i = 1
      BY <1>4, <3>1
    <3>. QED BY <2>2, <3>2, <3>3
  <2>. QED BY <1>5, <2>1, <2>2
<1>. QED BY <1>4, <1>7 DEF o, Player

(* Some number of a set of them is least. *)
LEMMA LeastNumber ==
  ASSUME NEW N \in Nat, NEW B \in SUBSET (0..N), B # {}
  PROVE  \E n \in B : \A k \in B : n <= k
<1>. DEFINE All == 0..N
            Sets == {0..n : n \in B}
<1>1. IsFiniteSet(All)
  BY FS_Interval
<1>2. Sets \in SUBSET SUBSET All /\ Sets # {}
  <2>1. \A n \in B : 0..n \subseteq 0..N
    OBVIOUS
  <2>. QED BY <2>1
<1>3. PICK s \in Sets : \A r \in Sets : ~(r \subseteq s /\ r # s)
  <2>. HIDE DEF Sets, All
  <2>. QED BY <1>1, <1>2, LeastSet
<1>4. PICK n \in B : s = 0..n
  OBVIOUS
<1>5. ASSUME NEW k \in B, k < n PROVE FALSE
  <2>1. 0..k \in Sets /\ 0..k \subseteq s
    BY <1>4, <1>5
  <2>2. n \in s /\ n \notin 0..k
    BY <1>4, <1>5
  <2>. QED BY <1>3, <2>1, <2>2
<1>6. \A k \in B : n <= k
  BY <1>5
<1>. QED BY <1>6

(* f takes the step next up to n times. *)
Steps(f, n, first, next) == \A k \in 0..n : f[k] = IF k = 0 THEN first ELSE next[f[k - 1]]

(* A step can be taken any number of times. *)
LEMMA Iterates ==
  ASSUME NEW V, NEW next, next \in [V -> V], NEW first, first \in V, NEW N, N \in Nat
  PROVE  \E f \in [0..N -> V] : Steps(f, N, first, next)
<1>. DEFINE Has(n) == \E f \in [0..n -> V] : \A k \in 0..n : f[k] = IF k = 0 THEN first ELSE next[f[k - 1]]
            Bad == {n \in 0..N : ~Has(n)}
<1>1. ASSUME Bad # {} PROVE FALSE
  <2>1. PICK n \in Bad : \A k \in Bad : n <= k
    <3>1. Bad \in SUBSET (0..N)
      OBVIOUS
    <3>. HIDE DEF Bad
    <3>. QED BY <1>1, <3>1, LeastNumber
  <2>2. CASE n = 0
    <3>. DEFINE f == [k \in 0..0 |-> first]
    <3>1. f \in [0..0 -> V] /\ \A k \in 0..0 : f[k] = IF k = 0 THEN first ELSE next[f[k - 1]]
      OBVIOUS
    <3>2. Has(0)
      <4>. HIDE DEF f
      <4>. QED BY <3>1
    <3>. QED BY <2>2, <3>2
  <2>3. CASE n # 0
    <3>1. n - 1 \in 0..N /\ n - 1 \notin Bad /\ n \in 0..N
      <4>. HIDE DEF Has
      <4>. QED BY <2>1, <2>3
    <3>2. Has(n - 1)
      <4>. HIDE DEF Has
      <4>. QED BY <3>1
    <3>3. PICK f \in [0..(n - 1) -> V] : \A k \in 0..(n - 1) : f[k] = IF k = 0 THEN first ELSE next[f[k - 1]]
      BY <3>2
    <3>. DEFINE g == [k \in 0..n |-> IF k = n THEN next[f[n - 1]] ELSE f[k]]
    <3>4. \A k \in 0..n : k # n => k \in 0..(n - 1)
      BY <3>1
    <3>5. n - 1 \in 0..(n - 1)
      BY <3>1
    <3>6. g \in [0..n -> V]
      BY <3>3, <3>4, <3>5
    <3>7. ASSUME NEW k \in 0..n PROVE g[k] = IF k = 0 THEN first ELSE next[g[k - 1]]
      <4>1. CASE k = n
        <5>1. k - 1 \in 0..n /\ k - 1 # n
          BY <2>3, <3>1, <4>1
        <5>2. g[k] = next[f[n - 1]] /\ g[k - 1] = f[n - 1]
          BY <4>1, <5>1
        <5>. QED BY <2>3, <4>1, <5>2
      <4>2. CASE k # n
        <5>1. g[k] = f[k] /\ k \in 0..(n - 1)
          BY <3>4, <4>2
        <5>2. k # 0 => k - 1 \in 0..n /\ k - 1 # n
          BY <3>1, <5>1
        <5>3. k # 0 => g[k - 1] = f[k - 1]
          BY <5>2
        <5>. QED BY <3>3, <5>1, <5>3
      <4>. QED BY <4>1, <4>2
    <3>8. Has(n)
      <4>. HIDE DEF g
      <4>. QED BY <3>6, <3>7
    <3>. QED BY <3>8
  <2>. QED BY <2>2, <2>3
<1>2. N \in 0..N
  OBVIOUS
<1>3. Has(N)
  <2>. HIDE DEF Has
  <2>. QED BY <1>1, <1>2
<1>. QED BY <1>3 DEF Steps

(* Nobody waits for anything but a match. *)
LEMMA BlockerIs ==
  ASSUME ConstantsOK, RecordInv, NEW m \in Matches
  PROVE  Blocker(m) \in Matches \union {NoUser}
<1>1. CASE Blocker(m) = NoUser
  BY <1>1
<1>2. CASE Blocker(m) # NoUser
  BY <1>2, WaitsForStatistics DEF Waits
<1>. QED BY <1>1, <1>2

(* A deadlock is a cycle of transactions that wait for one another. *)
LEMMA DeadlockIsACycle ==
  ASSUME ConstantsOK, RecordInv, NEW m \in Matches, Deadlocked(m)
  PROVE  \E n \in Nat : \E f \in [0..n -> Matches] :
           /\ n > 0 /\ f[0] = m /\ f[n] = m
           /\ \A k \in 0..(n - 1) : Waits(f[k]) /\ f[k + 1] = Blocker(f[k])
<1>. DEFINE V == Matches \union {NoUser}
            N == Cardinality(Matches)
            P(f) == f = [k \in 0..N |->
                           IF k = 0 THEN m ELSE IF f[k - 1] = NoUser THEN NoUser ELSE Blocker(f[k - 1])]
            follow == CHOOSE f : P(f)
            next == [v \in V |-> IF v = NoUser THEN NoUser ELSE Blocker(v)]
<1>0. N \in Nat
  BY FS_CardinalityType DEF ConstantsOK
<1>1. \E k \in 1..N : follow[k] = m
  BY DEF Deadlocked
<1>2. next \in [V -> V]
  BY BlockerIs
<1>. HIDE DEF N
<1>3. PICK f \in [0..N -> V] : \A k \in 0..N : f[k] = IF k = 0 THEN m ELSE next[f[k - 1]]
  <2>1. m \in V
    OBVIOUS
  <2>2. next \in [V -> V]
    BY <1>2
  <2>3. \E f \in [0..N -> V] : Steps(f, N, m, next)
    <3>. HIDE DEF V, next
    <3>. QED BY <1>0, <2>1, <2>2, Iterates
  <2>. QED BY <2>3 DEF Steps
<1>4. P(f)
  <2>1. ASSUME NEW k \in 0..N
        PROVE  f[k] = IF k = 0 THEN m ELSE IF f[k - 1] = NoUser THEN NoUser ELSE Blocker(f[k - 1])
    <3>1. CASE k = 0
      BY <1>3, <3>1
    <3>2. CASE k # 0
      <4>1. k - 1 \in 0..N
        BY <1>0, <3>2
      <4>2. f[k - 1] \in V
        BY <4>1
      <4>. HIDE DEF V
      <4>3. next[f[k - 1]] = IF f[k - 1] = NoUser THEN NoUser ELSE Blocker(f[k - 1])
        BY <4>2
      <4>. HIDE DEF next
      <4>. QED BY <1>3, <3>2, <4>3
    <3>. QED BY <3>1, <3>2
  <2>. HIDE DEF V
  <2>. QED BY <2>1
<1>5. P(follow)
  <2>. HIDE DEF P
  <2>. QED BY <1>4
<1>. HIDE DEF follow
<1>6. /\ \A k \in 0..N :
           follow[k] = IF k = 0 THEN m ELSE IF follow[k - 1] = NoUser THEN NoUser ELSE Blocker(follow[k - 1])
  BY <1>5
<1>. HIDE DEF P
<1>7. PICK n \in 1..N : follow[n] = m
  BY <1>1
<1>8. ASSUME NEW k \in 0..n PROVE follow[k] \in Matches
  <2>. DEFINE Lost == {j \in 0..n : follow[j] \notin Matches}
  <2>1. ASSUME Lost # {} PROVE FALSE
    <3>1. PICK j \in Lost : \A i \in Lost : j <= i
      <4>1. Lost \in SUBSET (0..n) /\ n \in Nat
        BY <1>0
      <4>. HIDE DEF Lost
      <4>. QED BY <2>1, <4>1, LeastNumber
    <3>2. j \in 0..n /\ follow[j] \notin Matches /\ j # 0 /\ j # n
      BY <1>0, <1>6, <1>7
    <3>3. j - 1 \in 0..n /\ j - 1 \notin Lost
      BY <1>0, <3>1, <3>2
    <3>4. follow[j - 1] \in Matches
      BY <3>3
    <3>5. follow[j] = Blocker(follow[j - 1])
      BY <1>0, <1>6, <3>2, <3>4, NoMatchIsNoUser
    <3>6. follow[j] = NoUser
      BY <3>2, <3>4, <3>5, BlockerIs
    <3>. DEFINE Late == {i \in 0..n : i >= j /\ follow[i] # NoUser}
    <3>7. ASSUME Late # {} PROVE FALSE
      <4>1. PICK i \in Late : \A h \in Late : i <= h
        <5>1. Late \in SUBSET (0..n) /\ n \in Nat
          BY <1>0
        <5>. HIDE DEF Late
        <5>. QED BY <3>7, <5>1, LeastNumber
      <4>2. i \in 0..n /\ i > j /\ follow[i] # NoUser
        BY <1>0, <3>2, <3>6
      <4>3. i - 1 \in 0..n /\ i - 1 >= j /\ i - 1 \notin Late
        BY <1>0, <3>2, <4>1, <4>2
      <4>4. follow[i - 1] = NoUser
        BY <4>3
      <4>5. follow[i] = NoUser
        BY <1>0, <1>6, <3>2, <4>2, <4>4
      <4>. QED BY <4>2, <4>5
    <3>8. n \in 0..n /\ n >= j /\ follow[n] # NoUser
      BY <1>0, <1>7, <3>2, NoMatchIsNoUser
    <3>. QED BY <3>7, <3>8
  <2>. QED BY <2>1
<1>. DEFINE g == [k \in 0..n |-> follow[k]]
<1>9. n \in Nat /\ n > 0 /\ n <= N /\ 0 \in 0..n /\ n \in 0..n
  BY <1>0
<1>10. g \in [0..n -> Matches]
  BY <1>8
<1>11. g[0] = m /\ g[n] = m
  BY <1>0, <1>6, <1>7, <1>9
<1>12. ASSUME NEW k \in 0..(n - 1) PROVE Waits(g[k]) /\ g[k + 1] = Blocker(g[k])
  <2>1. k \in 0..n /\ k + 1 \in 0..n /\ k + 1 \in 0..N /\ k + 1 # 0 /\ (k + 1) - 1 = k
    BY <1>0, <1>9
  <2>2. g[k] = follow[k] /\ g[k + 1] = follow[k + 1]
    BY <2>1
  <2>3. follow[k] \in Matches /\ follow[k + 1] \in Matches
    BY <1>8, <2>1
  <2>4. follow[k + 1] = IF follow[k] = NoUser THEN NoUser ELSE Blocker(follow[k])
    BY <1>6, <2>1
  <2>. HIDE DEF g
  <2>. QED BY <2>2, <2>3, <2>4, NoMatchIsNoUser DEF Waits
<1>. HIDE DEF g
<1>. QED BY <1>9, <1>10, <1>11, <1>12

(* Its players sit one way round in one match and, by way of the others, the
   other way round. *)
LEMMA DeadlockNeedsExchange ==
  ASSUME ConstantsOK, RecordInv, NEW m \in Matches, Deadlocked(m)
  PROVE  Len(Seats[m]) = 2 /\ SitsBefore(Seats[m][2], Seats[m][1])
<1>0. PICK n \in Nat : \E f \in [0..n -> Matches] :
        /\ n > 0 /\ f[0] = m /\ f[n] = m
        /\ \A k \in 0..(n - 1) : Waits(f[k]) /\ f[k + 1] = Blocker(f[k])
  BY DeadlockIsACycle
<1>1. PICK f \in [0..n -> Matches] :
        /\ n > 0 /\ f[0] = m /\ f[n] = m
        /\ \A k \in 0..(n - 1) : Waits(f[k]) /\ f[k + 1] = Blocker(f[k])
  BY <1>0
<1>2. \A k \in 0..n : f[k] \in Matches
  OBVIOUS
<1>3. \A k \in 0..n : Waits(f[k])
  <2>. SUFFICES ASSUME NEW k \in 0..n PROVE Waits(f[k])
    OBVIOUS
  <2>1. CASE k = n
    <3>1. 0 \in 0..(n - 1)
      BY <1>1
    <3>. QED BY <1>1, <2>1, <3>1
  <2>2. CASE k # n
    <3>1. k \in 0..(n - 1)
      BY <2>2
    <3>. QED BY <1>1, <3>1
  <2>. QED BY <2>1, <2>2
<1>4. ASSUME NEW k \in 0..(n - 1)
      PROVE  /\ Len(Seats[f[k + 1]]) = 2 /\ Seats[f[k + 1]][1] = Player(f[k])
             /\ Player(f[k + 1]) = Seats[f[k + 1]][2]
  <2>1. k \in 0..n /\ k + 1 \in 0..n
    OBVIOUS
  <2>2. Waits(f[k]) /\ f[k + 1] = Blocker(f[k]) /\ Waits(f[k + 1]) /\ f[k] \in Matches
    BY <1>1, <1>2, <1>3, <2>1
  <2>. QED BY <2>2, WaitsForTheFirst
<1>5. /\ Len(Seats[m]) = 2 /\ Player(m) = Seats[m][2]
  <2>1. n - 1 \in 0..(n - 1) /\ (n - 1) + 1 = n
    BY <1>1
  <2>. QED BY <1>1, <1>4, <2>1
<1>6. ASSUME NEW S \in SUBSET Users, Seats[m][2] \in S,
             \A o \in Matches : Len(Seats[o]) = 2 /\ Seats[o][1] \in S => Seats[o][2] \in S
      PROVE  Seats[m][1] \in S
  <2>. DEFINE Bad == {k \in 0..n : Player(f[k]) \notin S}
  <2>1. ASSUME Bad # {} PROVE FALSE
    <3>1. PICK k \in Bad : \A j \in Bad : k <= j
      <4>1. Bad \in SUBSET (0..n)
        OBVIOUS
      <4>. HIDE DEF Bad
      <4>. QED BY <2>1, <4>1, LeastNumber
    <3>2. k \in 0..n /\ Player(f[k]) \notin S /\ k # 0
      BY <1>1, <1>5, <1>6
    <3>3. k - 1 \in 0..(n - 1) /\ k - 1 \in 0..n /\ (k - 1) + 1 = k /\ k - 1 \notin Bad
      BY <3>1, <3>2
    <3>4. Player(f[k - 1]) \in S
      BY <3>3
    <3>5. Len(Seats[f[k]]) = 2 /\ Seats[f[k]][1] = Player(f[k - 1]) /\ Player(f[k]) = Seats[f[k]][2]
      BY <1>4, <3>3
    <3>. QED BY <1>2, <1>6, <3>2, <3>4, <3>5
  <2>2. n - 1 \in 0..(n - 1) /\ n - 1 \in 0..n /\ (n - 1) + 1 = n
    BY <1>1
  <2>3. Seats[m][1] = Player(f[n - 1])
    BY <1>1, <1>4, <2>2
  <2>. QED BY <2>1, <2>2, <2>3
<1>. QED BY <1>5, <1>6 DEF SitsBefore

(* The abort of a transaction that is in a deadlock. *)
LEMMA DeadlockKeeps ==
  ASSUME ConstantsOK, RecordInv, NEW m \in Matches, DeadlockDetected(m)
  PROVE  RecordInv'
<1>1. tx' = [tx EXCEPT ![m] = [Fresh EXCEPT !.at = "aborted"]] /\ UNCHANGED <<stats, rating, delta, overlap>>
  BY DEF DeadlockDetected
<1>2. Release(m) /\ Deadlocked(m)
  BY DEF DeadlockDetected
<1>3. /\ tx'[m] = [Fresh EXCEPT !.at = "aborted"] /\ \A k \in Matches \ {m} : tx'[k] = tx[k]
      /\ tx' \in [Matches -> Transaction]
  <2>1. << >> \in Seq(Before) /\ << >> \in Seq(StatsRow) /\ << >> \in Seq(RatingRow)
    OBVIOUS
  <2>2. [Fresh EXCEPT !.at = "aborted"] \in Transaction
    BY <2>1 DEF Fresh, Transaction, States
  <2>. QED BY <1>1, <2>2 DEF RecordInv, Shape
<1>4. /\ tx'[m].at = "aborted" /\ tx'[m].seat = 1 /\ tx'[m].winner = NoUser
      /\ Len(tx'[m].before) = 0 /\ Len(tx'[m].stats) = 0 /\ Len(tx'[m].rating) = 0
  BY <1>3 DEF Fresh
<1>5. ~At(m, "committed") /\ Active(m)
  <2>0. PICK n \in Nat : \E f \in [0..n -> Matches] :
          n > 0 /\ f[0] = m /\ \A k \in 0..(n - 1) : Waits(f[k])
    BY <1>2, DeadlockIsACycle
  <2>1. PICK f \in [0..n -> Matches] :
          n > 0 /\ f[0] = m /\ \A k \in 0..(n - 1) : Waits(f[k])
    BY <2>0
  <2>2. 0 \in 0..(n - 1)
    BY <2>1
  <2>3. Waits(m)
    BY <2>1, <2>2
  <2>. QED BY <2>3, WaitsForStatistics DEF At, Active
<1>6. ~At(m, "committed")'
  BY <1>4 DEF At
<1>7. /\ \A k \in Matches \ {m} : Ordered(k)' /\ Counts(k)' /\ Current(k)'
      /\ Unchanged' /\ Best' /\ GamesCounted' /\ RatingsAddUp' /\ Apart'
  BY <1>1, <1>3, <1>5, <1>6, Quiet, StaysApart
<1>8. Read(m)' = 0 /\ Updated(m)' = 0 /\ Rerated(m)' = 0
  BY <1>4 DEF Read, Updated, Rerated, At
<1>9. Ordered(m)' /\ Counts(m)' /\ Current(m)'
  <2>1. Ordered(m)'
    <3>1. 1 <= Len(Seats[m])
      BY Sized
    <3>. QED BY <1>4, <1>8, <3>1 DEF Ordered, At
  <2>. QED BY <1>8, <2>1 DEF Counts, Current
<1>10. /\ locks' \in [Tables -> [Users -> Matches \union {NoUser}]]
       /\ \A k \in Matches, t \in Tables, u \in Users : locks'[t][u] = k <=> k # m /\ locks[t][u] = k
  BY <1>2, ReleaseIs
<1>11. Holds(m)'
  BY <1>8, <1>10 DEF Holds, Tables
<1>12. ASSUME NEW k \in Matches \ {m} PROVE Holds(k)'
  <2>1. \A t \in Tables, u \in Users : locks'[t][u] = k <=> locks[t][u] = k
    BY <1>10
  <2>. QED BY <1>3, <2>1, OthersHold
<1>13. AbortNeedsExchangedSeats'
  <2>. SUFFICES ASSUME NEW k \in Matches, tx'[k].at = "aborted"
                PROVE  Len(Seats[k]) = 2 /\ SitsBefore(Seats[k][2], Seats[k][1])
    BY DEF AbortNeedsExchangedSeats, SitsBefore
  <2>1. CASE k = m
    BY <1>2, <2>1, DeadlockNeedsExchange
  <2>2. CASE k # m
    BY <1>3, <2>2 DEF RecordInv, AbortNeedsExchangedSeats
  <2>. QED BY <2>1, <2>2
<1>14. Shape'
  BY <1>1, <1>3, <1>10 DEF RecordInv, Shape
<1>. QED BY <1>7, <1>9, <1>11, <1>12, <1>13, <1>14 DEF RecordInv

(***************************************************************************)
(* What friends are shown                                                  *)
(***************************************************************************)

(* Sets that have nothing in common have together as many elements as the sum
   says. *)
LEMMA SumOfApart ==
  ASSUME NEW S, IsFiniteSet(S), NEW T, IsFiniteSet(T), NEW G \in [S -> SUBSET T],
         \A x, y \in S : x # y => G[x] \intersect G[y] = {}
  PROVE  SumFunctionOnSet([x \in S |-> Cardinality(G[x])], S) <= Cardinality(T)
<1>. DEFINE g == [x \in S |-> Cardinality(G[x])]
            Of(s) == {m \in T : \E x \in s : m \in G[x]}
<1>1. \A R \in SUBSET T : IsFiniteSet(R) /\ Cardinality(R) \in Nat /\ Cardinality(R) <= Cardinality(T)
  BY FS_Subset, FS_CardinalityType
<1>2. g \in [S -> Int]
  <2>1. \A x \in S : Cardinality(G[x]) \in Int
    BY <1>1
  <2>. QED BY <2>1
<1>3. PICK it : Sums(it, S, g) /\ SumFunctionOnSet(g, S) = it[S]
  <2>. HIDE DEF g
  <2>. QED BY <1>2, SumIs
<1>. DEFINE Bad == {s \in SUBSET S : it[s] # Cardinality(Of(s))}
<1>4. ASSUME Bad # {} PROVE FALSE
  <2>1. PICK s \in Bad : \A r \in Bad : ~(r \subseteq s /\ r # s)
    <3>1. Bad \in SUBSET SUBSET S
      OBVIOUS
    <3>. HIDE DEF Bad
    <3>. QED BY <1>4, <3>1, LeastSet
  <2>2. s \in SUBSET S /\ it[s] # Cardinality(Of(s))
    <3>. HIDE DEF Of
    <3>. QED OBVIOUS
  <2>3. s # {}
    <3>1. Of({}) = {} /\ Cardinality({}) = 0
      BY FS_EmptySet
    <3>2. it[{}] = 0
      BY <1>3 DEF Sums
    <3>. HIDE DEF Of, Bad
    <3>. QED BY <2>2, <3>1, <3>2
  <2>. DEFINE x == Pick(s)
              r == s \ {x}
  <2>4. x \in s /\ x \in S /\ r \in SUBSET S /\ r \subseteq s /\ r # s
    BY <2>2, <2>3, PickIs
  <2>. HIDE DEF x
  <2>5. it[r] = Cardinality(Of(r))
    <3>. HIDE DEF Of, r
    <3>. QED BY <2>1, <2>4
  <2>6. it[s] = g[x] + it[r]
    <3>. HIDE DEF g
    <3>. QED BY <1>3, <2>2, <2>3 DEF Sums, x
  <2>7. g[x] = Cardinality(G[x])
    BY <2>4
  <2>8. Of(s) = G[x] \union Of(r)
    BY <2>4
  <2>9. G[x] \intersect Of(r) = {}
    BY <2>2, <2>4
  <2>10. G[x] \in SUBSET T /\ Of(r) \in SUBSET T
    BY <2>4
  <2>. HIDE DEF Of, g, r, Bad
  <2>11. Cardinality(Of(s)) = Cardinality(G[x]) + Cardinality(Of(r)) - Cardinality({})
    BY <1>1, <2>8, <2>9, <2>10, FS_Union
  <2>12. Cardinality({}) = 0
    BY FS_EmptySet
  <2>13. Cardinality(G[x]) \in Nat /\ Cardinality(Of(r)) \in Nat
    BY <1>1, <2>10
  <2>. QED BY <2>2, <2>5, <2>6, <2>7, <2>11, <2>12, <2>13
<1>5. it[S] = Cardinality(Of(S))
  <2>. HIDE DEF Of
  <2>. QED BY <1>4
<1>6. Of(S) \in SUBSET T
  OBVIOUS
<1>. HIDE DEF Of
<1>7. Cardinality(Of(S)) <= Cardinality(T)
  BY <1>1, <1>6
<1>. QED BY <1>3, <1>5, <1>7

(* The finished games of two friends, and those that w won. *)
Between(u, f) == {m \in Shared(u, f) : Finished(m)}
WonBetween(u, f, w) == {m \in Between(u, f) : tx[m].winner = w}

(* Between two friends are games of just the two, which one of them has won. *)
LEMMA BetweenTwo ==
  ASSUME ConstantsOK, RecordInv, NEW u \in Users, NEW f \in Users, u # f, NEW m \in Between(u, f)
  PROVE  m \in Matches /\ Players(m) = {u, f} /\ m \in Committed(u) /\ tx[m].winner \in {u, f}
<1>1. m \in Matches /\ {u, f} \subseteq Players(m) /\ At(m, "committed")
  BY DEF ConstantsOK, Between, Shared, Finished, At
<1>2. Len(Seats[m]) = 2 /\ Players(m) = {u, f}
  <2>1. CASE Len(Seats[m]) = 1
    <3>1. Players(m) = {Seats[m][1]}
      BY <1>1, <2>1, PlayersAre
    <3>. QED BY <1>1, <3>1
  <2>2. CASE Len(Seats[m]) = 2
    <3>1. Players(m) = {Seats[m][1], Seats[m][2]}
      <4>1. 1..2 = {1, 2}
        OBVIOUS
      <4>. QED BY <1>1, <2>2, <4>1, PlayersAre
    <3>. QED BY <1>1, <2>2, <3>1
  <2>. QED BY <1>1, <2>1, <2>2, Sized
<1>3. tx[m].winner \in Winners(m)
  BY <1>1 DEF RecordInv, Ordered, At
<1>. QED BY <1>1, <1>2, <1>3 DEF Winners, Committed, At

(* What two friends are shown of each other agrees. *)
LEMMA HeadToHeadAgrees ==
  ASSUME ConstantsOK, RecordInv, NEW u \in Users, NEW f \in Users, u # f
  PROVE  /\ HeadToHead(u, f).games = HeadToHead(f, u).games
         /\ HeadToHead(u, f).yourWins = HeadToHead(f, u).theirWins
         /\ HeadToHead(u, f).games = HeadToHead(u, f).yourWins + HeadToHead(u, f).theirWins
<1>1. Between(u, f) = Between(f, u)
  BY DEF Between, Shared
<1>2. \A a, b : /\ HeadToHead(a, b).games = Cardinality(Between(a, b))
                /\ HeadToHead(a, b).theirWins = Cardinality(WonBetween(a, b, b))
                /\ HeadToHead(a, b).yourWins = Cardinality(WonBetween(a, b, a))
  BY DEF HeadToHead, Between, WonBetween
<1>3. WonBetween(u, f, u) = WonBetween(f, u, u)
  BY <1>1 DEF WonBetween
<1>4. /\ Between(u, f) = WonBetween(u, f, u) \union WonBetween(u, f, f)
      /\ WonBetween(u, f, u) \intersect WonBetween(u, f, f) = {}
  <2>1. \A m \in Between(u, f) : tx[m].winner \in {u, f}
    BY BetweenTwo
  <2>. QED BY <2>1 DEF WonBetween
<1>5. IsFiniteSet(WonBetween(u, f, u)) /\ IsFiniteSet(WonBetween(u, f, f))
  <2>1. IsFiniteSet(Matches)
    BY DEF ConstantsOK
  <2>2. WonBetween(u, f, u) \in SUBSET Matches /\ WonBetween(u, f, f) \in SUBSET Matches
    BY BetweenTwo DEF WonBetween
  <2>. QED BY <2>1, <2>2, FS_Subset
<1>6. Cardinality(Between(u, f))
        = Cardinality(WonBetween(u, f, u)) + Cardinality(WonBetween(u, f, f)) - Cardinality({})
  BY <1>4, <1>5, FS_Union
<1>7. Cardinality({}) = 0 /\ Cardinality(WonBetween(u, f, u)) \in Nat /\ Cardinality(WonBetween(u, f, f)) \in Nat
  BY <1>5, FS_EmptySet, FS_CardinalityType
<1>. QED BY <1>1, <1>2, <1>3, <1>6, <1>7

(* What a user is shown of all the friends is within the statistics: no game is
   shown for two of them. *)
LEMMA FriendsCount ==
  ASSUME ConstantsOK, RecordInv, NEW u \in Users
  PROVE  /\ SumFunctionOnSet([f \in FriendsOf(u) |-> HeadToHead(u, f).games], FriendsOf(u)) <= stats[u].games
         /\ SumFunctionOnSet([f \in FriendsOf(u) |-> HeadToHead(u, f).yourWins], FriendsOf(u)) <= stats[u].wins
<1>. DEFINE S == FriendsOf(u)
            all == [f \in S |-> Between(u, f)]
            won == [f \in S |-> WonBetween(u, f, u)]
<1>1. \A f \in S : f \in Users /\ f # u
  BY DEF FriendsOf
<1>2. IsFiniteSet(S) /\ IsFiniteSet(Committed(u)) /\ IsFiniteSet(Won(u))
  <2>1. S \in SUBSET Users /\ Committed(u) \in SUBSET Matches /\ Won(u) \in SUBSET Matches
    BY DEF FriendsOf, Committed, Won
  <2>2. IsFiniteSet(Users) /\ IsFiniteSet(Matches)
    BY DEF ConstantsOK
  <2>. HIDE DEF S
  <2>. QED BY <2>1, <2>2, FS_Subset
<1>3. \A f \in S : /\ HeadToHead(u, f).games = Cardinality(Between(u, f))
                   /\ HeadToHead(u, f).yourWins = Cardinality(WonBetween(u, f, u))
  BY DEF HeadToHead, Between, WonBetween
<1>. HIDE DEF S
<1>4. all \in [S -> SUBSET Committed(u)] /\ won \in [S -> SUBSET Won(u)]
  <2>1. \A f \in S : Between(u, f) \in SUBSET Committed(u)
    BY <1>1, BetweenTwo
  <2>2. \A f \in S : WonBetween(u, f, u) \in SUBSET Won(u)
    BY <2>1 DEF WonBetween, Won
  <2>. QED BY <2>1, <2>2
<1>5. ASSUME NEW f \in S, NEW h \in S, f # h PROVE Between(u, f) \intersect Between(u, h) = {}
  <2>. SUFFICES ASSUME NEW m \in Between(u, f), m \in Between(u, h) PROVE FALSE
    OBVIOUS
  <2>1. Players(m) = {u, f} /\ Players(m) = {u, h}
    BY <1>1, BetweenTwo
  <2>. QED BY <1>1, <1>5, <2>1
<1>6. \A f, h \in S : f # h => all[f] \intersect all[h] = {} /\ won[f] \intersect won[h] = {}
  BY <1>5 DEF WonBetween
<1>7. /\ [f \in S |-> HeadToHead(u, f).games] = [f \in S |-> Cardinality(all[f])]
      /\ [f \in S |-> HeadToHead(u, f).yourWins] = [f \in S |-> Cardinality(won[f])]
  BY <1>3
<1>8. stats[u].games = Cardinality(Committed(u)) /\ stats[u].wins = Cardinality(Won(u))
  BY DEF RecordInv, GamesCounted
<1>. HIDE DEF all, won
<1>9. SumFunctionOnSet([f \in S |-> Cardinality(all[f])], S) <= Cardinality(Committed(u))
  BY <1>2, <1>4, <1>6, SumOfApart
<1>10. SumFunctionOnSet([f \in S |-> Cardinality(won[f])], S) <= Cardinality(Won(u))
  BY <1>2, <1>4, <1>6, SumOfApart
<1>. QED BY <1>7, <1>8, <1>9, <1>10 DEF S

(***************************************************************************)
(* What is recorded                                                        *)
(***************************************************************************)

LEMMA RecordInvImplies == ASSUME ConstantsOK, RecordInv PROVE RecordsOK
<1>1. FriendsAgree
  BY HeadToHeadAgrees, FriendsCount DEF FriendsAgree, FriendsOf
<1>2. RecordsStand
  BY DEF RecordInv, Best, RecordsStand
<1>3. TypeOK
  <2>1. /\ stats \in [Users -> [games : Nat, wins : Nat, losses : Nat, streak : Nat, best : Nat]]
        /\ rating \in [Users -> [elo : Int, peak : Int, rated : Nat]]
        /\ locks \in [Tables -> [Users -> Matches \union {NoUser}]]
    BY DEF RecordInv, Shape, StatsRow, RatingRow
  <2>2. ASSUME NEW m \in Matches
        PROVE  /\ tx[m].at \in {"playing", "read", "stats", "rating", "commit", "committed", "aborted"}
               /\ tx[m].seat \in DOMAIN Seats[m]
               /\ tx[m].winner \in Players(m) \union {NoUser}
    <3>1. tx[m].at \in {"playing", "read", "stats", "rating", "commit", "committed", "aborted"}
      BY DEF RecordInv, Shape, Transaction, States
    <3>2. tx[m].seat \in DOMAIN Seats[m]
      <4>1. DOMAIN Seats[m] = 1..Len(Seats[m]) /\ tx[m].seat \in 1..Len(Seats[m])
        BY Sized, Turn
      <4>. QED BY <4>1
    <3>3. tx[m].winner \in Players(m) \union {NoUser}
      BY DEF RecordInv, Ordered, Winners
    <3>. QED BY <3>1, <3>2, <3>3
  <2>3. ASSUME NEW t \in Tables, NEW u \in Users, locks[t][u] \in Matches PROVE Active(locks[t][u])
    <3>. DEFINE m == locks[t][u]
    <3>1. m \in Matches /\ Holds(m)
      BY <2>3 DEF RecordInv
    <3>2. (\E i \in 1..Updated(m) : TRUE) \/ (\E i \in 1..Rerated(m) : TRUE)
      BY <3>1 DEF Holds, Tables
    <3>. HIDE DEF m
    <3>3. tx[m].at \in States
      BY <3>1 DEF RecordInv, Shape, Transaction
    <3>4. ASSUME ~Active(m) PROVE FALSE
      <4>1. tx[m].at \in {"playing", "committed", "aborted"}
        BY <3>3, <3>4 DEF Active, States
      <4>2. Updated(m) = 0 /\ Rerated(m) = 0
        BY <4>1 DEF Updated, Rerated, At
      <4>. QED BY <3>2, <4>2
    <3>. QED BY <3>4 DEF m
  <2>. QED BY <2>1, <2>2, <2>3 DEF TypeOK
<1>. QED BY <1>1, <1>2, <1>3 DEF RecordInv, RecordsOK

(* A step that changes nothing. *)
LEMMA RecordsStutter == ASSUME RecordInv, UNCHANGED vars PROVE RecordInv'
<1>1. /\ stats' = stats /\ rating' = rating /\ locks' = locks /\ tx' = tx
      /\ delta' = delta /\ overlap' = overlap
  BY DEF vars
<1>2. Shape'
  BY <1>1 DEF RecordInv, Shape
<1>3. ASSUME NEW m \in Matches PROVE Ordered(m)' /\ Holds(m)' /\ Counts(m)' /\ Current(m)'
  <2>1. Read(m)' = Read(m) /\ Updated(m)' = Updated(m) /\ Rerated(m)' = Rerated(m)
    BY <1>1 DEF Read, Updated, Rerated, At
  <2>2. Ordered(m) /\ Holds(m) /\ Counts(m) /\ Current(m)
    BY DEF RecordInv
  <2>3. Ordered(m)'
    BY <1>1, <2>1, <2>2 DEF Ordered, At
  <2>4. Holds(m)'
    BY <1>1, <2>1, <2>2 DEF Holds
  <2>5. Counts(m)'
    BY <1>1, <2>1, <2>2 DEF Counts
  <2>6. Current(m)'
    BY <1>1, <2>1, <2>2 DEF Current
  <2>. QED BY <2>3, <2>4, <2>5, <2>6
<1>4. Apart'
  BY <1>1 DEF RecordInv, Apart, Active
<1>5. Unchanged'
  BY <1>1 DEF RecordInv, Unchanged, At
<1>6. Best'
  BY <1>1 DEF RecordInv, Best
<1>7. GamesCounted'
  <2>1. \A u : Committed(u)' = Committed(u) /\ Won(u)' = Won(u)
    BY <1>1 DEF Committed, Won
  <2>. QED BY <1>1, <2>1 DEF RecordInv, GamesCounted
<1>8. RatingsAddUp'
  BY <1>1 DEF RecordInv, RatingsAddUp
<1>9. AbortNeedsExchangedSeats'
  BY <1>1 DEF RecordInv, AbortNeedsExchangedSeats
<1>. QED BY <1>2, <1>3, <1>4, <1>5, <1>6, <1>7, <1>8, <1>9 DEF RecordInv

(* What is recorded agrees with the games that were played, for any players and
   matches: every game of persistFinished is counted once for each of its
   players, ratings add up as long as no two games of one player are recorded
   at once, and two friends are shown the same of each other. *)
THEOREM RecordsAgree == ASSUME ConstantsOK PROVE Spec => []RecordsOK
<1>1. Init => RecordInv
  BY RecordsInit
<1>2. RecordInv /\ [Next]_vars => RecordInv'
  <2>. SUFFICES ASSUME RecordInv, [Next]_vars PROVE RecordInv'
    OBVIOUS
  <2>1. ASSUME NEW m \in Matches, Begin(m) PROVE RecordInv'
    BY <2>1, BeginKeeps
  <2>2. ASSUME NEW m \in Matches, Snapshot(m) PROVE RecordInv'
    BY <2>2, SnapshotKeeps
  <2>3. ASSUME NEW m \in Matches, UpdateStats(m) PROVE RecordInv'
    BY <2>3, UpdateStatsKeeps
  <2>4. ASSUME NEW m \in Matches, UpdateRating(m) PROVE RecordInv'
    BY <2>4, UpdateRatingKeeps
  <2>5. ASSUME NEW m \in Matches, Commit(m) PROVE RecordInv'
    BY <2>5, CommitKeeps
  <2>6. ASSUME NEW m \in Matches, DeadlockDetected(m) PROVE RecordInv'
    BY <2>6, DeadlockKeeps
  <2>7. CASE UNCHANGED vars
    BY <2>7, RecordsStutter
  <2>. QED BY <2>1, <2>2, <2>3, <2>4, <2>5, <2>6, <2>7 DEF Next
<1>3. RecordInv => RecordsOK
  BY RecordInvImplies
<1>. QED BY <1>1, <1>2, <1>3, PTL DEF Spec
=============================================================================
