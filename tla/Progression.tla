----------------------------- MODULE Progression -----------------------------
(***************************************************************************)
(* The transactions that record finished games: persistFinished and        *)
(* ProgressionService.applyGameResult, on PostgreSQL in READ COMMITTED.    *)
(*                                                                         *)
(* A query reads what is committed.  An update waits for the row's lock,   *)
(* keeps it to the end of the transaction, increments what is committed    *)
(* then, and overwrites the rest with values computed from the snapshot    *)
(* read before.  The ELO formula is abstracted to a stake that depends on  *)
(* who is the favourite.                                                   *)
(***************************************************************************)
EXTENDS Integers, Sequences, FiniteSets, Functions

CONSTANTS
  Users,
  Matches,
  Seats,      \* per match, its human players in the order of their seats
  Ranked,     \* the ranked matches
  Private,    \* the matches played by invitation
  NoUser      \* not a user: a row nobody has locked

(* A match has one player and the computer, or two; rated are those of two. *)
ConstantsOK ==
  /\ IsFiniteSet(Users) /\ IsFiniteSet(Matches)
  /\ Seats \in [Matches -> Seq(Users)]
  /\ \A m \in Matches : \/ Len(Seats[m]) = 1
                        \/ Len(Seats[m]) = 2 /\ Seats[m][1] # Seats[m][2]
  /\ Ranked \subseteq {m \in Matches : Len(Seats[m]) = 2}
  /\ Private \subseteq Matches
  /\ NoUser \notin Users \union Matches

VARIABLES
  stats,    \* per user: [games, wins, losses, streak, best]
  rating,   \* per user: [elo, peak, rated]
  locks,    \* per table and user: the match whose transaction holds the row
  tx,       \* per match: [at, seat, winner, before, stats, rating]
  delta,    \* match_players: per match and user, eloAfter - eloBefore
  overlap   \* history: transactions that share a player overlapped

vars == <<stats, rating, locks, tx, delta, overlap>>

Tables == {"stats", "rating"}
Start == 10

Fresh == [at |-> "playing", seat |-> 1, winner |-> NoUser,
          before |-> << >>, stats |-> << >>, rating |-> << >>]

Init ==
  /\ stats = [u \in Users |-> [games |-> 0, wins |-> 0, losses |-> 0, streak |-> 0, best |-> 0]]
  /\ rating = [u \in Users |-> [elo |-> Start, peak |-> Start, rated |-> 0]]
  /\ locks = [table \in Tables |-> [u \in Users |-> NoUser]]
  /\ tx = [m \in Matches |-> Fresh]
  /\ delta = [m \in Matches |-> [u \in Users |-> 0]]
  /\ overlap = FALSE

Players(m) == {Seats[m][i] : i \in DOMAIN Seats[m]}
Winners(m) == IF Len(Seats[m]) = 2 THEN Players(m) ELSE Players(m) \union {NoUser}
Active(m) == tx[m].at \notin {"playing", "committed", "aborted"}

(* Mutants of Player: the snapshot reads the first seat's row for both, or the
   winner's rows are written before the loser's. *)
Player_FirstSeat(m) == IF tx[m].at = "read" THEN Seats[m][1] ELSE Seats[m][tx[m].seat]
Player_WinnerFirst(m) ==
  IF tx[m].at # "read" /\ Len(Seats[m]) = 2 /\ tx[m].winner = Seats[m][2]
  THEN Seats[m][3 - tx[m].seat] ELSE Seats[m][tx[m].seat]

(* The player whose turn it is in the transaction of m. *)
Player(m) == Seats[m][tx[m].seat]
Higher(a, b) == IF a > b THEN a ELSE b

(* A step of the transaction of m for its present seat, at which it is. *)
At(m, at) == tx[m].at = at

(* The next seat, or the next part of the transaction after the last seat. *)
NextSeat(m, this, next) ==
  IF tx[m].seat < Len(Seats[m])
  THEN [at |-> this, seat |-> tx[m].seat + 1]
  ELSE [at |-> next, seat |-> 1]

(***************************************************************************)
(* applyGameResult                                                         *)
(***************************************************************************)

(* A game ends: persistFinished opens its transaction and updates the rows of
   the match, which no other transaction touches. *)
Begin(m) ==
  /\ At(m, "playing")
  /\ \E w \in Winners(m) :
       tx' = [tx EXCEPT ![m].at = "read", ![m].winner = w]
  /\ overlap' = (overlap \/ \E o \in Matches : Active(o) /\ Players(o) \intersect Players(m) # {})
  /\ UNCHANGED <<stats, rating, locks, delta>>

(* The "before" values of one player. *)
Snapshot(m) ==
  /\ At(m, "read")
  /\ LET u == Player(m)
         next == NextSeat(m, "read", "stats")
     IN tx' = [tx EXCEPT ![m].before = Append(@, [elo |-> rating[u].elo, peak |-> rating[u].peak,
                                                  streak |-> stats[u].streak, best |-> stats[u].best]),
                         ![m].at = next.at, ![m].seat = next.seat]
  /\ UNCHANGED <<stats, rating, locks, delta, overlap>>

Free(table, m) == locks[table][Player(m)] \in {NoUser, m}
Lock(table, m) == locks' = [locks EXCEPT ![table][Player(m)] = m]

(* Mutant of UpdateStats: the games are counted from the snapshot's time, without
   the row's lock. *)
UpdateStats_NoLock(m) ==
  /\ At(m, "stats")
  /\ LET u == Player(m)
         won == IF tx[m].winner = u THEN 1 ELSE 0
         snap == tx[m].before[tx[m].seat]
         streak == IF won = 1 THEN snap.streak + 1 ELSE 0
         row == [games |-> stats[u].games + 1, wins |-> stats[u].wins + won,
                 losses |-> stats[u].losses + 1 - won,
                 streak |-> streak, best |-> Higher(snap.best, streak)]
         next == IF m \in Ranked THEN [at |-> "rating", seat |-> tx[m].seat]
                 ELSE NextSeat(m, "stats", "commit")
     IN tx' = [tx EXCEPT ![m].stats = Append(@, row), ![m].at = next.at, ![m].seat = next.seat]
  /\ UNCHANGED <<stats, rating, locks, delta, overlap>>

(* playerStats.update: counters are incremented, streaks overwritten. *)
UpdateStats(m) ==
  /\ At(m, "stats")
  /\ Free("stats", m)
  /\ Lock("stats", m)
  /\ LET u == Player(m)
         won == IF tx[m].winner = u THEN 1 ELSE 0
         snap == tx[m].before[tx[m].seat]
         streak == IF won = 1 THEN snap.streak + 1 ELSE 0
         row == [games |-> stats[u].games + 1, wins |-> stats[u].wins + won,
                 losses |-> stats[u].losses + 1 - won,
                 streak |-> streak, best |-> Higher(snap.best, streak)]
         next == IF m \in Ranked THEN [at |-> "rating", seat |-> tx[m].seat]
                 ELSE NextSeat(m, "stats", "commit")
     IN tx' = [tx EXCEPT ![m].stats = Append(@, row), ![m].at = next.at, ![m].seat = next.seat]
  /\ UNCHANGED <<stats, rating, delta, overlap>>

(* nextElo: the winner takes what the loser loses, more from a favourite. *)
Stake(winner, loser) == IF winner.elo > loser.elo THEN 1 ELSE 2

NextElo(m, i) ==
  LET mine == tx[m].before[i]
      other == tx[m].before[3 - i]
  IN IF tx[m].winner = Seats[m][i] THEN mine.elo + Stake(mine, other)
                                   ELSE mine.elo - Stake(other, mine)

(* rating.update: overwritten with values computed from the snapshot. *)
UpdateRating(m) ==
  /\ At(m, "rating")
  /\ Free("rating", m)
  /\ Lock("rating", m)
  /\ LET u == Player(m)
         after == NextElo(m, tx[m].seat)
         row == [elo |-> after, peak |-> Higher(tx[m].before[tx[m].seat].peak, after),
                 rated |-> rating[u].rated + 1]
         next == NextSeat(m, "stats", "commit")
     IN tx' = [tx EXCEPT ![m].rating = Append(@, row), ![m].at = next.at, ![m].seat = next.seat]
  /\ UNCHANGED <<stats, rating, delta, overlap>>

Release(m) ==
  locks' = [table \in Tables |-> [u \in Users |->
              IF locks[table][u] = m THEN NoUser ELSE locks[table][u]]]

SeatOf(m, u) == CHOOSE i \in DOMAIN Seats[m] : Seats[m][i] = u

(* The transaction commits: result, statistics and ratings at once. *)
Commit(m) ==
  /\ At(m, "commit")
  /\ stats' = [u \in Users |-> IF u \in Players(m) THEN tx[m].stats[SeatOf(m, u)] ELSE stats[u]]
  /\ IF m \in Ranked
     THEN /\ rating' = [u \in Users |-> IF u \in Players(m) THEN tx[m].rating[SeatOf(m, u)] ELSE rating[u]]
          /\ delta' = [delta EXCEPT ![m] = [u \in Users |->
                         IF u \in Players(m)
                         THEN tx[m].rating[SeatOf(m, u)].elo - tx[m].before[SeatOf(m, u)].elo ELSE 0]]
     ELSE UNCHANGED <<rating, delta>>
  /\ Release(m)
  /\ tx' = [tx EXCEPT ![m] = [Fresh EXCEPT !.at = "committed", !.winner = tx[m].winner]]
  /\ UNCHANGED overlap

(***************************************************************************)
(* PostgreSQL                                                              *)
(***************************************************************************)

(* The match whose transaction m waits for, if any. *)
Blocker(m) ==
  IF (At(m, "stats") \/ At(m, "rating")) /\ ~Free(tx[m].at, m) THEN locks[tx[m].at][Player(m)] ELSE NoUser

(* m waits for a match that waits ... for m. *)
Deadlocked(m) ==
  LET follow[k \in 0..Cardinality(Matches)] ==
        IF k = 0 THEN m ELSE IF follow[k - 1] = NoUser THEN NoUser ELSE Blocker(follow[k - 1])
  IN \E k \in 1..Cardinality(Matches) : follow[k] = m

(* PostgreSQL aborts the one whose deadlock_timeout runs out first. *)
DeadlockDetected(m) ==
  /\ Deadlocked(m)
  /\ Release(m)
  /\ tx' = [tx EXCEPT ![m] = [Fresh EXCEPT !.at = "aborted"]]
  /\ UNCHANGED <<stats, rating, delta, overlap>>

Next ==
  \E m \in Matches : \/ Begin(m) \/ Snapshot(m) \/ UpdateStats(m) \/ UpdateRating(m)
                     \/ Commit(m) \/ DeadlockDetected(m)

Spec == Init /\ [][Next]_vars

(***************************************************************************)
(* UserRepository.findFriendsWithStats                                     *)
(***************************************************************************)

Shared(u, f) == {m \in Private : {u, f} \subseteq Players(m)}
FriendsOf(u) == {f \in Users \ {u} : Shared(u, f) # {}}

(* Mutant of Finished: the games under way are tallied too. *)
Finished_AnyStatus(m) == TRUE

(* A match is FINISHED, with its winner, once its transaction has committed. *)
Finished(m) == tx[m].at = "committed"

(* The head-to-head record that u is shown for a friend. *)
HeadToHead(u, f) ==
  LET finished == {m \in Shared(u, f) : Finished(m)}
  IN [games |-> Cardinality(finished),
      theirWins |-> Cardinality({m \in finished : tx[m].winner = f}),
      yourWins |-> Cardinality({m \in finished : tx[m].winner = u})]

(***************************************************************************)
(* Properties                                                              *)
(***************************************************************************)

Committed(u) == {m \in Matches : tx[m].at = "committed" /\ u \in Players(m)}
Won(u) == {m \in Committed(u) : tx[m].winner = u}

TypeOK ==
  /\ stats \in [Users -> [games : Nat, wins : Nat, losses : Nat, streak : Nat, best : Nat]]
  /\ rating \in [Users -> [elo : Int, peak : Int, rated : Nat]]
  /\ locks \in [Tables -> [Users -> Matches \union {NoUser}]]
  /\ \A m \in Matches :
       /\ tx[m].at \in {"playing", "read", "stats", "rating", "commit", "committed", "aborted"}
       /\ tx[m].seat \in DOMAIN Seats[m]
       /\ tx[m].winner \in Players(m) \union {NoUser}
  /\ \A t \in Tables, u \in Users : locks[t][u] \in Matches => Active(locks[t][u])

(* Every recorded game is counted once for each of its players, however the
   transactions overlap. *)
GamesCounted ==
  \A u \in Users :
    /\ stats[u].games = Cardinality(Committed(u))
    /\ stats[u].wins = Cardinality(Won(u))
    /\ stats[u].losses = Cardinality(Committed(u) \ Won(u))
    /\ rating[u].rated = Cardinality(Committed(u) \intersect Ranked)

(* A rating is the sum of what the games say they changed it by, as long as
   two games of one player are not recorded at the same time. *)
RatingsAddUp ==
  ~overlap => \A u \in Users :
    rating[u].elo = Start + SumFunctionOnSet([m \in Matches |-> delta[m][u]], Matches)

(* Under the same condition no game has been better than the record. *)
RecordsStand ==
  ~overlap => \A u \in Users :
    rating[u].peak >= rating[u].elo /\ stats[u].best >= stats[u].streak

(* u comes before v in the order of seats of some matches in a row: v is in
   every set that u is in and that keeps to that order. *)
SitsBefore(u, v) ==
  \A S \in SUBSET Users :
    u \in S /\ (\A m \in Matches : Len(Seats[m]) = 2 /\ Seats[m][1] \in S => Seats[m][2] \in S)
      => v \in S

(* A result is thrown back by the database only if its two players sit the
   other way round in other games: games that agree on an order of their
   players lock the rows in that order. *)
AbortNeedsExchangedSeats ==
  \A m \in Matches : tx[m].at = "aborted" =>
    Len(Seats[m]) = 2 /\ SitsBefore(Seats[m][2], Seats[m][1])

(* What two friends are shown of each other agrees, at every moment at which
   one of them may look, and with the statistics that count the same games in
   rows of their own. *)
FriendsAgree ==
  \A u \in Users :
    /\ \A f \in FriendsOf(u) :
         LET mine == HeadToHead(u, f)
             theirs == HeadToHead(f, u)
         IN /\ mine.games = theirs.games /\ mine.yourWins = theirs.theirWins
            /\ mine.games = mine.yourWins + mine.theirWins
    /\ SumFunctionOnSet([f \in FriendsOf(u) |-> HeadToHead(u, f).games], FriendsOf(u)) <= stats[u].games
    /\ SumFunctionOnSet([f \in FriendsOf(u) |-> HeadToHead(u, f).yourWins], FriendsOf(u)) <= stats[u].wins

(* What is recorded agrees with the games that were played. *)
RecordsOK ==
  TypeOK /\ GamesCounted /\ RatingsAddUp /\ RecordsStand /\ AbortNeedsExchangedSeats
    /\ FriendsAgree
=============================================================================
