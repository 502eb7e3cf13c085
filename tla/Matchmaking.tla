----------------------------- MODULE Matchmaking -----------------------------
(***************************************************************************)
(* Matchmaking: the Redis queues of apps/api/src/matchmaking, the requests *)
(* of the gateway, the pairing pass under the per-mode lock, and the       *)
(* clients (apps/web/src/store/game.store.ts) that search, cancel, search  *)
(* again and are told of their match.                                      *)
(*                                                                         *)
(* One action is one Redis command with the code that runs until the next  *)
(* one; createGame is one step that may fail. The lock is GameRoom's, here *)
(* without its expiry. A ticket's age counts steps of the ELO window.      *)
(***************************************************************************)
EXTENDS Integers, Sequences, FiniteSets, Functions

CONSTANTS
  Users,         \* numbers, in the order of their ids
  Modes,         \* MATCHMAKING_MODES, in the order of the sweep
  Elo,           \* the rating of each user
  BASE,          \* BASE_ELO_WINDOW
  STEP,          \* WINDOW_STEP, added per step of waiting
  MAX_WINDOW,    \* MAX_ELO_WINDOW
  MaxAge,        \* steps after which the window is as wide as it gets
  Requests,      \* bound: slots for requests and disconnects under way
  MaxSearches,   \* bound: how often each user searches
  MaxFailures,   \* bound: failures of createGame
  Sweeper,       \* the periodic sweep
  Null

ASSUME MatchmakingAssumption ==
  /\ Users \subseteq Nat
  /\ Modes # <<>> /\ Modes \in Seq(Range(Modes))
  /\ Elo \in [Users -> Nat]
  /\ MaxSearches \in [Users -> Nat]
  /\ {BASE, STEP, MAX_WINDOW, MaxAge, MaxFailures} \subseteq Nat
  /\ BASE + MaxAge * STEP >= MAX_WINDOW
  /\ Sweeper \notin Requests /\ Null \notin Requests \cup {Sweeper} \cup Nat

VARIABLES
  queue,     \* mm:queue:<mode>: the score of each member, or Null
  ticket,    \* mm:ticket:<mode>:<user>: the ticket's age, or Null
  usermode,  \* mm:usermode:<user>
  lock,      \* lock:matchmaking:<mode>: the holder
  task,      \* the requests under way and the sweep
  client,    \* what the user's screen is doing
  room,      \* number of the search whose socket is in the user's room
  closing,   \* sockets closed by the client, not yet noticed
  searches,  \* history: searches of each user
  now,       \* the time a join reads, counted in tickets written
  written,   \* history: tickets written for each user in each mode
  matches,   \* history: matches made of each user in each mode
  failures   \* failures of createGame so far

redis == <<queue, ticket, usermode, lock>>
clients == <<client, room, closing, searches>>
history == <<now, written, matches, failures>>
vars == <<redis, task, clients, history>>

Tasks == Requests \cup {Sweeper}
Mode == Range(Modes)
Nobody == [u \in Users |-> Null]

(* A pass holds the ids and scores it was given, the pairs still to come,   *)
(* the pair it is at, and which of the two loses the ticket next.          *)
Idle == [pc |-> "idle", kind |-> "none", user |-> Null, mode |-> Null, search |-> 0,
         old |-> Null, ids |-> Nobody, pairs |-> {}, pair |-> Null, at |-> 1]
Sweep(i) == [Idle EXCEPT !.pc = "acquire", !.kind = "sweep", !.mode = Modes[i]]
Pc == {"idle", "read", "zrem", "del", "zadd", "set", "mode", "acquire", "range",
       "fetch", "unqueue", "unticket", "create", "release"}
Inside == {"range", "fetch", "unqueue", "unticket", "create", "release"}

TypeOK ==
  /\ queue \in [Mode -> [Users -> Nat \cup {Null}]]
  /\ ticket \in [Mode -> [Users -> 0..MaxAge \cup {Null}]]
  /\ usermode \in [Users -> Mode \cup {Null}]
  /\ lock \in [Mode -> Tasks \cup {Null}]
  /\ task \in [Tasks -> [pc : Pc, kind : {"none", "join", "leave", "sweep"},
                         user : Users \cup {Null}, mode : Mode \cup {Null},
                         search : Nat, old : Mode \cup {Null},
                         ids : [Users -> Nat \cup {Null}], pairs : SUBSET (Users \X Users),
                         pair : (Users \X Users) \cup {Null}, at : {1, 2}]]
  /\ client \in [Users -> {"idle", "searching", "matched"}]
  /\ {room, closing, searches} \subseteq [Users -> Nat]
  /\ {written, matches} \subseteq [Mode -> [Users -> Nat]]
  /\ now \in Nat /\ failures \in 0..MaxFailures

(* A pass is under way just while its lock is held.                        *)
LockOK ==
  \A m \in Mode, t \in Tasks : lock[m] = t <=> task[t].mode = m /\ task[t].pc \in Inside

Init ==
  /\ queue = [m \in Mode |-> Nobody]
  /\ ticket = [m \in Mode |-> Nobody]
  /\ usermode = Nobody
  /\ lock = [m \in Mode |-> Null]
  /\ task = [t \in Tasks |-> IF t = Sweeper THEN Sweep(1) ELSE Idle]
  /\ client = [u \in Users |-> "idle"]
  /\ room = [u \in Users |-> 0]
  /\ closing = [u \in Users |-> 0]
  /\ searches = [u \in Users |-> 0]
  /\ now = 0
  /\ written = [m \in Mode |-> [u \in Users |-> 0]]
  /\ matches = [m \in Mode |-> [u \in Users |-> 0]]
  /\ failures = 0

-----------------------------------------------------------------------------
(* The clients. A request takes a free slot at the server.                 *)

Goes(t, pc) == task' = [task EXCEPT ![t].pc = pc]
Request(t, kind, u, m, n) ==
  /\ task[t].pc = "idle"
  /\ task' = [task EXCEPT ![t] = [Idle EXCEPT !.pc = "read", !.kind = kind, !.user = u,
                                              !.mode = m, !.search = n]]

(* findMatch: an earlier search's socket is torn down.                     *)
FindMatch(u, m) ==
  /\ searches[u] < MaxSearches[u]
  /\ searches' = [searches EXCEPT ![u] = @ + 1]
  /\ closing' = [closing EXCEPT ![u] = IF client[u] = "searching" THEN @ + 1 ELSE @]
  /\ client' = [client EXCEPT ![u] = "searching"]
  /\ \E t \in Requests : Request(t, "join", u, m, searches'[u])
  /\ UNCHANGED <<redis, room, history>>

(* cancelSearch: matchmaking:leave, then the socket is closed.             *)
Cancel(u) ==
  /\ client[u] = "searching"
  /\ client' = [client EXCEPT ![u] = "idle"]
  /\ closing' = [closing EXCEPT ![u] = @ + 1]
  /\ \E t \in Requests : Request(t, "leave", u, Null, 0)
  /\ UNCHANGED <<redis, room, searches, history>>

(* handleDisconnect: the server notices a closed socket.                   *)
Disconnect(u) ==
  /\ closing[u] > 0
  /\ closing' = [closing EXCEPT ![u] = @ - 1]
  /\ \E t \in Requests : Request(t, "leave", u, Null, 0)
  /\ UNCHANGED <<redis, client, room, searches, history>>

-----------------------------------------------------------------------------
(* join and leave. A join enters the personal room first, then leaves the  *)
(* queue that the user is in.                                              *)

AfterLeave(t) == IF task[t].kind = "join" THEN [task[t] EXCEPT !.pc = "zadd"] ELSE Idle

Read(t) ==
  /\ task[t].pc = "read"
  /\ LET u == task[t].user
         old == usermode[u]
     IN  /\ task' = [task EXCEPT ![t] =
                       IF old = Null THEN AfterLeave(t)
                       ELSE [@ EXCEPT !.pc = "zrem", !.old = old]]
         /\ room' = IF task[t].kind = "join" /\ task[t].search = searches[u]
                    THEN [room EXCEPT ![u] = searches[u]] ELSE room
  /\ UNCHANGED <<redis, client, closing, searches, history>>

ZRem(t) ==
  /\ task[t].pc = "zrem"
  /\ queue' = [queue EXCEPT ![task[t].old][task[t].user] = Null]
  /\ Goes(t, "del")
  /\ UNCHANGED <<ticket, usermode, lock, clients, history>>

Del(t) ==
  /\ task[t].pc = "del"
  /\ ticket' = [ticket EXCEPT ![task[t].old][task[t].user] = Null]
  /\ usermode' = [usermode EXCEPT ![task[t].user] = Null]
  /\ task' = [task EXCEPT ![t] = AfterLeave(t)]
  /\ UNCHANGED <<queue, lock, clients, history>>

(* The score: the rating, or the time of joining; two may join at once.    *)
ZAdd(t) ==
  /\ task[t].pc = "zadd"
  /\ queue' = [queue EXCEPT ![task[t].mode][task[t].user] =
                 IF task[t].mode = "RANKED" THEN Elo[task[t].user] ELSE now]
  /\ Goes(t, "set")
  /\ UNCHANGED <<ticket, usermode, lock, clients, history>>

SetTicket(t) ==
  /\ task[t].pc = "set"
  /\ ticket' = [ticket EXCEPT ![task[t].mode][task[t].user] = 0]
  /\ written' = [written EXCEPT ![task[t].mode][task[t].user] = @ + 1]
  /\ now' = now + 1
  /\ Goes(t, "mode")
  /\ UNCHANGED <<queue, usermode, lock, clients, matches, failures>>

SetMode(t) ==
  /\ task[t].pc = "mode"
  /\ usermode' = [usermode EXCEPT ![task[t].user] = task[t].mode]
  /\ Goes(t, "acquire")
  /\ UNCHANGED <<queue, ticket, lock, clients, history>>

-----------------------------------------------------------------------------
(* tryMatch, after a join or from the sweep.                               *)

(* A request is done; the sweep goes on to the next mode, and round again. *)
Done(t) ==
  LET i == CHOOSE i \in DOMAIN Modes : Modes[i] = task[t].mode
  IN  IF t = Sweeper THEN Sweep((i % Len(Modes)) + 1) ELSE Idle

(* Mutant: the lock does not exclude.                                      *)
Acquire_Always(t) ==
  /\ task[t].pc = "acquire"
  /\ lock' = [lock EXCEPT ![task[t].mode] = t]
  /\ Goes(t, "range")
  /\ UNCHANGED <<queue, ticket, usermode, clients, history>>

Acquire(t) ==
  /\ task[t].pc = "acquire" /\ lock[task[t].mode] = Null
  /\ lock' = [lock EXCEPT ![task[t].mode] = t]
  /\ Goes(t, "range")
  /\ UNCHANGED <<queue, ticket, usermode, clients, history>>

GiveUp(t) ==
  /\ task[t].pc = "acquire" /\ lock[task[t].mode] # Null
  /\ task' = [task EXCEPT ![t] = Done(t)]
  /\ UNCHANGED <<redis, clients, history>>

Listed(ids) == {u \in Users : ids[u] # Null}

(* zrange orders by score, then by id.                                     *)
Before(ids, u, v) == ids[u] < ids[v] \/ (ids[u] = ids[v] /\ u < v)

RangeQueue(t) ==
  /\ task[t].pc = "range"
  /\ LET ids == queue[task[t].mode]
     IN  task' = [task EXCEPT ![t] =
                    IF Cardinality(Listed(ids)) < 2 THEN [@ EXCEPT !.pc = "release"]
                    ELSE [@ EXCEPT !.pc = "fetch", !.ids = ids]]
  /\ UNCHANGED <<redis, clients, history>>

(* Mutant: the window stays as narrow as it was.                           *)
window_Fixed(age) == BASE

Smaller(a, b) == IF a < b THEN a ELSE b
window(age) == Smaller(BASE + age * STEP, MAX_WINDOW)

Gap(u, v) == IF Elo[u] < Elo[v] THEN Elo[v] - Elo[u] ELSE Elo[u] - Elo[v]
InWindow(m, u, v) == Gap(u, v) <= Smaller(window(ticket[m][u]), window(ticket[m][v]))

Neighbours(ids, found) ==
  {n \in found \X found : /\ Before(ids, n[1], n[2])
                          /\ ~\E w \in found : Before(ids, n[1], w) /\ Before(ids, w, n[2])}

(* The double loop: a player who is not yet paired is paired with the next  *)
(* one in the order, or with nobody in this pass.                          *)
Greedy(m, near, pairs) ==
  \A n \in near : n \in pairs <=> /\ m = "RANKED" => InWindow(m, n[1], n[2])
                                 /\ \A p \in pairs : p[2] # n[1]

(* On to the first of the pairs, or to the end of the pass.                *)
NextPair(t, pairs) ==
  \/ /\ pairs = {}
     /\ task' = [task EXCEPT ![t] = [@ EXCEPT !.pc = "release", !.ids = Nobody, !.pairs = {},
                                              !.pair = Null, !.at = 1]]
  \/ \E p \in pairs :
       /\ \A q \in pairs : ~Before(task[t].ids, q[1], p[1])
       /\ task' = [task EXCEPT ![t] = [@ EXCEPT !.pc = "unqueue", !.pair = p, !.at = 1,
                                                !.pairs = pairs \ {p}]]

(* The tickets of all ids are read at once; ids without one are skipped.   *)
Fetch(t) ==
  /\ task[t].pc = "fetch"
  /\ LET m == task[t].mode
         found == {u \in Listed(task[t].ids) : ticket[m][u] # Null}
         near == Neighbours(task[t].ids, found)
     IN  \E pairs \in SUBSET near : Greedy(m, near, pairs) /\ NextPair(t, pairs)
  /\ UNCHANGED <<redis, clients, history>>

(* pair: both tickets go before the match is made.                         *)
Leaving(t) == task[t].pair[task[t].at]

Unqueue(t) ==
  /\ task[t].pc = "unqueue"
  /\ queue' = [queue EXCEPT ![task[t].mode][Leaving(t)] = Null]
  /\ Goes(t, "unticket")
  /\ UNCHANGED <<ticket, usermode, lock, clients, history>>

(* Mutant: the partner's ticket is left where it is.                       *)
Unticket_OnlyFirst(t) ==
  /\ task[t].pc = "unticket"
  /\ ticket' = [ticket EXCEPT ![task[t].mode][Leaving(t)] = Null]
  /\ usermode' = [usermode EXCEPT ![Leaving(t)] = Null]
  /\ Goes(t, "create")
  /\ UNCHANGED <<queue, lock, clients, history>>

Unticket(t) ==
  /\ task[t].pc = "unticket"
  /\ ticket' = [ticket EXCEPT ![task[t].mode][Leaving(t)] = Null]
  /\ usermode' = [usermode EXCEPT ![Leaving(t)] = Null]
  /\ task' = [task EXCEPT ![t] = IF @.at = 1 THEN [@ EXCEPT !.pc = "unqueue", !.at = 2]
                                 ELSE [@ EXCEPT !.pc = "create"]]
  /\ UNCHANGED <<queue, lock, clients, history>>

(* createGame, and matchmaking:found to the sockets in both rooms: a       *)
(* client that still searches goes to the game and closes its socket.      *)
Create(t) ==
  /\ task[t].pc = "create"
  /\ LET pair == {task[t].pair[1], task[t].pair[2]}
         told == {u \in pair : client[u] = "searching" /\ room[u] = searches[u]}
     IN  /\ matches' = [matches EXCEPT ![task[t].mode] =
                          [u \in Users |-> @[u] + IF u \in pair THEN 1 ELSE 0]]
         /\ client' = [u \in Users |-> IF u \in told THEN "matched" ELSE client[u]]
         /\ closing' = [u \in Users |-> closing[u] + IF u \in told THEN 1 ELSE 0]
  /\ NextPair(t, task[t].pairs)
  /\ UNCHANGED <<redis, room, searches, now, written, failures>>

CreateFails(t) ==
  /\ task[t].pc = "create" /\ failures < MaxFailures
  /\ failures' = failures + 1
  /\ NextPair(t, task[t].pairs)
  /\ UNCHANGED <<redis, clients, now, written, matches>>

Release(t) ==
  /\ task[t].pc = "release"
  /\ lock' = [lock EXCEPT ![task[t].mode] = Null]
  /\ task' = [task EXCEPT ![t] = Done(t)]
  /\ UNCHANGED <<queue, ticket, usermode, clients, history>>

(* Ranked tickets grow older, and their window wider.                      *)
Tick ==
  /\ "RANKED" \in Mode
  /\ \E u \in Users : ticket["RANKED"][u] \in 0..MaxAge - 1
  /\ ticket' = [ticket EXCEPT !["RANKED"] =
                  [u \in Users |-> IF @[u] \in 0..MaxAge - 1 THEN @[u] + 1 ELSE @[u]]]
  /\ UNCHANGED <<queue, usermode, lock, task, clients, history>>

-----------------------------------------------------------------------------
Step(t) ==
  \/ Read(t) \/ ZRem(t) \/ Del(t) \/ ZAdd(t) \/ SetTicket(t) \/ SetMode(t)
  \/ Acquire(t) \/ GiveUp(t) \/ RangeQueue(t) \/ Fetch(t)
  \/ Unqueue(t) \/ Unticket(t) \/ Create(t) \/ CreateFails(t) \/ Release(t)

Next ==
  \/ \E u \in Users : Cancel(u) \/ Disconnect(u) \/ \E m \in Mode : FindMatch(u, m)
  \/ \E t \in Tasks : Step(t)
  \/ Tick

Spec == Init /\ [][Next]_vars

(* Redis answers every command, the sweep runs on, time passes.            *)
FairSpec ==
  /\ Spec
  /\ \A t \in Tasks : WF_vars(Step(t))
  /\ WF_vars(Tick)

-----------------------------------------------------------------------------
(* "All pairing is done under a per-mode lock so no player is matched      *)
(* twice": no ticket makes two matches, whatever joins, leaves, passes of  *)
(* both modes and failures interleave.                                     *)
NobodyMatchedTwice ==
  \A m \in Mode, u \in Users : matches[m][u] <= written[m][u]

(* The queues, tickets, tasks and locks are well-formed, and nobody is     *)
(* matched twice.                                                               *)
TicketsOK == TypeOK /\ LockOK /\ NobodyMatchedTwice

FirstSearch(u) == client[u] = "searching" /\ searches[u] = 1
Waits(u, m) ==
  /\ FirstSearch(u)
  /\ ticket[m][u] # Null \/ \E t \in Requests : /\ task[t].kind = "join"
                                               /\ <<task[t].user, task[t].mode>> = <<u, m>>

(* "Periodic sweep so widening RANKED windows eventually pair everyone":   *)
(* when all players search in one mode, each for the first time, one is    *)
(* told of a match, gives up or starts over, unless a match could not be   *)
(* created.                                                                *)
EventuallyPaired ==
  \A m \in Mode :
    (\A u \in Users : Waits(u, m))
      ~> (\E u \in Users : ~FirstSearch(u)) \/ failures > 0

(* "Disconnecting removes the player from the queue automatically": once   *)
(* the requests and disconnects of a user who does not search are handled, *)
(* the user is in no queue.                                                *)
QueuedOnlyWhileSearching ==
  \A u \in Users :
    client[u] # "searching" /\ closing[u] = 0 /\ (\A t \in Requests : task[t].user # u) =>
      \A m \in Mode : queue[m][u] = Null \/ ticket[m][u] = Null
=============================================================================
