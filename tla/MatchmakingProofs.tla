------------------------- MODULE MatchmakingProofs -------------------------
(***************************************************************************)
(* Proofs about Matchmaking, for any number of players, modes, requests    *)
(* and searches, any ratings, windows and failures of createGame.          *)
(***************************************************************************)
EXTENDS Matchmaking, TLAPS

(***************************************************************************)
(* The inductive invariant                                                 *)
(***************************************************************************)

Kinds == {"none", "join", "leave", "sweep"}
Job == [pc : Pc, kind : Kinds, user : Users \cup {Null}, mode : Mode \cup {Null},
        search : Nat, old : Mode \cup {Null}, ids : [Users -> Nat \cup {Null}],
        pairs : SUBSET (Users \X Users), pair : (Users \X Users) \cup {Null}, at : {1, 2}]

(* What a task needs at a step is there. *)
Equipped(j) ==
  /\ j.pc \in {"read", "zrem", "del", "zadd", "set", "mode"} => j.user \in Users
  /\ j.pc \in {"zrem", "del"} => j.old \in Mode
  /\ j.kind = "join" \/ j.pc \in {"zadd", "set", "mode", "acquire"} \cup Inside => j.mode \in Mode
  /\ j.pc \in {"unqueue", "unticket", "create"} => j.pair \in Users \X Users

Of(p) == {p[1], p[2]}
Disjoint(P) ==
  /\ \A p \in P : p[1] # p[2]
  /\ \A p, q \in P : p # q => Of(p) \cap Of(q) = {}

(* The pairs of a pass have no player in common. *)
Works(j) == j.pc \in {"unqueue", "unticket", "create"}
PairsApart(j) ==
  Works(j) => Disjoint(j.pairs \cup {j.pair}) /\ j.pair \notin j.pairs

(* A player whom the pass is going to match, and whose ticket it has not yet
   removed; and one whose ticket it has removed. *)
Due(j, u) ==
  /\ Works(j)
  /\ \/ \E p \in j.pairs : u \in Of(p)
     \/ j.pc # "create" /\ (u = j.pair[2] \/ (j.at = 1 /\ u = j.pair[1]))
Taken(j, u) ==
  \/ j.pc = "create" /\ u \in Of(j.pair)
  \/ j.pc \in {"unqueue", "unticket"} /\ j.at = 2 /\ u = j.pair[1]

(* Every match has a ticket of its own: behind a ticket that lies there, or that
   a pass counts on, there is one that no match has used up. *)
Counted ==
  \A m \in Mode, u \in Users :
    /\ matches[m][u] <= written[m][u]
    /\ ticket[m][u] # Null => matches[m][u] + 1 <= written[m][u]
    /\ \A t \in Tasks : task[t].mode = m =>
         /\ Due(task[t], u) \/ Taken(task[t], u) => matches[m][u] + 1 <= written[m][u]
         /\ Taken(task[t], u) /\ ticket[m][u] # Null => matches[m][u] + 2 <= written[m][u]

JobsOK == \A t \in Tasks : Equipped(task[t]) /\ PairsApart(task[t])
SweepRuns == task[Sweeper].pc \in {"acquire"} \cup Inside

Inv == TypeOK /\ LockOK /\ JobsOK /\ SweepRuns /\ Counted

LEMMA InitInv == Init => Inv
<1> SUFFICES ASSUME Init PROVE Inv
  OBVIOUS
<1>1. ASSUME NEW i \in DOMAIN Modes
      PROVE  Modes[i] \in Mode
  BY MatchmakingAssumption DEF Mode, Range
<1>2. 1 \in DOMAIN Modes /\ Modes[1] \in Mode
  BY <1>1, MatchmakingAssumption
<1>3. Idle \in Job /\ Sweep(1) \in Job
  BY <1>2 DEF Idle, Sweep, Job, Pc, Kinds, Nobody
<1>4. \A t \in Tasks : task[t] \in Job /\ task[t].pc \in {"idle", "acquire"} /\ task[t].kind # "join"
  BY <1>3 DEF Init, Idle, Sweep
<1>5. \A t \in Tasks : task[t].pc = "acquire" => task[t].mode \in Mode
  BY <1>2 DEF Init, Idle, Sweep
<1>6. task \in [Tasks -> Job] /\ Sweeper \in Tasks
  BY <1>3 DEF Init, Tasks
<1>7. TypeOK
  BY <1>6, MatchmakingAssumption DEF Init, TypeOK, Job, Kinds, Nobody
<1>8. LockOK
  BY <1>4, MatchmakingAssumption DEF Init, LockOK, Inside, Tasks
<1>9a. JobsOK
  BY <1>4, <1>5 DEF JobsOK, Equipped, PairsApart, Works, Inside
<1>9b. SweepRuns
  BY <1>6 DEF Init, SweepRuns, Sweep, Idle
<1>10. Counted
  BY <1>4 DEF Init, Counted, Due, Taken, Works, Nobody
<1> QED
  BY <1>7, <1>8, <1>9a, <1>9b, <1>10 DEF Inv

(***************************************************************************)
(* One task moves on                                                       *)
(***************************************************************************)

(* A task moves on, and the others stay as they are. *)
LEMMA TaskMoves ==
  ASSUME TypeOK, NEW t \in Tasks, NEW q \in Job, task' = [task EXCEPT ![t] = q]
  PROVE  /\ task' \in [Tasks -> Job]
         /\ task'[t] = q
         /\ \A s \in Tasks \ {t} : task'[s] = task[s]
BY DEF TypeOK, Job, Kinds

LEMMA JobsKept ==
  ASSUME Inv, NEW t \in Tasks, NEW q \in Job, task' = [task EXCEPT ![t] = q],
         Equipped(q), PairsApart(q), t = Sweeper => q.pc \in {"acquire"} \cup Inside
  PROVE  JobsOK' /\ SweepRuns'
<1>1. task'[t] = q /\ \A s \in Tasks \ {t} : task'[s] = task[s]
  BY TaskMoves DEF Inv
<1>2. \A s \in Tasks : Equipped(task'[s]) /\ PairsApart(task'[s])
  BY <1>1 DEF Inv, JobsOK
<1>3. task'[Sweeper].pc \in {"acquire"} \cup Inside
  BY <1>1 DEF Inv, SweepRuns, Tasks
<1> QED
  BY <1>2, <1>3 DEF JobsOK, SweepRuns

LEMMA LockKept ==
  ASSUME Inv, NEW t \in Tasks, NEW q \in Job, task' = [task EXCEPT ![t] = q], lock' = lock,
         q.pc \in Inside <=> task[t].pc \in Inside, q.pc \in Inside => q.mode = task[t].mode
  PROVE  LockOK'
BY TaskMoves DEF Inv, LockOK

(* No ticket is added; the pass counts on a player it counted on, or who has a
   ticket; and it takes only tickets that it now removes. *)
LEMMA CountedKept ==
  ASSUME Inv, NEW t \in Tasks, NEW q \in Job, task' = [task EXCEPT ![t] = q],
         UNCHANGED <<matches, written>>,
         \A m \in Mode, u \in Users : ticket'[m][u] # Null => ticket[m][u] # Null,
         \A u \in Users : Due(q, u) \/ Taken(q, u) =>
           /\ q.mode = task[t].mode
           /\ Due(task[t], u) \/ Taken(task[t], u) \/ ticket[q.mode][u] # Null,
         \A u \in Users : Taken(q, u) => Taken(task[t], u) \/ ticket'[q.mode][u] = Null
  PROVE  Counted'
<1>1. task'[t] = q /\ \A s \in Tasks \ {t} : task'[s] = task[s]
  BY TaskMoves DEF Inv
<1> SUFFICES ASSUME NEW m \in Mode, NEW u \in Users
             PROVE  /\ matches[m][u] <= written[m][u]
                    /\ ticket'[m][u] # Null => matches[m][u] + 1 <= written[m][u]
                    /\ \A s \in Tasks : task'[s].mode = m =>
                         /\ Due(task'[s], u) \/ Taken(task'[s], u) => matches[m][u] + 1 <= written[m][u]
                         /\ Taken(task'[s], u) /\ ticket'[m][u] # Null => matches[m][u] + 2 <= written[m][u]
  BY DEF Counted
<1>2. \A s \in Tasks : task[s].mode = m =>
        /\ Due(task[s], u) \/ Taken(task[s], u) => matches[m][u] + 1 <= written[m][u]
        /\ Taken(task[s], u) /\ ticket[m][u] # Null => matches[m][u] + 2 <= written[m][u]
  BY DEF Inv, Counted
<1>3. ASSUME NEW s \in Tasks \ {t}, task'[s].mode = m
      PROVE  /\ Due(task'[s], u) \/ Taken(task'[s], u) => matches[m][u] + 1 <= written[m][u]
             /\ Taken(task'[s], u) /\ ticket'[m][u] # Null => matches[m][u] + 2 <= written[m][u]
  BY <1>1, <1>2, <1>3
<1>4. ASSUME task'[t].mode = m
      PROVE  /\ Due(task'[t], u) \/ Taken(task'[t], u) => matches[m][u] + 1 <= written[m][u]
             /\ Taken(task'[t], u) /\ ticket'[m][u] # Null => matches[m][u] + 2 <= written[m][u]
  <2>1. task[t].mode = m => /\ Due(task[t], u) \/ Taken(task[t], u) => matches[m][u] + 1 <= written[m][u]
                            /\ Taken(task[t], u) /\ ticket[m][u] # Null => matches[m][u] + 2 <= written[m][u]
    BY <1>2
  <2>2. ticket[m][u] # Null => matches[m][u] + 1 <= written[m][u]
    BY DEF Inv, Counted
  <2> QED
    BY <1>1, <1>4, <2>1, <2>2
<1> QED
  BY <1>3, <1>4 DEF Inv, Counted

(* A task outside a pass counts on nobody. *)
LEMMA Idler ==
  ASSUME NEW q, ~Works(q)
  PROVE  PairsApart(q) /\ \A u : ~Due(q, u) /\ ~Taken(q, u)
BY DEF PairsApart, Works, Due, Taken

LEMMA JobTyped ==
  ASSUME Inv, NEW t \in Tasks
  PROVE  task[t] \in Job /\ Equipped(task[t]) /\ PairsApart(task[t])
BY DEF Inv, TypeOK, JobsOK, Job, Kinds

(***************************************************************************)
(* The clients                                                             *)
(***************************************************************************)

LEMMA RequestStep ==
  ASSUME Inv, NEW t \in Requests, NEW u \in Users, NEW n \in Nat,
         NEW m \in Mode \cup {Null}, NEW k \in {"join", "leave"},
         Request(t, k, u, m, n), k = "join" => m \in Mode,
         UNCHANGED <<redis, history>>
  PROVE  /\ task' \in [Tasks -> Job]
         /\ LockOK' /\ JobsOK' /\ SweepRuns' /\ Counted'
<1> DEFINE q == [Idle EXCEPT !.pc = "read", !.kind = k, !.user = u, !.mode = m, !.search = n]
<1>1. t \in Tasks /\ t # Sweeper /\ task[t].pc = "idle" /\ task' = [task EXCEPT ![t] = q]
  BY MatchmakingAssumption DEF Request, Tasks
<1>2. q \in Job
  BY DEF Job, Kinds, Pc, Idle, Nobody
<1>3. Equipped(q) /\ ~Works(q) /\ q.pc \notin Inside
  BY DEF Equipped, Works, Idle, Inside
<1>4. task[t].pc \notin Inside
  BY <1>1 DEF Inside
<1>5. UNCHANGED <<ticket, lock, matches, written>>
  BY DEF redis, history
<1> HIDE DEF q
<1>6. task' \in [Tasks -> Job]
  BY <1>1, <1>2, TaskMoves DEF Inv
<1>7. JobsOK' /\ SweepRuns'
  BY <1>1, <1>2, <1>3, Idler, JobsKept
<1>8. LockOK'
  BY <1>1, <1>2, <1>3, <1>4, <1>5, LockKept
<1>9. Counted'
  BY <1>1, <1>2, <1>3, <1>5, Idler, CountedKept
<1> QED
  BY <1>6, <1>7, <1>8, <1>9

LEMMA ClientActions ==
  ASSUME Inv, NEW u \in Users, Cancel(u) \/ Disconnect(u) \/ \E m \in Mode : FindMatch(u, m)
  PROVE  Inv'
<1>1. /\ task' \in [Tasks -> Job]
      /\ LockOK' /\ JobsOK' /\ SweepRuns' /\ Counted'
  <2>1. CASE Cancel(u)
    BY <2>1, RequestStep DEF Cancel
  <2>2. CASE Disconnect(u)
    BY <2>2, RequestStep DEF Disconnect
  <2>3. CASE \E m \in Mode : FindMatch(u, m)
    <3>1. PICK m \in Mode : FindMatch(u, m)
      BY <2>3
    <3>2. searches'[u] \in Nat
      BY <3>1 DEF FindMatch, Inv, TypeOK
    <3> QED
      BY <3>1, <3>2, RequestStep DEF FindMatch
  <2> QED
    BY <2>1, <2>2, <2>3
<1>2. UNCHANGED <<redis, history>> /\ room' = room
  BY DEF Cancel, Disconnect, FindMatch, history
<1>3. client' \in [Users -> {"idle", "searching", "matched"}]
  BY DEF Inv, TypeOK, Cancel, Disconnect, FindMatch
<1>4. searches' \in [Users -> Nat] /\ closing' \in [Users -> Nat]
  BY DEF Inv, TypeOK, Cancel, Disconnect, FindMatch
<1>5. TypeOK'
  BY <1>1, <1>2, <1>3, <1>4 DEF Inv, TypeOK, redis, history, Job, Kinds
<1> QED
  BY <1>1, <1>5 DEF Inv

(***************************************************************************)
(* join and leave                                                          *)
(***************************************************************************)

LEMMA OutsideStep ==
  ASSUME Inv, NEW t \in Tasks, NEW q \in Job, task' = [task EXCEPT ![t] = q],
         Equipped(q), ~Works(q), t = Sweeper => q.pc \in {"acquire"} \cup Inside,
         UNCHANGED <<lock, matches, written>>,
         q.pc \in Inside <=> task[t].pc \in Inside, q.pc \in Inside => q.mode = task[t].mode,
         \A m \in Mode, u \in Users : ticket'[m][u] # Null => ticket[m][u] # Null
  PROVE  /\ task' \in [Tasks -> Job]
         /\ LockOK' /\ JobsOK' /\ SweepRuns' /\ Counted'
<1>1. task' \in [Tasks -> Job]
  BY TaskMoves DEF Inv
<1>2. JobsOK' /\ SweepRuns'
  BY Idler, JobsKept
<1>3. LockOK'
  BY LockKept
<1>4. Counted'
  BY Idler, CountedKept
<1> QED
  BY <1>1, <1>2, <1>3, <1>4

LEMMA GoesMoves ==
  ASSUME Inv, NEW t \in Tasks, NEW pc \in Pc, Goes(t, pc)
  PROVE  /\ [task[t] EXCEPT !.pc = pc] \in Job
         /\ task' = [task EXCEPT ![t] = [task[t] EXCEPT !.pc = pc]]
<1>1. [task[t] EXCEPT !.pc = pc] \in Job
  BY JobTyped DEF Job
<1>2. task' = [task EXCEPT ![t] = [task[t] EXCEPT !.pc = pc]]
  BY DEF Goes, Inv, TypeOK
<1> QED
  BY <1>1, <1>2

(* The requests that come before a pass. *)
LEMMA RequestActions ==
  ASSUME Inv, NEW t \in Tasks,
         Read(t) \/ ZRem(t) \/ Del(t) \/ ZAdd(t) \/ SetMode(t)
  PROVE  /\ task' \in [Tasks -> Job]
         /\ LockOK' /\ JobsOK' /\ SweepRuns' /\ Counted'
<1>1. task[t] \in Job /\ Equipped(task[t])
  BY JobTyped
<1>2. t # Sweeper /\ task[t].pc \notin Inside
  BY DEF Read, ZRem, Del, ZAdd, SetMode, Inv, SweepRuns, Inside
<1>3. UNCHANGED <<lock, matches, written>>
  BY DEF Read, ZRem, Del, ZAdd, SetMode, redis, history
<1>4. CASE Read(t)
  <2> DEFINE old == usermode[task[t].user]
             q == IF old = Null THEN AfterLeave(t) ELSE [task[t] EXCEPT !.pc = "zrem", !.old = old]
  <2>1. task' = [task EXCEPT ![t] = q] /\ ticket' = ticket
    BY <1>4 DEF Read, redis
  <2>2. task[t].user \in Users /\ old \in Mode \cup {Null}
    BY <1>1, <1>4 DEF Read, Equipped, Inv, TypeOK
  <2>3. q \in Job
    <3>1. AfterLeave(t) \in Job
      BY <1>1, <2>2 DEF Job, Pc, Kinds, AfterLeave, Idle, Nobody
    <3>2. old # Null => [task[t] EXCEPT !.pc = "zrem", !.old = old] \in Job
      BY <1>1, <2>2 DEF Job, Pc, Kinds
    <3> QED
      BY <3>1, <3>2
  <2>4. Equipped(q) /\ ~Works(q) /\ q.pc \notin Inside
    BY <1>1, <2>2 DEF Job, Equipped, Works, Inside, AfterLeave, Idle
  <2> HIDE DEF q
  <2> QED
    BY <1>2, <1>3, <2>1, <2>3, <2>4, OutsideStep
<1>5. CASE Del(t)
  <2> DEFINE q == AfterLeave(t)
  <2>1. task' = [task EXCEPT ![t] = q]
    BY <1>5 DEF Del
  <2>2. task[t].user \in Users /\ task[t].old \in Mode
    BY <1>1, <1>5 DEF Del, Equipped
  <2>3. q \in Job
    BY <1>1, <2>2 DEF Job, Pc, Kinds, AfterLeave, Idle, Nobody
  <2>4. Equipped(q) /\ ~Works(q) /\ q.pc \notin Inside
    BY <1>1, <2>2 DEF Job, Equipped, Works, Inside, AfterLeave, Idle
  <2>5. \A m \in Mode, u \in Users : ticket'[m][u] # Null => ticket[m][u] # Null
    BY <1>5, <2>2 DEF Del, Inv, TypeOK
  <2> HIDE DEF q
  <2> QED
    BY <1>2, <1>3, <2>1, <2>3, <2>4, <2>5, OutsideStep
<1>6. CASE ZRem(t) \/ ZAdd(t) \/ SetMode(t)
  <2>1. PICK pc \in {"del", "set", "acquire"} :
          /\ Goes(t, pc)
          /\ pc = "del" => task[t].pc = "zrem"
          /\ pc = "set" => task[t].pc = "zadd"
          /\ pc = "acquire" => task[t].pc = "mode"
    BY <1>6 DEF ZRem, ZAdd, SetMode
  <2> DEFINE q == [task[t] EXCEPT !.pc = pc]
  <2>2. q \in Job /\ task' = [task EXCEPT ![t] = q]
    <3>1. pc \in Pc
      BY DEF Pc
    <3> QED
      BY <2>1, <3>1, GoesMoves
  <2>3. Equipped(q) /\ ~Works(q) /\ q.pc \notin Inside
    BY <1>1, <2>1 DEF Job, Equipped, Works, Inside
  <2>4. ticket' = ticket
    BY <1>6 DEF ZRem, ZAdd, SetMode
  <2> HIDE DEF q
  <2> QED
    BY <1>2, <1>3, <2>2, <2>3, <2>4, OutsideStep
<1> QED
  BY <1>4, <1>5, <1>6

LEMMA RequestTypes ==
  ASSUME Inv, NEW t \in Tasks, task' \in [Tasks -> Job],
         Read(t) \/ ZRem(t) \/ Del(t) \/ ZAdd(t) \/ SetMode(t)
  PROVE  TypeOK'
<1>1. task[t] \in Job /\ Equipped(task[t])
  BY JobTyped
<1>2. UNCHANGED <<lock, client, closing, searches, history>>
  BY DEF Read, ZRem, Del, ZAdd, SetMode, redis, clients
<1>3. task[t].user \in Users
  BY <1>1 DEF Read, ZRem, Del, ZAdd, SetMode, Equipped
<1>4. queue' \in [Mode -> [Users -> Nat \cup {Null}]]
  <2>1. CASE Read(t) \/ Del(t) \/ SetMode(t)
    BY <2>1 DEF Read, Del, SetMode, redis, Inv, TypeOK
  <2>2. CASE ZRem(t)
    BY <1>1, <1>3, <2>2 DEF ZRem, Equipped, Inv, TypeOK
  <2>3. CASE ZAdd(t)
    <3> DEFINE s == IF task[t].mode = "RANKED" THEN Elo[task[t].user] ELSE now
    <3>1. s \in Nat
      BY <1>3, MatchmakingAssumption DEF Inv, TypeOK
    <3>2. queue' = [queue EXCEPT ![task[t].mode][task[t].user] = s]
      BY <2>3 DEF ZAdd
    <3> HIDE DEF s
    <3> QED
      BY <3>1, <3>2 DEF Inv, TypeOK
  <2> QED
    BY <2>1, <2>2, <2>3
<1>5. ticket' \in [Mode -> [Users -> 0..MaxAge \cup {Null}]]
  <2>1. CASE Read(t) \/ ZRem(t) \/ ZAdd(t) \/ SetMode(t)
    BY <2>1 DEF Read, ZRem, ZAdd, SetMode, redis, Inv, TypeOK
  <2>2. CASE Del(t)
    BY <1>1, <1>3, <2>2 DEF Del, Equipped, Inv, TypeOK
  <2> QED
    BY <2>1, <2>2
<1>6. usermode' \in [Users -> Mode \cup {Null}]
  BY <1>1 DEF Read, ZRem, Del, ZAdd, SetMode, redis, Inv, TypeOK, Job
<1>7. room' \in [Users -> Nat]
  BY DEF Read, ZRem, Del, ZAdd, SetMode, clients, Inv, TypeOK
<1> QED
  BY <1>2, <1>4, <1>5, <1>6, <1>7 DEF Inv, TypeOK, history, Job, Kinds

LEMMA SetTicketStep ==
  ASSUME Inv, NEW t \in Tasks, SetTicket(t)
  PROVE  Inv'
<1> DEFINE q == [task[t] EXCEPT !.pc = "mode"]
           m == task[t].mode
           u == task[t].user
<1>1. task[t] \in Job /\ Equipped(task[t]) /\ task[t].pc = "set"
  BY JobTyped DEF SetTicket
<1>2. q \in Job /\ task' = [task EXCEPT ![t] = q]
  BY GoesMoves DEF SetTicket, Pc
<1>3. Equipped(q) /\ ~Works(q) /\ q.pc \notin Inside /\ task[t].pc \notin Inside /\ t # Sweeper
  BY <1>1 DEF Job, Equipped, Works, Inside, Inv, SweepRuns
<1>4. m \in Mode /\ u \in Users
  BY <1>1 DEF Equipped
<1>5. task' \in [Tasks -> Job] /\ task'[t] = q /\ \A s \in Tasks \ {t} : task'[s] = task[s]
  <2> HIDE DEF q
  <2> QED
    BY <1>2, TaskMoves DEF Inv
<1>6. UNCHANGED <<queue, usermode, lock, client, room, closing, searches, matches, failures>>
  BY DEF SetTicket, clients
<1>7. JobsOK' /\ SweepRuns' /\ LockOK'
  <2> HIDE DEF q
  <2> QED
    BY <1>2, <1>3, <1>6, Idler, JobsKept, LockKept
<1>8. /\ ticket' = [ticket EXCEPT ![m][u] = 0]
      /\ written' = [written EXCEPT ![m][u] = @ + 1]
      /\ now' = now + 1
  BY DEF SetTicket
<1>9. TypeOK'
  <2>1. ticket' \in [Mode -> [Users -> 0..MaxAge \cup {Null}]]
    <3>1. 0 \in 0..MaxAge
      BY MatchmakingAssumption
    <3>2. ticket \in [Mode -> [Users -> 0..MaxAge \cup {Null}]]
      BY DEF Inv, TypeOK
    <3> HIDE DEF m, u
    <3> QED
      BY <1>4, <1>8, <3>1, <3>2
  <2>2. written' \in [Mode -> [Users -> Nat]] /\ now' \in Nat
    BY <1>4, <1>8 DEF Inv, TypeOK
  <2> QED
    BY <1>5, <1>6, <2>1, <2>2 DEF Inv, TypeOK, Job, Kinds
<1>10. Counted'
  <2>1. \A w : ~Due(q, w) /\ ~Taken(q, w)
    <3> HIDE DEF q
    <3> QED
      BY <1>3, Idler
  <2> HIDE DEF q
  <2> SUFFICES ASSUME NEW n \in Mode, NEW w \in Users
               PROVE  /\ matches[n][w] <= written'[n][w]
                      /\ ticket'[n][w] # Null => matches[n][w] + 1 <= written'[n][w]
                      /\ \A s \in Tasks : task'[s].mode = n =>
                           /\ Due(task'[s], w) \/ Taken(task'[s], w) => matches[n][w] + 1 <= written'[n][w]
                           /\ Taken(task'[s], w) /\ ticket'[n][w] # Null => matches[n][w] + 2 <= written'[n][w]
    BY <1>6 DEF Counted
  <2>2. /\ matches[n][w] <= written[n][w]
        /\ ticket[n][w] # Null => matches[n][w] + 1 <= written[n][w]
        /\ matches[n][w] \in Nat /\ written[n][w] \in Nat
    BY DEF Inv, Counted, TypeOK
  <2>3. \/ n = m /\ w = u /\ written'[n][w] = written[n][w] + 1
        \/ ticket'[n][w] = ticket[n][w] /\ written'[n][w] = written[n][w]
    BY <1>4, <1>8 DEF Inv, TypeOK
  <2>4. ASSUME NEW s \in Tasks, task'[s].mode = n
        PROVE  /\ Due(task'[s], w) \/ Taken(task'[s], w) => matches[n][w] + 1 <= written'[n][w]
               /\ Taken(task'[s], w) /\ ticket'[n][w] # Null => matches[n][w] + 2 <= written'[n][w]
    <3>1. CASE s = t
      BY <1>5, <2>1, <3>1
    <3>2. CASE s # t
      <4>1. task'[s] = task[s]
        BY <1>5, <3>2
      <4>2. /\ Due(task[s], w) \/ Taken(task[s], w) => matches[n][w] + 1 <= written[n][w]
            /\ Taken(task[s], w) /\ ticket[n][w] # Null => matches[n][w] + 2 <= written[n][w]
        BY <2>4, <4>1 DEF Inv, Counted
      <4> QED
        BY <2>2, <2>3, <4>1, <4>2
    <3> QED
      BY <3>1, <3>2
  <2> QED
    BY <2>2, <2>3, <2>4
<1> QED
  BY <1>7, <1>9, <1>10 DEF Inv

(***************************************************************************)
(* The pass                                                                *)
(***************************************************************************)

(* Two pairs of a greedy pass have no player in common: a pair is made of
   neighbours, and no pair begins where another ends. *)
LEMMA GreedyApart ==
  ASSUME NEW ids \in [Users -> Nat \cup {Null}], NEW found \in SUBSET Listed(ids), NEW m,
         NEW P \in SUBSET Neighbours(ids, found), Greedy(m, Neighbours(ids, found), P)
  PROVE  Disjoint(P)
<1>1. \A u, v, w : Before(ids, u, v) /\ u \in found /\ v \in found => u # v
  BY MatchmakingAssumption DEF Before, Listed
<1>2. \A u, v \in found : u # v => Before(ids, u, v) \/ Before(ids, v, u)
  BY MatchmakingAssumption DEF Before, Listed
<1>3. \A p \in P : /\ p \in Users \X Users /\ p[1] \in found /\ p[2] \in found
                   /\ Before(ids, p[1], p[2])
                   /\ \A w \in found : ~(Before(ids, p[1], w) /\ Before(ids, w, p[2]))
  BY DEF Neighbours, Listed
<1>4. \A p, q \in P : p[2] # q[1]
  BY DEF Greedy
<1>5. ASSUME NEW p \in P, NEW q \in P, p[1] = q[1] \/ p[2] = q[2]
      PROVE  p = q
  <2>1. p[1] = q[1] => p[2] = q[2]
    BY <1>2, <1>3
  <2>2. p[2] = q[2] => p[1] = q[1]
    BY <1>2, <1>3
  <2> QED
    BY <1>3, <1>5, <2>1, <2>2
<1> QED
  BY <1>1, <1>3, <1>4, <1>5 DEF Disjoint, Of

(* On to the next pair, or to the end of the pass. *)
LEMMA NextPairStep ==
  ASSUME Inv, NEW t \in Tasks, NEW P \in SUBSET (Users \X Users), Disjoint(P),
         task[t].mode \in Mode, NextPair(t, P)
  PROVE  \E q \in Job :
           /\ task' = [task EXCEPT ![t] = q]
           /\ Equipped(q) /\ PairsApart(q) /\ q.pc \in Inside /\ q.mode = task[t].mode
           /\ \A u : ~Taken(q, u)
           /\ \A u : Due(q, u) => \E p \in P : u \in Of(p)
<1>1. task[t] \in Job /\ Equipped(task[t])
  BY JobTyped
<1>2. CASE P = {} /\ task' = [task EXCEPT ![t] =
                               [@ EXCEPT !.pc = "release", !.ids = Nobody, !.pairs = {},
                                         !.pair = Null, !.at = 1]]
  <2> DEFINE q == [task[t] EXCEPT !.pc = "release", !.ids = Nobody, !.pairs = {},
                                  !.pair = Null, !.at = 1]
  <2>1. q \in Job
    BY <1>1 DEF Job, Pc, Nobody
  <2>2. Equipped(q) /\ ~Works(q) /\ q.pc \in Inside /\ q.mode = task[t].mode
    BY <1>1 DEF Job, Equipped, Works, Inside
  <2>3. task' = [task EXCEPT ![t] = q]
    BY <1>2
  <2> HIDE DEF q
  <2> QED
    BY <2>1, <2>2, <2>3, Idler
<1>3. CASE \E p \in P : task' = [task EXCEPT ![t] =
                                   [@ EXCEPT !.pc = "unqueue", !.pair = p, !.at = 1,
                                             !.pairs = P \ {p}]]
  <2>1. PICK p \in P : task' = [task EXCEPT ![t] =
                                   [@ EXCEPT !.pc = "unqueue", !.pair = p, !.at = 1,
                                             !.pairs = P \ {p}]]
    BY <1>3
  <2> DEFINE q == [task[t] EXCEPT !.pc = "unqueue", !.pair = p, !.at = 1, !.pairs = P \ {p}]
  <2>2. q \in Job
    BY <1>1 DEF Job, Pc
  <2>3. q.pc = "unqueue" /\ q.pair = p /\ q.at = 1 /\ q.pairs = P \ {p} /\ q.mode = task[t].mode
        /\ q.kind = task[t].kind
    BY <1>1 DEF Job
  <2>4. task' = [task EXCEPT ![t] = q]
    BY <2>1
  <2> HIDE DEF q
  <2>5. Equipped(q) /\ q.pc \in Inside
    BY <2>3 DEF Equipped, Inside
  <2>6. PairsApart(q)
    <3>1. q.pairs \cup {q.pair} = P /\ q.pair \notin q.pairs
      BY <2>3
    <3> QED
      BY <3>1 DEF PairsApart
  <2>7. \A u : ~Taken(q, u)
    BY <2>3 DEF Taken
  <2>8. \A u : Due(q, u) => \E r \in P : u \in Of(r)
    BY <2>3 DEF Due, Of
  <2> QED
    BY <2>2, <2>3, <2>4, <2>5, <2>6, <2>7, <2>8
<1> QED
  BY <1>2, <1>3 DEF NextPair

(* When it has read the tickets, a pass counts only on players who have one. *)
LEMMA FetchStep ==
  ASSUME Inv, NEW t \in Tasks, Fetch(t)
  PROVE  /\ task' \in [Tasks -> Job]
         /\ LockOK' /\ JobsOK' /\ SweepRuns' /\ Counted'
<1> DEFINE m == task[t].mode
           ids == task[t].ids
           found == {u \in Listed(ids) : ticket[m][u] # Null}
           near == Neighbours(ids, found)
<1>1. task[t] \in Job /\ Equipped(task[t]) /\ task[t].pc = "fetch"
  BY JobTyped DEF Fetch
<1>2. m \in Mode /\ ids \in [Users -> Nat \cup {Null}] /\ task[t].pc \in Inside
  BY <1>1 DEF Job, Equipped, Inside
<1>3. PICK P \in SUBSET near : Greedy(m, near, P) /\ NextPair(t, P)
  BY DEF Fetch
<1>4. Disjoint(P)
  BY <1>2, <1>3, GreedyApart
<1>5. P \in SUBSET (Users \X Users)
  BY <1>3 DEF Neighbours, Listed
<1>6. \A p \in P : \A u \in Of(p) : ticket[m][u] # Null
  BY <1>3 DEF Neighbours, Of
<1>7. UNCHANGED <<ticket, lock, matches, written>>
  BY DEF Fetch, redis, history
<1>8. PICK q \in Job :
           /\ task' = [task EXCEPT ![t] = q]
           /\ Equipped(q) /\ PairsApart(q) /\ q.pc \in Inside /\ q.mode = task[t].mode
           /\ \A u : ~Taken(q, u)
           /\ \A u : Due(q, u) => \E p \in P : u \in Of(p)
  BY <1>2, <1>3, <1>4, <1>5, NextPairStep
<1>9. \A u \in Users : Due(q, u) => ticket[q.mode][u] # Null
  BY <1>6, <1>8
<1>10. task' \in [Tasks -> Job]
  BY <1>8, TaskMoves DEF Inv
<1>11. JobsOK' /\ SweepRuns'
  BY <1>8, JobsKept
<1>12. LockOK'
  BY <1>2, <1>7, <1>8, LockKept
<1>13. Counted'
  BY <1>7, <1>8, <1>9, CountedKept
<1> QED
  BY <1>10, <1>11, <1>12, <1>13

(* A request is done, the sweep goes on to the next mode. *)
LEMMA DoneJob ==
  ASSUME Inv, NEW t \in Tasks, task[t].mode \in Mode
  PROVE  /\ Done(t) \in Job /\ Equipped(Done(t)) /\ ~Works(Done(t))
         /\ Done(t).pc \notin Inside
         /\ t = Sweeper => Done(t).pc \in {"acquire"} \cup Inside
<1>1. CASE t # Sweeper
  BY <1>1 DEF Done, Idle, Job, Pc, Kinds, Nobody, Equipped, Works, Inside
<1>2. CASE t = Sweeper
  <2> DEFINE i == CHOOSE i \in DOMAIN Modes : Modes[i] = task[t].mode
             k == (i % Len(Modes)) + 1
  <2>1. i \in DOMAIN Modes
    BY DEF Mode, Range
  <2>2. k \in DOMAIN Modes
    <3>1. DOMAIN Modes = 1..Len(Modes) /\ Len(Modes) \in Nat /\ Len(Modes) > 0
      BY MatchmakingAssumption
    <3> HIDE DEF i
    <3> QED
      BY <2>1, <3>1
  <2>3. Modes[k] \in Mode
    BY <2>2 DEF Mode, Range
  <2>4. Done(t) = Sweep(k)
    BY <1>2 DEF Done
  <2> HIDE DEF k
  <2>5. Sweep(k) \in Job /\ Equipped(Sweep(k)) /\ ~Works(Sweep(k)) /\ Sweep(k).pc = "acquire"
    BY <2>3 DEF Sweep, Idle, Job, Pc, Kinds, Nobody, Equipped, Works, Inside
  <2> QED
    BY <2>4, <2>5 DEF Inside
<1> QED
  BY <1>1, <1>2

LEMMA AcquireStep ==
  ASSUME Inv, NEW t \in Tasks, Acquire(t)
  PROVE  Inv'
<1> DEFINE q == [task[t] EXCEPT !.pc = "range"]
           m == task[t].mode
<1>1. task[t] \in Job /\ Equipped(task[t]) /\ task[t].pc = "acquire" /\ m \in Mode
  BY JobTyped DEF Acquire, Equipped
<1>2. q \in Job /\ task' = [task EXCEPT ![t] = q]
  BY GoesMoves DEF Acquire, Pc
<1>3. Equipped(q) /\ ~Works(q) /\ q.pc \in Inside /\ q.mode = m
  BY <1>1 DEF Job, Equipped, Works, Inside
<1>4. /\ lock[m] = Null /\ lock' = [lock EXCEPT ![m] = t]
      /\ UNCHANGED <<queue, ticket, usermode, clients, history>>
  BY DEF Acquire
<1> HIDE DEF q
<1>5. task' \in [Tasks -> Job] /\ task'[t] = q /\ \A s \in Tasks \ {t} : task'[s] = task[s]
  BY <1>2, TaskMoves DEF Inv
<1>6. JobsOK' /\ SweepRuns'
  BY <1>2, <1>3, Idler, JobsKept
<1>7. LockOK'
  <2>1. \A s \in Tasks : s # Null
    BY MatchmakingAssumption DEF Tasks
  <2>2. task[t].pc \notin Inside
    BY <1>1 DEF Inside
  <2>3. \A n \in Mode : lock'[n] = IF n = m THEN t ELSE lock[n]
    BY <1>4 DEF Inv, TypeOK
  <2>4. \A n \in Mode, s \in Tasks : lock[n] = s <=> task[s].mode = n /\ task[s].pc \in Inside
    BY DEF Inv, LockOK
  <2> HIDE DEF m
  <2>5. ASSUME NEW n \in Mode, NEW s \in Tasks
        PROVE  lock'[n] = s <=> task'[s].mode = n /\ task'[s].pc \in Inside
    <3>1. CASE s = t
      BY <1>3, <1>5, <2>2, <2>3, <2>4, <3>1
    <3>2. CASE s # t /\ n = m
      BY <1>4, <1>5, <2>1, <2>3, <2>4, <3>2
    <3>3. CASE s # t /\ n # m
      BY <1>5, <2>3, <2>4, <3>3
    <3> QED
      BY <3>1, <3>2, <3>3
  <2> QED
    BY <2>5 DEF LockOK
<1>8. Counted'
  BY <1>2, <1>3, <1>4, Idler, CountedKept DEF history
<1>9. TypeOK'
  BY <1>1, <1>4, <1>5 DEF Inv, TypeOK, Job, Kinds, clients, history
<1> QED
  BY <1>6, <1>7, <1>8, <1>9 DEF Inv

LEMMA ReleaseStep ==
  ASSUME Inv, NEW t \in Tasks, Release(t)
  PROVE  Inv'
<1> DEFINE q == Done(t)
           m == task[t].mode
<1>1. task[t] \in Job /\ task[t].pc \in Inside /\ m \in Mode
  BY JobTyped DEF Release, Equipped, Inside
<1>2. task' = [task EXCEPT ![t] = q]
  BY DEF Release
<1>3. /\ q \in Job /\ Equipped(q) /\ ~Works(q) /\ q.pc \notin Inside
      /\ t = Sweeper => q.pc \in {"acquire"} \cup Inside
  BY <1>1, DoneJob
<1>4. /\ lock' = [lock EXCEPT ![m] = Null]
      /\ UNCHANGED <<queue, ticket, usermode, clients, history>>
  BY DEF Release
<1> HIDE DEF q
<1>5. task' \in [Tasks -> Job] /\ task'[t] = q /\ \A s \in Tasks \ {t} : task'[s] = task[s]
  BY <1>2, <1>3, TaskMoves DEF Inv
<1>6. JobsOK' /\ SweepRuns'
  BY <1>2, <1>3, Idler, JobsKept
<1>7. LockOK'
  <2>1. \A s \in Tasks : s # Null
    BY MatchmakingAssumption DEF Tasks
  <2>2. \A n \in Mode : lock'[n] = IF n = m THEN Null ELSE lock[n]
    BY <1>4 DEF Inv, TypeOK
  <2>3. \A n \in Mode, s \in Tasks : lock[n] = s <=> task[s].mode = n /\ task[s].pc \in Inside
    BY DEF Inv, LockOK
  <2>4. lock[m] = t
    BY <1>1, <2>3
  <2>5. \A n \in Mode : n # m => lock[n] # t
    BY <1>1, <2>3
  <2> HIDE DEF m
  <2>6. ASSUME NEW n \in Mode, NEW s \in Tasks
        PROVE  lock'[n] = s <=> task'[s].mode = n /\ task'[s].pc \in Inside
    <3>1. CASE s = t
      BY <1>3, <1>5, <2>1, <2>2, <2>5, <3>1
    <3>2. CASE s # t /\ n = m
      BY <1>5, <2>1, <2>2, <2>3, <2>4, <3>2
    <3>3. CASE s # t /\ n # m
      BY <1>5, <2>2, <2>3, <3>3
    <3> QED
      BY <3>1, <3>2, <3>3
  <2> QED
    BY <2>6 DEF LockOK
<1>8. Counted'
  BY <1>2, <1>3, <1>4, Idler, CountedKept DEF history
<1>9. TypeOK'
  BY <1>1, <1>4, <1>5 DEF Inv, TypeOK, Job, Kinds, clients, history
<1> QED
  BY <1>6, <1>7, <1>8, <1>9 DEF Inv

LEMMA QueueSteps ==
  ASSUME Inv, NEW t \in Tasks, GiveUp(t) \/ RangeQueue(t)
  PROVE  Inv'
<1>1. task[t] \in Job /\ Equipped(task[t]) /\ task[t].mode \in Mode
  BY JobTyped DEF GiveUp, RangeQueue, Equipped, Inside
<1>2. UNCHANGED <<redis, clients, history>>
  BY DEF GiveUp, RangeQueue
<1>3. /\ task' \in [Tasks -> Job]
      /\ LockOK' /\ JobsOK' /\ SweepRuns' /\ Counted'
  <2>1. CASE GiveUp(t)
    <3>1. task' = [task EXCEPT ![t] = Done(t)] /\ task[t].pc \notin Inside
      BY <2>1 DEF GiveUp, Inside
    <3> QED
      BY <1>1, <1>2, <3>1, DoneJob, OutsideStep DEF redis, history
  <2>2. CASE RangeQueue(t)
    <3> DEFINE ids == queue[task[t].mode]
               q == IF Cardinality(Listed(ids)) < 2 THEN [task[t] EXCEPT !.pc = "release"]
                    ELSE [task[t] EXCEPT !.pc = "fetch", !.ids = ids]
    <3>1. task' = [task EXCEPT ![t] = q] /\ task[t].pc = "range"
      BY <2>2 DEF RangeQueue
    <3>2. ids \in [Users -> Nat \cup {Null}]
      BY <1>1 DEF Inv, TypeOK
    <3>3. [task[t] EXCEPT !.pc = "release"] \in Job
      BY <1>1 DEF Job, Pc
    <3>4. [task[t] EXCEPT !.pc = "fetch", !.ids = ids] \in Job
      <4> HIDE DEF ids
      <4> QED
        BY <1>1, <3>2 DEF Job, Pc
    <3>5. q \in Job
      BY <3>3, <3>4
    <3>6. q.pc \in {"release", "fetch"} /\ q.mode = task[t].mode /\ q.kind = task[t].kind
      BY <1>1 DEF Job
    <3> HIDE DEF q
    <3>7. Equipped(q) /\ ~Works(q) /\ q.pc \in Inside /\ task[t].pc \in Inside
      BY <1>1, <3>1, <3>6 DEF Equipped, Works, Inside
    <3> QED
      BY <1>2, <3>1, <3>5, <3>6, <3>7, OutsideStep DEF redis, history
  <2> QED
    BY <2>1, <2>2
<1>4. TypeOK'
  BY <1>2, <1>3 DEF Inv, TypeOK, Job, Kinds, redis, clients, history
<1> QED
  BY <1>3, <1>4 DEF Inv

(* The player whose ticket goes next. *)
LEMMA LeavingPlayer ==
  ASSUME Inv, NEW t \in Tasks, task[t].pc \in {"unqueue", "unticket"}
  PROVE  /\ Leaving(t) \in Users
         /\ task[t].at = 1 => Leaving(t) = task[t].pair[1]
         /\ task[t].at = 2 => Leaving(t) = task[t].pair[2]
         /\ task[t].at \in {1, 2} /\ task[t].pair \in Users \X Users
<1>1. task[t].at \in {1, 2} /\ task[t].pair \in Users \X Users
  BY JobTyped DEF Job, Equipped
<1> QED
  BY <1>1 DEF Leaving

LEMMA UnqueueStep ==
  ASSUME Inv, NEW t \in Tasks, Unqueue(t)
  PROVE  Inv'
<1> DEFINE q == [task[t] EXCEPT !.pc = "unticket"]
<1>1. task[t] \in Job /\ Equipped(task[t]) /\ PairsApart(task[t]) /\ task[t].pc = "unqueue"
  BY JobTyped DEF Unqueue
<1>2. q \in Job /\ task' = [task EXCEPT ![t] = q]
  BY GoesMoves DEF Unqueue, Pc
<1>3. /\ q.pc = "unticket" /\ q.mode = task[t].mode /\ q.kind = task[t].kind
      /\ q.pair = task[t].pair /\ q.pairs = task[t].pairs /\ q.at = task[t].at
  BY <1>1 DEF Job
<1> HIDE DEF q
<1>4. Equipped(q) /\ PairsApart(q) /\ q.pc \in Inside /\ task[t].pc \in Inside
  BY <1>1, <1>3 DEF Equipped, PairsApart, Works, Inside
<1>5. \A u : (Due(q, u) <=> Due(task[t], u)) /\ (Taken(q, u) <=> Taken(task[t], u))
  BY <1>1, <1>3 DEF Due, Taken, Works
<1>6. UNCHANGED <<ticket, usermode, lock, clients, history>>
  BY DEF Unqueue
<1>7. JobsOK' /\ SweepRuns'
  BY <1>2, <1>4, JobsKept
<1>8. LockOK'
  BY <1>2, <1>3, <1>4, <1>6, LockKept
<1>9. Counted'
  BY <1>2, <1>3, <1>5, <1>6, CountedKept DEF history
<1>10. TypeOK'
  <2>1. task' \in [Tasks -> Job]
    BY <1>2, TaskMoves DEF Inv
  <2>2. Leaving(t) \in Users /\ task[t].mode \in Mode
    BY <1>1, LeavingPlayer DEF Equipped, Inside
  <2>3. queue' \in [Mode -> [Users -> Nat \cup {Null}]]
    BY <2>2 DEF Unqueue, Inv, TypeOK
  <2> QED
    BY <1>6, <2>1, <2>3 DEF Inv, TypeOK, Job, Kinds, clients, history
<1> QED
  BY <1>7, <1>8, <1>9, <1>10 DEF Inv

(* The ticket that goes is the one the match is paid with. *)
LEMMA UnticketStep ==
  ASSUME Inv, NEW t \in Tasks, Unticket(t)
  PROVE  Inv'
<1> DEFINE q == IF task[t].at = 1 THEN [task[t] EXCEPT !.pc = "unqueue", !.at = 2]
                ELSE [task[t] EXCEPT !.pc = "create"]
           m == task[t].mode
           p == Leaving(t)
<1>1. task[t] \in Job /\ Equipped(task[t]) /\ PairsApart(task[t]) /\ task[t].pc = "unticket"
  BY JobTyped DEF Unticket
<1>2. /\ p \in Users /\ task[t].at \in {1, 2} /\ m \in Mode
      /\ task[t].at = 1 => p = task[t].pair[1]
      /\ task[t].at = 2 => p = task[t].pair[2]
  BY <1>1, LeavingPlayer DEF Equipped, Inside
<1>3. task' = [task EXCEPT ![t] = q]
  BY DEF Unticket
<1>4. q \in Job
  <2>1. [task[t] EXCEPT !.pc = "unqueue", !.at = 2] \in Job
    BY <1>1 DEF Job, Pc
  <2>2. [task[t] EXCEPT !.pc = "create"] \in Job
    BY <1>1 DEF Job, Pc
  <2> QED
    BY <2>1, <2>2
<1>5. /\ q.mode = m /\ q.kind = task[t].kind
      /\ q.pair = task[t].pair /\ q.pairs = task[t].pairs
      /\ task[t].at = 1 => q.pc = "unqueue" /\ q.at = 2
      /\ task[t].at = 2 => q.pc = "create" /\ q.at = 2
  BY <1>1 DEF Job
<1>6. /\ ticket' = [ticket EXCEPT ![m][p] = Null]
      /\ usermode' = [usermode EXCEPT ![p] = Null]
      /\ UNCHANGED <<queue, lock, clients, history>>
  BY DEF Unticket
<1> HIDE DEF q, m, p
<1>7. Equipped(q) /\ PairsApart(q) /\ q.pc \in Inside /\ task[t].pc \in Inside
  BY <1>1, <1>2, <1>5 DEF Equipped, PairsApart, Works, Inside, m
<1>8. ticket'[m][p] = Null /\ \A n \in Mode, u \in Users : ticket'[n][u] # Null => ticket[n][u] # Null
  BY <1>2, <1>6 DEF Inv, TypeOK
<1>9. \A u \in Users : Due(q, u) \/ Taken(q, u) => Due(task[t], u) \/ Taken(task[t], u)
  BY <1>1, <1>2, <1>5 DEF Due, Taken, Works, Of
<1>10. \A u \in Users : Taken(q, u) => Taken(task[t], u) \/ u = p
  BY <1>1, <1>2, <1>5 DEF Taken, Of
<1>11. JobsOK' /\ SweepRuns'
  BY <1>3, <1>4, <1>7, JobsKept
<1>12. LockOK'
  BY <1>3, <1>4, <1>5, <1>6, <1>7, LockKept DEF m
<1>13. UNCHANGED <<matches, written>> /\ q.mode = task[t].mode
  BY <1>5, <1>6 DEF history, m
<1>14. \A u \in Users : Taken(q, u) => Taken(task[t], u) \/ ticket'[q.mode][u] = Null
  BY <1>5, <1>8, <1>10
<1>15. Counted'
  BY <1>3, <1>4, <1>8, <1>9, <1>13, <1>14, CountedKept
<1>16. TypeOK'
  <2>1. task' \in [Tasks -> Job]
    BY <1>3, <1>4, TaskMoves DEF Inv
  <2>2. ticket' \in [Mode -> [Users -> 0..MaxAge \cup {Null}]]
    BY <1>2, <1>6 DEF Inv, TypeOK
  <2>3. usermode' \in [Users -> Mode \cup {Null}]
    BY <1>2, <1>6 DEF Inv, TypeOK
  <2> QED
    BY <1>6, <2>1, <2>2, <2>3 DEF Inv, TypeOK, Job, Kinds, clients, history
<1> QED
  BY <1>11, <1>12, <1>15, <1>16 DEF Inv

(* What the end of a pair does to the task, whether the match was made or not. *)
LEMMA AfterPair ==
  ASSUME Inv, NEW t \in Tasks, task[t].pc = "create", NextPair(t, task[t].pairs), UNCHANGED redis
  PROVE  \E q \in Job :
           /\ task' = [task EXCEPT ![t] = q]
           /\ q.mode = task[t].mode
           /\ \A u : ~Taken(q, u)
           /\ \A u : Due(q, u) => Due(task[t], u) /\ ~Taken(task[t], u)
           /\ task' \in [Tasks -> Job] /\ LockOK' /\ JobsOK' /\ SweepRuns'
<1>1. task[t] \in Job /\ Equipped(task[t]) /\ PairsApart(task[t])
  BY JobTyped
<1>2. /\ task[t].mode \in Mode /\ task[t].pairs \in SUBSET (Users \X Users)
      /\ task[t].pc \in Inside
  BY <1>1 DEF Equipped, Job, Inside
<1>3. /\ Disjoint(task[t].pairs)
      /\ \A p \in task[t].pairs : Of(p) \cap Of(task[t].pair) = {}
  BY <1>1 DEF PairsApart, Works, Disjoint
<1>4. PICK q \in Job :
           /\ task' = [task EXCEPT ![t] = q]
           /\ Equipped(q) /\ PairsApart(q) /\ q.pc \in Inside /\ q.mode = task[t].mode
           /\ \A u : ~Taken(q, u)
           /\ \A u : Due(q, u) => \E p \in task[t].pairs : u \in Of(p)
  BY <1>2, <1>3, NextPairStep
<1>5. \A u : Due(q, u) => Due(task[t], u) /\ ~Taken(task[t], u)
  BY <1>3, <1>4 DEF Due, Taken, Works
<1>6. task' \in [Tasks -> Job]
  BY <1>4, TaskMoves DEF Inv
<1>7. JobsOK' /\ SweepRuns'
  BY <1>4, JobsKept
<1>8. LockOK'
  BY <1>2, <1>4, LockKept DEF redis
<1> QED
  BY <1>4, <1>5, <1>6, <1>7, <1>8

LEMMA CreateFailsStep ==
  ASSUME Inv, NEW t \in Tasks, CreateFails(t)
  PROVE  Inv'
<1>1. UNCHANGED <<redis, clients, now, written, matches>> /\ failures' \in 0..MaxFailures
  BY MatchmakingAssumption DEF CreateFails, Inv, TypeOK
<1>2. PICK q \in Job :
           /\ task' = [task EXCEPT ![t] = q]
           /\ q.mode = task[t].mode
           /\ \A u : ~Taken(q, u)
           /\ \A u : Due(q, u) => Due(task[t], u) /\ ~Taken(task[t], u)
           /\ task' \in [Tasks -> Job] /\ LockOK' /\ JobsOK' /\ SweepRuns'
  BY <1>1, AfterPair DEF CreateFails
<1>3. Counted'
  BY <1>1, <1>2, CountedKept DEF redis
<1>4. TypeOK'
  BY <1>1, <1>2 DEF Inv, TypeOK, Job, Kinds, redis, clients
<1> QED
  BY <1>2, <1>3, <1>4 DEF Inv

(* The match uses up the tickets that were taken; nobody else's pass is under way
   in this mode, and the pairs to come are of other players. *)
LEMMA CreateStep ==
  ASSUME Inv, NEW t \in Tasks, Create(t)
  PROVE  Inv'
<1> DEFINE m == task[t].mode
           pair == {task[t].pair[1], task[t].pair[2]}
<1>1. task[t] \in Job /\ task[t].pc = "create" /\ m \in Mode /\ task[t].pc \in Inside
  BY JobTyped DEF Create, Equipped, Inside
<1>2. UNCHANGED <<redis, room, searches, now, written, failures>>
  BY DEF Create
<1>3. PICK q \in Job :
           /\ task' = [task EXCEPT ![t] = q]
           /\ q.mode = task[t].mode
           /\ \A u : ~Taken(q, u)
           /\ \A u : Due(q, u) => Due(task[t], u) /\ ~Taken(task[t], u)
           /\ task' \in [Tasks -> Job] /\ LockOK' /\ JobsOK' /\ SweepRuns'
  BY <1>1, <1>2, AfterPair DEF Create
<1>4. task'[t] = q /\ \A s \in Tasks \ {t} : task'[s] = task[s]
  BY <1>3, TaskMoves DEF Inv
<1>5. matches' = [matches EXCEPT ![m] = [u \in Users |-> @[u] + IF u \in pair THEN 1 ELSE 0]]
  BY DEF Create
<1>6. \A n \in Mode, u \in Users :
        matches'[n][u] = IF n = m /\ Taken(task[t], u) THEN matches[n][u] + 1 ELSE matches[n][u]
  <2>1. \A u \in Users : Taken(task[t], u) <=> u \in pair
    BY <1>1 DEF Taken, Of
  <2>2. \A n \in Mode, u \in Users : matches[n][u] \in Nat
    BY DEF Inv, TypeOK
  <2>3. \A u \in Users : matches'[m][u] = matches[m][u] + IF u \in pair THEN 1 ELSE 0
    BY <1>1, <1>5 DEF Inv, TypeOK
  <2>4. \A n \in Mode : n # m => matches'[n] = matches[n]
    BY <1>5 DEF Inv, TypeOK
  <2> HIDE DEF m, pair
  <2> QED
    BY <2>1, <2>2, <2>3, <2>4
<1>7. \A s \in Tasks \ {t} : task[s].mode = m => \A u : ~Due(task[s], u) /\ ~Taken(task[s], u)
  <2>1. \A s \in Tasks \ {t} : ~(task[s].mode = m /\ task[s].pc \in Inside)
    BY <1>1 DEF Inv, LockOK
  <2> QED
    BY <2>1 DEF Due, Taken, Works, Inside
<1>8. UNCHANGED <<ticket, written>>
  BY <1>2 DEF redis
<1> HIDE DEF m, pair
<1>9. Counted'
  <2> SUFFICES ASSUME NEW n \in Mode, NEW u \in Users
               PROVE  /\ matches'[n][u] <= written[n][u]
                      /\ ticket[n][u] # Null => matches'[n][u] + 1 <= written[n][u]
                      /\ \A s \in Tasks : task'[s].mode = n =>
                           /\ Due(task'[s], u) \/ Taken(task'[s], u) => matches'[n][u] + 1 <= written[n][u]
                           /\ Taken(task'[s], u) /\ ticket[n][u] # Null => matches'[n][u] + 2 <= written[n][u]
    BY <1>8 DEF Counted
  <2>1. /\ matches[n][u] <= written[n][u]
        /\ ticket[n][u] # Null => matches[n][u] + 1 <= written[n][u]
        /\ matches[n][u] \in Nat /\ written[n][u] \in Nat
    BY DEF Inv, Counted, TypeOK
  <2>2. ASSUME NEW s \in Tasks, task[s].mode = n
        PROVE  /\ Due(task[s], u) \/ Taken(task[s], u) => matches[n][u] + 1 <= written[n][u]
               /\ Taken(task[s], u) /\ ticket[n][u] # Null => matches[n][u] + 2 <= written[n][u]
    BY <2>2 DEF Inv, Counted
  <2>3. n = m /\ Taken(task[t], u) =>
          /\ matches[n][u] + 1 <= written[n][u]
          /\ ticket[n][u] # Null => matches[n][u] + 2 <= written[n][u]
    BY <2>2 DEF m
  <2>4. /\ matches'[n][u] <= written[n][u]
        /\ ticket[n][u] # Null => matches'[n][u] + 1 <= written[n][u]
    BY <1>6, <2>1, <2>3
  <2>5. ASSUME NEW s \in Tasks, task'[s].mode = n
        PROVE  /\ Due(task'[s], u) \/ Taken(task'[s], u) => matches'[n][u] + 1 <= written[n][u]
               /\ Taken(task'[s], u) /\ ticket[n][u] # Null => matches'[n][u] + 2 <= written[n][u]
    <3>1. CASE s = t
      <4>1. ~Taken(task'[s], u) /\ task[t].mode = n
        BY <1>3, <1>4, <2>5, <3>1
      <4>2. Due(task'[s], u) => Due(task[t], u) /\ ~Taken(task[t], u)
        BY <1>3, <1>4, <3>1
      <4>3. ~Taken(task[t], u) => matches'[n][u] = matches[n][u]
        BY <1>6
      <4> QED
        BY <2>2, <4>1, <4>2, <4>3
    <3>2. CASE s # t /\ n = m
      BY <1>4, <1>7, <2>5, <3>2
    <3>3. CASE s # t /\ n # m
      <4>1. task'[s] = task[s] /\ matches'[n][u] = matches[n][u]
        BY <1>4, <1>6, <3>3
      <4> QED
        BY <2>2, <2>5, <4>1
    <3> QED
      BY <3>1, <3>2, <3>3
  <2> QED
    BY <2>4, <2>5
<1>10. TypeOK'
  <2>1. matches' \in [Mode -> [Users -> Nat]]
    BY <1>1, <1>5 DEF Inv, TypeOK
  <2>2. client' \in [Users -> {"idle", "searching", "matched"}]
    BY DEF Create, Inv, TypeOK
  <2>3. closing' \in [Users -> Nat]
    BY DEF Create, Inv, TypeOK
  <2> QED
    BY <1>2, <1>3, <2>1, <2>2, <2>3 DEF Inv, TypeOK, Job, Kinds, redis
<1> QED
  BY <1>3, <1>9, <1>10 DEF Inv

LEMMA TickStep ==
  ASSUME Inv, Tick
  PROVE  Inv'
<1>1. UNCHANGED <<queue, usermode, lock, task, clients, history>>
  BY DEF Tick
<1>2. LockOK' /\ JobsOK' /\ SweepRuns'
  BY <1>1 DEF Inv, LockOK, JobsOK, SweepRuns
<1> DEFINE older == [u \in Users |-> IF ticket["RANKED"][u] \in 0..MaxAge - 1
                                     THEN ticket["RANKED"][u] + 1 ELSE ticket["RANKED"][u]]
<1>7. "RANKED" \in Mode /\ ticket' = [ticket EXCEPT !["RANKED"] = older]
  BY DEF Tick
<1>8. ticket \in [Mode -> [Users -> 0..MaxAge \cup {Null}]]
  BY DEF Inv, TypeOK
<1>9. \A n \in 0..MaxAge - 1 : n + 1 \in 0..MaxAge
  BY MatchmakingAssumption
<1>10. older \in [Users -> 0..MaxAge \cup {Null}]
  <2> SUFFICES ASSUME NEW u \in Users
               PROVE  (IF ticket["RANKED"][u] \in 0..MaxAge - 1
                       THEN ticket["RANKED"][u] + 1 ELSE ticket["RANKED"][u]) \in 0..MaxAge \cup {Null}
    OBVIOUS
  <2>1. ticket["RANKED"][u] \in 0..MaxAge \cup {Null}
    BY <1>7, <1>8
  <2> QED
    BY <1>9, <2>1
<1>11. \A u \in Users :
        ticket["RANKED"][u] = Null /\ Null \notin 0..MaxAge - 1 => older[u] = Null
  OBVIOUS
<1>3. \A m \in Mode, u \in Users : ticket'[m][u] # Null => ticket[m][u] # Null
  <2>1. Null \notin 0..MaxAge - 1
    BY MatchmakingAssumption
  <2> HIDE DEF older
  <2> QED
    BY <1>7, <1>8, <1>11, <2>1
<1>4. ticket' \in [Mode -> [Users -> 0..MaxAge \cup {Null}]]
  <2> HIDE DEF older
  <2> QED
    BY <1>7, <1>8, <1>10
<1>5. Counted'
  BY <1>1, <1>3 DEF Inv, Counted, history
<1>6. TypeOK'
  BY <1>1, <1>4 DEF Inv, TypeOK, clients, history
<1> QED
  BY <1>2, <1>5, <1>6 DEF Inv

(***************************************************************************)
(* The theorem                                                             *)
(***************************************************************************)

LEMMA NextInv == Inv /\ [Next]_vars => Inv'
<1> SUFFICES ASSUME Inv, [Next]_vars PROVE Inv'
  OBVIOUS
<1>1. ASSUME NEW u \in Users, Cancel(u) \/ Disconnect(u) \/ \E m \in Mode : FindMatch(u, m)
      PROVE  Inv'
  BY <1>1, ClientActions
<1>2. ASSUME NEW t \in Tasks, Step(t)
      PROVE  Inv'
  <2>1. CASE Read(t) \/ ZRem(t) \/ Del(t) \/ ZAdd(t) \/ SetMode(t)
    BY <2>1, RequestActions, RequestTypes DEF Inv
  <2>2. CASE SetTicket(t)
    BY <2>2, SetTicketStep
  <2>3. CASE Acquire(t)
    BY <2>3, AcquireStep
  <2>4. CASE GiveUp(t) \/ RangeQueue(t)
    BY <2>4, QueueSteps
  <2>5. CASE Fetch(t)
    <3>1. UNCHANGED <<redis, clients, history>>
      BY <2>5 DEF Fetch
    <3>2. TypeOK'
      BY <2>5, <3>1, FetchStep DEF Inv, TypeOK, Job, Kinds, redis, clients, history
    <3> QED
      BY <2>5, <3>2, FetchStep DEF Inv
  <2>6. CASE Unqueue(t)
    BY <2>6, UnqueueStep
  <2>7. CASE Unticket(t)
    BY <2>7, UnticketStep
  <2>8. CASE Create(t)
    BY <2>8, CreateStep
  <2>9. CASE CreateFails(t)
    BY <2>9, CreateFailsStep
  <2>10. CASE Release(t)
    BY <2>10, ReleaseStep
  <2> QED
    BY <1>2, <2>1, <2>2, <2>3, <2>4, <2>5, <2>6, <2>7, <2>8, <2>9, <2>10 DEF Step
<1>3. CASE Tick
  BY <1>3, TickStep
<1>4. CASE UNCHANGED vars
  <2>1. UNCHANGED <<redis, task, clients, history>>
    BY <1>4 DEF vars
  <2>2. TypeOK' /\ LockOK'
    BY <2>1 DEF Inv, TypeOK, LockOK, redis, clients, history
  <2>3. JobsOK' /\ SweepRuns' /\ Counted'
    BY <2>1 DEF Inv, JobsOK, SweepRuns, Counted, redis, history
  <2> QED
    BY <2>2, <2>3 DEF Inv
<1> QED
  BY <1>1, <1>2, <1>3, <1>4 DEF Next

(* "All pairing is done under a per-mode lock so no player is matched twice"
   (matchmaking.service.ts:33): for any players, modes, requests, ratings and
   failures there is a ticket for every match of a player, and a pass holds the
   lock of its mode. *)
THEOREM NoTicketMakesTwoMatches == Spec => []TicketsOK
<1>1. Inv => TicketsOK
  BY DEF Inv, TicketsOK, NobodyMatchedTwice, Counted
<1> QED
  BY <1>1, InitInv, NextInv, PTL DEF Spec
=============================================================================
