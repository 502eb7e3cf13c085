--------------------------- MODULE GameRoomProofs ---------------------------
(***************************************************************************)
(* Proofs about GameRoom, for any number of concurrent tasks, any grace,   *)
(* reserve and lock life, and any bounds.                                  *)
(***************************************************************************)
EXTENDS GameRoom, TLAPS

-----------------------------------------------------------------------------
(* The engine operators and setDeadline stay within their types.           *)

LEMMA OverType ==
  ASSUME NEW g \in Game, NEW p \in Seat,
         NEW reason \in {"SINGLE", "RESIGNATION", "FORFEIT"}
  PROVE  Over(g, p, reason) \in Game
<1>1. g.events + 2 \in Nat
  BY DEF Game
<1>2. "GAME_OVER" \in Phase
  BY DEF Phase
<1>3. [winner |-> p, reason |-> reason] \in Result
  BY DEF Result
<1>4. QED BY <1>1, <1>2, <1>3 DEF Over, Game

LEMMA OtherType == ASSUME NEW p PROVE Other(p) \in Seat
BY DEF Other, Seat

LEMMA RollType == ASSUME NEW g \in Game PROVE Roll(g) \subseteq Game
<1>1. g.events + 1 \in Nat
  BY DEF Game
<1>2. "AWAITING_MOVE" \in Phase
  BY DEF Phase
<1>3. QED BY <1>1, <1>2 DEF Roll, Game

LEMMA PlayTurnType == ASSUME NEW g \in Game PROVE PlayTurn(g) \subseteq Game
<1>1. CASE g.phase # "AWAITING_MOVE"
  BY <1>1 DEF PlayTurn
<1>2. CASE g.phase = "AWAITING_MOVE"
  <2>1. Over(g, g.active, "SINGLE") \in Game
    BY OverType DEF Game
  <2>2. [g EXCEPT !.phase = "AWAITING_ROLL", !.events = @ + 1,
                  !.active = Other(@)] \in Game
    <3>1. g.events + 1 \in Nat
      BY DEF Game
    <3>2. "AWAITING_ROLL" \in Phase
      BY DEF Phase
    <3>3. QED BY <3>1, <3>2, OtherType DEF Game
  <2>3. QED BY <1>2, <2>1, <2>2 DEF PlayTurn
<1>3. QED BY <1>1, <1>2

LEMMA ForfeitType ==
  ASSUME NEW g \in Game, NEW p
  PROVE  Forfeit(g, p) \in Game /\ Resign(g, p) \subseteq Game
BY OverType, OtherType DEF Forfeit, Resign

LEMMA TransitionType ==
  ASSUME NEW g \in Game, NEW p, NEW intent
  PROVE  Transition(g, p, intent) \subseteq Game
BY RollType, PlayTurnType, ForfeitType DEF Transition

LEMMA AIStepType == ASSUME NEW g \in Game PROVE AIStep(g) \subseteq Game
BY RollType, PlayTurnType DEF AIStep

LEMMA SetDeadlineType ==
  ASSUME NEW r \in Room, now \in Nat
  PROVE  /\ SetDeadline(r) \in Room
         /\ SetDeadline(r).game = r.game
         /\ SetDeadline(r).deadline \in Deadline
<1> DEFINE overage == IF r.deadline = Null THEN 0
                      ELSE Pos(now - r.deadline.startedAt - PER_MOVE)
           reserve == IF r.deadline = Null THEN r.reserve
                      ELSE [r.reserve EXCEPT ![r.deadline.player] =
                              Pos(@ - overage)]
<1>1. overage \in Nat
  BY ConstantsAssumption DEF Room, Deadline, Pos
<1>2. reserve \in [Seat -> Nat]
  <2>1. CASE r.deadline = Null
    BY <2>1 DEF Room
  <2>2. CASE r.deadline # Null
    <3>1. \A s \in Seat : Pos(r.reserve[s] - overage) \in Nat
      BY <1>1 DEF Room, Pos
    <3>2. QED BY <2>2, <3>1 DEF Room, Deadline
  <2>3. QED BY <2>1, <2>2
<1>3. r.game.active \in Seat
  BY DEF Room, Game
<1>4. [player |-> r.game.active, startedAt |-> now,
       at |-> now + PER_MOVE + reserve[r.game.active]] \in Deadline
  BY <1>2, <1>3, ConstantsAssumption DEF Deadline
<1>5. SetDeadline(r) =
        [r EXCEPT !.reserve = reserve,
                  !.deadline = [player |-> r.game.active, startedAt |-> now,
                                at |-> now + PER_MOVE + reserve[r.game.active]]]
  BY DEF SetDeadline
<1>6. QED BY <1>2, <1>4, <1>5 DEF Room

-----------------------------------------------------------------------------
(* How a task's record moves.                                              *)

JobsOK == job \in [Tasks -> Job]
OthersKeep(t) == \A u \in Tasks : u # t => job'[u] = job[u]

LEMMA IdleType == Idle \in Job
BY DEF Idle, Job, JobFields, Label, Outside

LEMMA GotoMoves ==
  ASSUME JobsOK, NEW t \in Tasks, NEW label \in Label \ {"online"}, Goto(t, label)
  PROVE  /\ JobsOK' /\ OthersKeep(t)
         /\ job'[t].pc = label
         /\ job'[t].room = job[t].room
         /\ job'[t].kind = job[t].kind
<1>1. job[t] \in Job
  BY DEF JobsOK
<1>2. job' = [job EXCEPT ![t] = [job[t] EXCEPT !.pc = label]]
  BY DEF Goto, JobsOK
<1>3. [job[t] EXCEPT !.pc = label] \in Job
  BY <1>1 DEF Job, JobFields
<1>4. QED BY <1>1, <1>2, <1>3 DEF JobsOK, OthersKeep, Job, JobFields

LEMMA WorkMoves ==
  ASSUME JobsOK, NEW t \in Tasks, NEW label \in Label \ {"online"},
         NEW room \in Room \cup {Null}, NEW after \in Outside,
         after = "online" => job[t].kind = "join",
         Work(t, label, room, after)
  PROVE  /\ JobsOK' /\ OthersKeep(t)
         /\ job'[t].pc = label
         /\ job'[t].room = room
         /\ job'[t].kind = job[t].kind
<1>1. job[t] \in Job
  BY DEF JobsOK
<1>2. [job[t] EXCEPT !.pc = label, !.room = room, !.after = after] \in Job
  BY <1>1 DEF Job, JobFields
<1>3. QED BY <1>1, <1>2 DEF Work, JobsOK, OthersKeep, Job, JobFields

LEMMA StartMoves ==
  ASSUME JobsOK, NEW t \in Tasks,
         NEW kind \in {"none", "intent", "join", "sweep", "ai"},
         NEW seat \in Seat \cup {Null}, NEW intent \in Intent \cup {Null},
         kind = "join" => seat \in Seat,
         Start(t, kind, seat, intent)
  PROVE  /\ JobsOK' /\ OthersKeep(t)
         /\ job'[t].pc = "acquire"
<1>1. [Idle EXCEPT !.pc = "acquire", !.kind = kind,
                   !.seat = seat, !.intent = intent] \in Job
  BY DEF Idle, Job, JobFields, Label, Outside
<1>2. [Idle EXCEPT !.pc = "acquire", !.kind = kind,
                   !.seat = seat, !.intent = intent].pc = "acquire"
  BY DEF Idle
<1>3. QED BY <1>1, <1>2 DEF Start, JobsOK, OthersKeep

LEMMA IdleMoves ==
  ASSUME JobsOK, NEW t \in Tasks, job' = [job EXCEPT ![t] = Idle]
  PROVE  /\ JobsOK' /\ OthersKeep(t)
         /\ job'[t].pc = "idle"
BY IdleType DEF JobsOK, OthersKeep, Idle

LEMMA UnlockMoves ==
  ASSUME JobsOK, NEW t \in Tasks, Unlock(t)
  PROVE  /\ JobsOK' /\ OthersKeep(t)
         /\ job'[t].pc \in Outside
<1>1. job[t] \in Job
  BY DEF JobsOK
<1>2. CASE job[t].after = "idle"
  <2>1. job' = [job EXCEPT ![t] = Idle]
    BY <1>2 DEF Unlock
  <2>2. QED BY <2>1, IdleMoves DEF Outside
<1>3. CASE job[t].after # "idle"
  <2>1. [job[t] EXCEPT !.pc = job[t].after, !.room = Null, !.after = "idle"] \in Job
    BY <1>1 DEF Job, JobFields, Label, Outside
  <2>2. [job[t] EXCEPT !.pc = job[t].after, !.room = Null,
                       !.after = "idle"].pc = job[t].after
    BY <1>1 DEF Job, JobFields
  <2>3. job[t].after \in Outside
    BY <1>1 DEF Job, JobFields
  <2>4. QED BY <1>3, <2>1, <2>2, <2>3 DEF Unlock, JobsOK, OthersKeep
<1>4. QED BY <1>2, <1>3

-----------------------------------------------------------------------------
(* The inductive invariant that needs no assumption on faults: types, what *)
(* a task carries from its load to its writes, and the record.             *)

ClockRuns(r) ==
  /\ r.deadline # Null
  /\ r.deadline.player = r.game.active
  /\ r.deadline.at = r.deadline.startedAt + PER_MOVE + r.reserve[r.deadline.player]

Carries(j) ==
  /\ j.pc \in {"arm", "save", "rearm"} => j.room # Null /\ ClockRuns(j.room)
  /\ j.pc \in {"unarm", "persist", "clear", "remove", "announce"} => j.room # Null
  /\ j.pc \in {"unarm", "persist"} => j.room.game.result \in Result

Carried == \A t \in Tasks : Carries(job[t])

Record == db.commits = 0 \/ (db.commits = 1 /\ db.result # Null)

IInv == TypeOK /\ Carried /\ ClockOnActor /\ Record

(* An outcome that ends the game has a result.                             *)
LEMMA OverHasResult ==
  ASSUME NEW g \in Game, ~IsOver(g), NEW p, NEW intent,
         NEW n \in Transition(g, p, intent) \cup AIStep(g) \cup {Forfeit(g, p)},
         IsOver(n)
  PROVE  n.result \in Result
<1>1. \A w \in Seat : \A reason \in {"SINGLE", "RESIGNATION", "FORFEIT"} :
        Over(g, w, reason).result \in Result
  BY DEF Over, Game, Result
<1>2. \A x \in Roll(g) : ~IsOver(x)
  BY DEF Roll, IsOver, Game
<1>3. \A x \in PlayTurn(g) : IsOver(x) => x.result \in Result
  <2>1. ~IsOver([g EXCEPT !.phase = "AWAITING_ROLL", !.events = @ + 1,
                          !.active = Other(@)])
    BY DEF IsOver, Game
  <2>2. g.active \in Seat
    BY DEF Game
  <2>3. QED BY <1>1, <2>1, <2>2 DEF PlayTurn
<1>4. Forfeit(g, p).result \in Result
  BY <1>1, OtherType DEF Forfeit
<1>5. \A x \in Resign(g, p) : x.result \in Result
  BY <1>1, OtherType DEF Resign
<1>6. QED BY <1>2, <1>3, <1>4, <1>5 DEF Transition, AIStep

LEMMA SetDeadlineClock ==
  ASSUME NEW r \in Room, now \in Nat
  PROVE  ClockRuns(SetDeadline(r))
<1> DEFINE reserve == IF r.deadline = Null THEN r.reserve
                      ELSE [r.reserve EXCEPT ![r.deadline.player] =
                              Pos(@ - (IF r.deadline = Null THEN 0
                                ELSE Pos(now - r.deadline.startedAt - PER_MOVE)))]
           d == [player |-> r.game.active, startedAt |-> now,
                 at |-> now + PER_MOVE + reserve[r.game.active]]
<1>1. SetDeadline(r) = [r EXCEPT !.reserve = reserve, !.deadline = d]
  BY DEF SetDeadline
<1>2. /\ SetDeadline(r).game = r.game
      /\ SetDeadline(r).reserve = reserve
      /\ SetDeadline(r).deadline = d
  BY <1>1 DEF Room
<1>3. d # Null
  BY <1>2, SetDeadlineType, NullAssumption
<1>4. QED BY <1>2, <1>3 DEF ClockRuns

LEMMA CommitMoves ==
  ASSUME JobsOK, NEW t \in Tasks, NEW room \in Room, NEW g \in Game,
         NEW after \in Outside, after = "online" => job[t].kind = "join", now \in Nat,
         IsOver(g) => g.result \in Result,
         Commit(t, room, g, after)
  PROVE  /\ JobsOK' /\ OthersKeep(t) /\ Carries(job'[t])
         /\ job'[t].pc = IF IsOver(g) THEN "unarm" ELSE "arm"
         /\ job'[t].room \in Room
         /\ job'[t].room.game = g
<1> DEFINE ended == [room EXCEPT !.game = g, !.deadline = Null]
           played == [room EXCEPT !.game = g]
<1>1. ended \in Room /\ ended.game = g
  BY DEF Room
<1>2. played \in Room /\ played.game = g
  BY DEF Room
<1>3. SetDeadline(played) \in Room /\ SetDeadline(played).game = g
  BY <1>2, SetDeadlineType
<1>4. ClockRuns(SetDeadline(played))
  BY <1>2, SetDeadlineClock
<1>5. Null \notin Room
  BY NullAssumption
<1>6. CASE IsOver(g)
  <2>1. Work(t, "unarm", ended, after)
    BY <1>6 DEF Commit
  <2>2. "unarm" \in Label \ {"online"}
    BY DEF Label, Section
  <2>3. /\ JobsOK' /\ OthersKeep(t)
        /\ job'[t].pc = "unarm" /\ job'[t].room = ended
    BY <1>1, <2>1, <2>2, WorkMoves
  <2>4. job'[t].room.game.result \in Result
    BY <1>1, <1>6, <2>3
  <2>5. QED BY <1>1, <1>5, <1>6, <2>3, <2>4 DEF Carries
<1>7. CASE ~IsOver(g)
  <2>1. Work(t, "arm", SetDeadline(played), after)
    BY <1>7 DEF Commit
  <2>2. "arm" \in Label \ {"online"}
    BY DEF Label, Section
  <2>3. QED BY <1>3, <1>4, <1>5, <1>7, <2>1, <2>2, WorkMoves DEF Carries
<1>8. QED BY <1>6, <1>7

LEMMA CarriedByOthers ==
  ASSUME Carried, NEW t \in Tasks, OthersKeep(t), Carries(job'[t])
  PROVE  Carried'
BY DEF Carried, OthersKeep, Carries

-----------------------------------------------------------------------------
(* Steps that leave the room, the deadlines and the record alone.          *)

LEMMA QuietStep ==
  ASSUME IInv, JobsOK', NEW t \in Tasks, OthersKeep(t), Carries(job'[t]),
         UNCHANGED <<now, store, zset, db, overtime>>,
         lock' \in [owner : Tasks \cup {Orphan, Null}, until : Nat],
         online' \subseteq Seat, sent' \in Nat, faults' \in Nat
  PROVE  IInv'
<1>1. Carried'
  BY CarriedByOthers DEF IInv
<1>2. ClockOnActor'
  BY DEF IInv, ClockOnActor
<1>3. Record'
  BY DEF IInv, Record
<1>4. TypeOK'
  BY DEF IInv, TypeOK, JobsOK
<1>5. QED BY <1>1, <1>2, <1>3, <1>4 DEF IInv

(* A task that is between its calls carries nothing.                       *)
LEMMA CarriesNothing ==
  ASSUME NEW j, j.pc \in Outside \cup {"load", "drop", "release"}
  PROVE  Carries(j)
BY DEF Carries, Outside

LEMMA TypeFacts ==
  ASSUME IInv
  PROVE  /\ JobsOK /\ now \in Nat /\ sent \in Nat /\ faults \in Nat
         /\ online \subseteq Seat
         /\ lock \in [owner : Tasks \cup {Orphan, Null}, until : Nat]
         /\ store # Null => store \in Room /\ store.game \in Game
BY DEF IInv, TypeOK, JobsOK, Room

LEMMA QuietActions ==
  ASSUME IInv, NEW t \in Tasks,
         \/ \E seat \in Seat : \E intent \in Intent : Submit(t, seat, intent)
         \/ \E seat \in Seat : Join(t, seat)
         \/ Watch(t) \/ SweepDue(t) \/ Acquire(t) \/ GiveUp(t)
         \/ LoadIntent(t) \/ LoadJoin(t) \/ LoadAI(t) \/ LoadSweep(t)
         \/ Announce(t) \/ Release(t) \/ MarkOnline(t) \/ Drive(t) \/ Resume(t)
         \/ CallFails(t) \/ Crash(t)
  PROVE  IInv'
<1> USE TypeFacts
<1>0. {"load", "release", "drop", "rearm", "arm", "drive"} \subseteq Label \ {"online"}
  BY DEF Label, Section, Outside
<1>1. CASE \E seat \in Seat : \E intent \in Intent : Submit(t, seat, intent)
  <2>1. PICK seat \in Seat, intent \in Intent : Submit(t, seat, intent)
    BY <1>1
  <2>2. JobsOK' /\ OthersKeep(t) /\ job'[t].pc = "acquire"
    BY <2>1, StartMoves DEF Submit
  <2>3. QED BY <2>1, <2>2, QuietStep, CarriesNothing DEF Submit, history, Outside
<1>2. CASE \E seat \in Seat : Join(t, seat)
  <2>1. PICK seat \in Seat : Join(t, seat)
    BY <1>2
  <2>2. JobsOK' /\ OthersKeep(t) /\ job'[t].pc = "acquire"
    BY <2>1, StartMoves DEF Join
  <2>3. QED BY <2>1, <2>2, QuietStep, CarriesNothing DEF Join, history, Outside
<1>3. CASE Watch(t)
  <2>1. JobsOK' /\ OthersKeep(t) /\ job'[t].pc = "drive"
    BY <1>0, <1>3, GotoMoves DEF Watch
  <2>2. QED BY <1>3, <2>1, QuietStep, CarriesNothing DEF Watch, history, Outside
<1>4. CASE SweepDue(t)
  <2>1. JobsOK' /\ OthersKeep(t) /\ job'[t].pc = "acquire"
    BY <1>4, StartMoves DEF SweepDue
  <2>2. QED BY <1>4, <2>1, QuietStep, CarriesNothing DEF SweepDue, history, Outside
<1>5. CASE Acquire(t)
  <2>1. JobsOK' /\ OthersKeep(t) /\ job'[t].pc = "load"
    BY <1>0, <1>5, GotoMoves DEF Acquire
  <2>2. now + LOCK_TTL \in Nat
    BY ConstantsAssumption
  <2>3. QED BY <1>5, <2>1, <2>2, QuietStep, CarriesNothing DEF Acquire, history
<1>6. CASE GiveUp(t)
  <2>1. JobsOK' /\ OthersKeep(t) /\ job'[t].pc = "idle"
    BY <1>6, IdleMoves DEF GiveUp
  <2>2. QED BY <1>6, <2>1, QuietStep, CarriesNothing DEF GiveUp, history, Outside
<1>7. CASE LoadIntent(t)
  <2> DEFINE outcomes == IF store = Null \/ IsOver(store.game) THEN {}
                         ELSE Transition(store.game, job[t].seat, job[t].intent)
  <2>1. JobsOK' /\ OthersKeep(t) /\ Carries(job'[t])
    <3>1. CASE Return(t, "idle")
      BY <1>0, <3>1, WorkMoves, CarriesNothing DEF Return, Outside
    <3>2. CASE \E g \in outcomes :
                 Commit(t, store, g, IF IsOver(g) THEN "idle" ELSE "drive")
      <4>1. PICK g \in outcomes :
              Commit(t, store, g, IF IsOver(g) THEN "idle" ELSE "drive")
        BY <3>2
      <4>2. /\ store \in Room /\ store.game \in Game /\ ~IsOver(store.game)
            /\ g \in Transition(store.game, job[t].seat, job[t].intent)
        BY <4>1
      <4>3. g \in Game /\ (IsOver(g) => g.result \in Result)
        BY <4>2, TransitionType, OverHasResult
      <4>4. (IF IsOver(g) THEN "idle" ELSE "drive") \in Outside
        BY DEF Outside
      <4>5. QED BY <4>1, <4>2, <4>3, <4>4, CommitMoves
    <3>3. QED BY <1>7, <3>1, <3>2 DEF LoadIntent
  <2>2. QED BY <1>7, <2>1, QuietStep DEF LoadIntent, history
<1>8. CASE LoadJoin(t)
  <2>1. JobsOK' /\ OthersKeep(t) /\ Carries(job'[t])
    <3>0. job[t].kind = "join"
      BY <1>8 DEF LoadJoin
    <3>1. CASE Return(t, "online")
      BY <1>0, <3>0, <3>1, WorkMoves, CarriesNothing DEF Return, Outside
    <3>2. CASE store # Null /\ Work(t, "arm", SetDeadline(store), "online")
      <4>1. SetDeadline(store) \in Room /\ ClockRuns(SetDeadline(store))
        BY <3>2, SetDeadlineType, SetDeadlineClock
      <4>2. QED BY <1>0, <3>0, <3>2, <4>1, WorkMoves, NullAssumption DEF Carries, Outside
    <3>3. QED BY <1>8, <3>1, <3>2 DEF LoadJoin
  <2>2. QED BY <1>8, <2>1, QuietStep DEF LoadJoin, history
<1>9. CASE LoadAI(t)
  <2>1. JobsOK' /\ OthersKeep(t) /\ Carries(job'[t])
    <3>1. CASE Return(t, "idle")
      BY <1>0, <3>1, WorkMoves, CarriesNothing DEF Return, Outside
    <3>2. CASE /\ store # Null /\ ~IsOver(store.game)
               /\ \E g \in AIStep(store.game) : Commit(t, store, g, "pause")
      <4>1. PICK g \in AIStep(store.game) : Commit(t, store, g, "pause")
        BY <3>2
      <4>2. g \in Game /\ (IsOver(g) => g.result \in Result)
        BY <3>2, <4>1, AIStepType, OverHasResult
      <4>3. QED BY <3>2, <4>1, <4>2, CommitMoves DEF Outside
    <3>3. QED BY <1>9, <3>1, <3>2 DEF LoadAI
  <2>2. QED BY <1>9, <2>1, QuietStep DEF LoadAI, history
<1>10. CASE LoadSweep(t)
  <2>1. JobsOK' /\ OthersKeep(t) /\ Carries(job'[t])
    <3>1. CASE Work(t, "drop", Null, "idle")
      BY <1>0, <3>1, WorkMoves, CarriesNothing DEF Outside
    <3>2. CASE /\ store # Null /\ store.deadline # Null
               /\ Work(t, "rearm", store, "idle")
      <4>1. ClockRuns(store)
        BY <3>2 DEF IInv, ClockOnActor, ClockRuns
      <4>2. QED BY <1>0, <3>2, <4>1, WorkMoves DEF Carries, Outside
    <3>3. CASE /\ store # Null /\ ~IsOver(store.game)
               /\ Commit(t, store, Forfeit(store.game, store.deadline.player), "idle")
      <4>1. Forfeit(store.game, store.deadline.player) \in Game
        BY <3>3, ForfeitType
      <4>2. QED BY <3>3, <4>1, OverHasResult, CommitMoves DEF Outside
    <3>4. QED BY <1>10, <3>1, <3>2, <3>3 DEF LoadSweep
  <2>2. QED BY <1>10, <2>1, QuietStep DEF LoadSweep, history
<1>11. CASE Announce(t)
  <2>1. JobsOK' /\ OthersKeep(t) /\ job'[t].pc \in Outside
    BY <1>11, UnlockMoves DEF Announce
  <2>2. job[t].room \in Room
    BY <1>11 DEF Announce, At, IInv, Carried, Carries, TypeOK, Job, JobFields
  <2>3. sent' \in Nat
    BY <1>11, <2>2 DEF Announce, Room, Game
  <2>4. lock' \in [owner : Tasks \cup {Orphan, Null}, until : Nat]
    BY <1>11 DEF Announce, Unlock
  <2>5. QED BY <1>11, <2>1, <2>3, <2>4, QuietStep, CarriesNothing DEF Announce
<1>12. CASE Release(t)
  <2>1. JobsOK' /\ OthersKeep(t) /\ job'[t].pc \in Outside
    BY <1>12, UnlockMoves DEF Release
  <2>2. lock' \in [owner : Tasks \cup {Orphan, Null}, until : Nat]
    BY <1>12 DEF Release, Unlock
  <2>3. QED BY <1>12, <2>1, <2>2, QuietStep, CarriesNothing DEF Release, history
<1>13. CASE MarkOnline(t)
  <2>1. JobsOK' /\ OthersKeep(t) /\ job'[t].pc = "drive"
    BY <1>0, <1>13, GotoMoves DEF MarkOnline
  <2>2. job[t].seat \in Seat
    BY <1>13 DEF MarkOnline, At, JobsOK, Job
  <2>3. QED BY <1>13, <2>1, <2>2, QuietStep, CarriesNothing DEF MarkOnline, history, Outside
<1>14. CASE Drive(t)
  <2>1. JobsOK' /\ OthersKeep(t) /\ job'[t].pc \in Outside
    BY <1>14, StartMoves, IdleMoves DEF Drive, Outside
  <2>2. QED BY <1>14, <2>1, QuietStep, CarriesNothing DEF Drive, history
<1>15. CASE Resume(t)
  <2>1. JobsOK' /\ OthersKeep(t) /\ job'[t].pc = "acquire"
    BY <1>15, StartMoves DEF Resume
  <2>2. QED BY <1>15, <2>1, QuietStep, CarriesNothing DEF Resume, history, Outside
<1>16. CASE CallFails(t)
  <2>1. JobsOK' /\ OthersKeep(t) /\ job'[t].pc = "release"
    BY <1>0, <1>16, WorkMoves DEF CallFails, Return, Outside
  <2>2. QED BY <1>16, <2>1, QuietStep, CarriesNothing DEF CallFails, history
<1>17. CASE Crash(t)
  <2>1. JobsOK' /\ OthersKeep(t) /\ job'[t].pc = "idle"
    BY <1>17, IdleMoves DEF Crash
  <2>2. lock' \in [owner : Tasks \cup {Orphan, Null}, until : Nat]
    BY <1>17 DEF Crash
  <2>3. QED BY <1>17, <2>1, <2>2, QuietStep, CarriesNothing DEF Crash, history, Outside
<1>18. QED BY <1>1, <1>2, <1>3, <1>4, <1>5, <1>6, <1>7, <1>8, <1>9, <1>10,
              <1>11, <1>12, <1>13, <1>14, <1>15, <1>16, <1>17

-----------------------------------------------------------------------------
(* Steps that write the room, the deadlines, the presence or the record.   *)

LEMMA WriteActions ==
  ASSUME IInv, NEW t \in Tasks,
         \/ Drop(t) \/ Rearm(t) \/ Arm(t) \/ Save(t)
         \/ Unarm(t) \/ Persist(t) \/ Clear(t) \/ Remove(t)
  PROVE  IInv'
<1> USE TypeFacts
<1>0. /\ {"release", "save", "announce", "persist", "clear", "remove"}
            \subseteq Label \ {"online"}
      /\ Carries(job[t])
      /\ job[t].room # Null => job[t].room \in Room
  BY DEF Label, Section, Outside, IInv, Carried, JobsOK, Job, JobFields
<1>1. CASE Drop(t)
  <2>1. JobsOK' /\ OthersKeep(t) /\ Carries(job'[t])
    BY <1>0, <1>1, GotoMoves, CarriesNothing DEF Drop
  <2>2. QED BY <1>1, <2>1, CarriedByOthers
            DEF Drop, history, IInv, TypeOK, JobsOK, ClockOnActor, Record
<1>2. CASE Rearm(t)
  <2>1. JobsOK' /\ OthersKeep(t) /\ Carries(job'[t])
    BY <1>0, <1>2, GotoMoves, CarriesNothing DEF Rearm
  <2>2. zset' \in Nat
    BY <1>0, <1>2 DEF Rearm, At, Carries, ClockRuns, Room, Deadline
  <2>3. QED BY <1>2, <2>1, <2>2, CarriedByOthers
            DEF Rearm, history, IInv, TypeOK, JobsOK, ClockOnActor, Record
<1>3. CASE Arm(t)
  <2>1. JobsOK' /\ OthersKeep(t) /\ Carries(job'[t])
    BY <1>0, <1>3, GotoMoves DEF Arm, At, Carries
  <2>2. zset' \in Nat
    BY <1>0, <1>3 DEF Arm, At, Carries, ClockRuns, Room, Deadline
  <2>3. QED BY <1>3, <2>1, <2>2, CarriedByOthers
            DEF Arm, history, IInv, TypeOK, JobsOK, ClockOnActor, Record
<1>4. CASE Save(t)
  <2>1. JobsOK' /\ OthersKeep(t) /\ Carries(job'[t])
    BY <1>0, <1>4, GotoMoves DEF Save, At, Carries
  <2>2. store' \in Room /\ ClockRuns(store')
    BY <1>0, <1>4 DEF Save, At, Carries
  <2>3. ClockOnActor'
    BY <2>2 DEF ClockOnActor, ClockRuns
  <2>4. QED BY <1>4, <2>1, <2>2, <2>3, CarriedByOthers
            DEF Save, history, IInv, TypeOK, JobsOK, Record
<1>5. CASE Unarm(t)
  <2>1. JobsOK' /\ OthersKeep(t) /\ Carries(job'[t])
    BY <1>0, <1>5, GotoMoves DEF Unarm, At, Carries
  <2>2. QED BY <1>5, <2>1, CarriedByOthers
            DEF Unarm, history, IInv, TypeOK, JobsOK, ClockOnActor, Record
<1>6. CASE Persist(t)
  <2>1. CASE db.result = Null
    <3>1. JobsOK' /\ OthersKeep(t) /\ Carries(job'[t])
      BY <1>0, <1>6, <2>1, GotoMoves DEF Persist, At, Carries
    <3>2. db' = [result |-> job[t].room.game.result, commits |-> db.commits + 1]
      BY <1>6, <2>1 DEF Persist
    <3>3. job[t].room.game.result \in Result
      BY <1>0, <1>6 DEF Persist, At, Carries
    <3>4. db.commits = 0
      BY <2>1 DEF IInv, Record
    <3>5. Record' /\ db' \in [result : Result \cup {Null}, commits : Nat]
      BY <3>2, <3>3, <3>4, NullAssumption DEF Record
    <3>6. QED BY <1>6, <3>1, <3>5, CarriedByOthers
              DEF Persist, history, IInv, TypeOK, JobsOK, ClockOnActor
  <2>2. CASE db.result # Null
    <3>1. JobsOK' /\ OthersKeep(t) /\ Carries(job'[t])
      BY <1>0, <1>6, <2>2, WorkMoves, CarriesNothing DEF Persist, Return, Outside
    <3>2. QED BY <1>6, <2>2, <3>1, CarriedByOthers
              DEF Persist, history, IInv, TypeOK, JobsOK, ClockOnActor, Record
  <2>3. QED BY <2>1, <2>2
<1>7. CASE Clear(t)
  <2>1. JobsOK' /\ OthersKeep(t) /\ Carries(job'[t])
    BY <1>0, <1>7, GotoMoves DEF Clear, At, Carries
  <2>2. QED BY <1>7, <2>1, CarriedByOthers
            DEF Clear, history, IInv, TypeOK, JobsOK, ClockOnActor, Record
<1>8. CASE Remove(t)
  <2>1. JobsOK' /\ OthersKeep(t) /\ Carries(job'[t])
    BY <1>0, <1>8, GotoMoves DEF Remove, At, Carries
  <2>2. QED BY <1>8, <2>1, CarriedByOthers
            DEF Remove, history, IInv, TypeOK, JobsOK, ClockOnActor, Record
<1>9. QED BY <1>1, <1>2, <1>3, <1>4, <1>5, <1>6, <1>7, <1>8

LEMMA EnvironmentActions ==
  ASSUME IInv,
         (\E seat \in Seat : Leave(seat)) \/ RoomExpires \/ Tick \/ UNCHANGED vars
  PROVE  IInv'
<1>1. CASE \E seat \in Seat : Leave(seat)
  BY <1>1 DEF Leave, history, IInv, TypeOK, Carried, Carries, ClockOnActor, Record
<1>2. CASE RoomExpires
  BY <1>2 DEF RoomExpires, history, IInv, TypeOK, Carried, Carries, ClockOnActor, Record
<1>3. CASE Tick
  <2>1. now' \in Nat /\ overtime' \in [Seat -> Nat]
    BY <1>3 DEF Tick, IInv, TypeOK
  <2>2. QED BY <1>3, <2>1
            DEF Tick, IInv, TypeOK, Carried, Carries, ClockOnActor, Record
<1>4. CASE UNCHANGED vars
  BY <1>4 DEF vars, history, IInv, TypeOK, Carried, Carries, ClockOnActor, Record
<1>5. QED BY <1>1, <1>2, <1>3, <1>4

LEMMA InitInv == Init => IInv
<1> SUFFICES ASSUME Init PROVE IInv
  OBVIOUS
<1>1. PICK starter \in Seat :
        store = [game |-> [active |-> starter, phase |-> "AWAITING_MOVE",
                           events |-> 1, result |-> Null],
                 reserve |-> [s \in Seat |-> RESERVE],
                 deadline |-> Null]
  BY DEF Init
<1>2. store \in Room
  BY <1>1, ConstantsAssumption DEF Room, Game, Phase
<1>3. JobsOK
  BY IdleType DEF Init, JobsOK
<1>4. TypeOK
  BY <1>2, <1>3, ConstantsAssumption DEF Init, TypeOK, JobsOK
<1>5. Carried
  BY CarriesNothing DEF Init, Carried, Idle, Outside
<1>6. ClockOnActor /\ Record
  BY <1>1 DEF Init, ClockOnActor, Record
<1>7. QED BY <1>4, <1>5, <1>6 DEF IInv

LEMMA NextInv == IInv /\ [Next]_vars => IInv'
<1> SUFFICES ASSUME IInv, [Next]_vars PROVE IInv'
  OBVIOUS
<1>1. CASE \E t \in Requests : Client(t)
  BY <1>1, QuietActions DEF Client, Tasks
<1>2. CASE \E t \in Sweeps : SweepDue(t)
  BY <1>2, QuietActions DEF Tasks
<1>3. CASE \E t \in Tasks : Advance(t) \/ GiveUp(t) \/ CallFails(t) \/ Crash(t)
  BY <1>3, QuietActions, WriteActions DEF Advance, Locked
<1>4. CASE (\E seat \in Seat : Leave(seat)) \/ RoomExpires \/ Tick \/ UNCHANGED vars
  BY <1>4, EnvironmentActions
<1>5. QED BY <1>1, <1>2, <1>3, <1>4 DEF Next

LEMMA InvHolds == Spec => []IInv
BY InitInv, NextInv, PTL DEF Spec

(* Whatever fails, the state stays well-formed.                            *)
THEOREM TypeCorrect == Spec => []TypeOK
<1>1. IInv => TypeOK
  BY DEF IInv
<1>2. QED BY <1>1, InvHolds, PTL

(* The clock of a saved room is always the clock of the seat that must     *)
(* act, with the grace and that seat's whole bank, under every fault and   *)
(* even when the lock does not exclude (setDeadline).                      *)
THEOREM ClockCorrect == Spec => []ClockOnActor
<1>1. IInv => ClockOnActor
  BY DEF IInv
<1>2. QED BY <1>1, InvHolds, PTL

(* The result transaction commits at most once per match, whatever fails   *)
(* and even when the lock does not exclude (persistFinished).              *)
THEOREM ResultOnce == Spec => []RecordedOnce
<1>1. IInv => RecordedOnce
  BY DEF IInv, Record, RecordedOnce
<1>2. QED BY <1>1, InvHolds, PTL

-----------------------------------------------------------------------------
(* The lock. From here on no section outlives its lock key.                *)

NoExpiry == "expiry" \notin Faults

Held == \A t \in Tasks : Holding(t) => lock.owner = t /\ now < lock.until

(* What a task inside its section knows of the room and the announcements. *)
Knows(j) ==
  /\ j.pc \in {"arm", "save"} =>
       store # Null /\ j.room.game.events >= store.game.events
  /\ j.pc \in {"arm", "save", "unarm", "persist", "clear", "remove", "announce"} =>
       j.room.game.events >= sent
  /\ j.pc = "announce" =>
       store = Null \/ store.game.events = j.room.game.events

Known == \A t \in Tasks : Knows(job[t])

LInv == IInv /\ Held /\ Known /\ AnnouncedIsDurable

LEMMA HeldExcludes == ASSUME Held PROVE Exclusive
BY DEF Held, Exclusive

LEMMA OutcomeProgress ==
  ASSUME NEW g \in Game, NEW p, NEW intent,
         NEW n \in Transition(g, p, intent) \cup AIStep(g) \cup {Forfeit(g, p)}
  PROVE  n.events >= g.events
<1>1. \A w, reason : Over(g, w, reason).events >= g.events
  BY DEF Over, Game
<1>2. \A x \in Roll(g) : x.events >= g.events
  <2>1. [g EXCEPT !.phase = "AWAITING_MOVE", !.events = @ + 1].events >= g.events
    BY DEF Game
  <2>2. QED BY <2>1 DEF Roll
<1>3. \A x \in PlayTurn(g) : x.events >= g.events
  <2>1. [g EXCEPT !.phase = "AWAITING_ROLL", !.events = @ + 1,
                  !.active = Other(@)].events >= g.events
    BY DEF Game
  <2>2. QED BY <1>1, <2>1 DEF PlayTurn
<1>4. QED BY <1>1, <1>2, <1>3 DEF Transition, AIStep, Resign, Forfeit

(* A step of a task that stays on its side of the lock, and writes neither *)
(* the lock, nor the room, nor the announcements.                          *)
LEMMA SameSideStep ==
  ASSUME LInv, IInv', NEW t \in Tasks, OthersKeep(t),
         UNCHANGED <<now, lock, store, sent>>,
         job'[t].pc \in Section => Holding(t),
         Knows(job[t])'
  PROVE  LInv'
<1>1. Held'
  BY DEF LInv, Held, Holding, OthersKeep
<1>2. Known'
  BY DEF LInv, Known, Knows, OthersKeep
<1>3. AnnouncedIsDurable'
  BY DEF LInv, AnnouncedIsDurable
<1>4. QED BY <1>1, <1>2, <1>3 DEF LInv

(* A step by which a task leaves the section.                              *)
LEMMA LeavingStep ==
  ASSUME LInv, IInv', NEW t \in Tasks, OthersKeep(t),
         UNCHANGED <<now, store>>,
         job'[t].pc \in Outside,
         lock.owner # t => lock' = lock,
         AnnouncedIsDurable',
         sent' = sent \/ Holding(t)
  PROVE  LInv'
<1>1. job'[t].pc \notin Section
  BY DEF Outside, Section
<1>2. \A u \in Tasks : Holding(u)' => u # t /\ Holding(u) /\ lock.owner = u
  BY <1>1 DEF LInv, Held, Holding, OthersKeep
<1>3. Held'
  BY <1>2 DEF LInv, Held
<1>4. ASSUME NEW u \in Tasks PROVE Knows(job[u])'
  <2>1. CASE Holding(u)'
    <3>1. sent' = sent
      BY <1>2, <2>1 DEF LInv, Held
    <3>2. QED BY <1>2, <2>1, <3>1 DEF LInv, Known, Knows, OthersKeep
  <2>2. CASE ~Holding(u)'
    BY <2>2 DEF Holding, Knows, Section
  <2>3. QED BY <2>1, <2>2
<1>5. QED BY <1>3, <1>4 DEF LInv, Known

LEMMA OutsideActions ==
  ASSUME LInv, IInv', NEW t \in Tasks,
         \/ \E seat \in Seat : \E intent \in Intent : Submit(t, seat, intent)
         \/ \E seat \in Seat : Join(t, seat)
         \/ Watch(t) \/ SweepDue(t) \/ GiveUp(t)
         \/ MarkOnline(t) \/ Drive(t) \/ Resume(t)
  PROVE  LInv'
<1>1. JobsOK
  BY TypeFacts DEF LInv
<1>2. OthersKeep(t) /\ job'[t].pc \in Outside
  <2>1. CASE (\E seat \in Seat : \E intent \in Intent : Submit(t, seat, intent))
             \/ (\E seat \in Seat : Join(t, seat)) \/ SweepDue(t) \/ Resume(t)
    BY <1>1, <2>1, StartMoves DEF Submit, Join, SweepDue, Resume, Outside
  <2>2. CASE Watch(t) \/ MarkOnline(t)
    BY <1>1, <2>2, GotoMoves DEF Watch, MarkOnline, Outside, Label
  <2>3. CASE Drive(t) \/ GiveUp(t)
    BY <1>1, <2>3, StartMoves, IdleMoves DEF Drive, GiveUp, Outside
  <2>4. QED BY <2>1, <2>2, <2>3
<1>3. UNCHANGED <<now, lock, store, sent>>
  BY DEF Submit, Join, Watch, SweepDue, GiveUp, MarkOnline, Drive, Resume, history
<1>4. job'[t].pc \notin Section /\ Knows(job[t])'
  BY <1>2 DEF Outside, Section, Knows
<1>5. QED BY <1>2, <1>3, <1>4, SameSideStep

LEMMA AcquireStep ==
  ASSUME LInv, IInv', NEW t \in Tasks, Acquire(t)
  PROVE  LInv'
<1>1. OthersKeep(t) /\ job'[t].pc = "load"
  BY TypeFacts, GotoMoves DEF LInv, Acquire, Label, Section, Outside
<1>2. \A u \in Tasks : ~Holding(u)
  <2>1. Null \notin Tasks
    BY NullAssumption
  <2>2. now \in Nat /\ lock.until \in Nat
    BY TypeFacts DEF LInv
  <2>3. QED BY <2>1, <2>2 DEF Acquire, LockFree, LInv, Held
<1>3. now < now + LOCK_TTL
  BY TypeFacts, ConstantsAssumption DEF LInv
<1>4. Held'
  BY <1>1, <1>2, <1>3 DEF Acquire, Held, Holding, OthersKeep
<1>5. Known'
  BY <1>1 DEF Acquire, history, LInv, Known, Knows, OthersKeep
<1>6. AnnouncedIsDurable'
  BY DEF Acquire, history, LInv, AnnouncedIsDurable
<1>7. QED BY <1>4, <1>5, <1>6 DEF LInv

(* What commit() hands on is at least as new as the room it was read from. *)
LEMMA CommitKnows ==
  ASSUME LInv, NEW t \in Tasks, NEW g \in Game, NEW after \in Outside,
         after = "online" => job[t].kind = "join",
         store # Null, g.events >= store.game.events,
         IsOver(g) => g.result \in Result,
         Commit(t, store, g, after), UNCHANGED <<store, sent>>
  PROVE  Knows(job[t])'
<1>1. store \in Room /\ now \in Nat /\ JobsOK /\ sent \in Nat /\ store.game \in Game
  BY TypeFacts DEF LInv
<1>2. /\ job'[t].pc \in {"unarm", "arm"}
      /\ job'[t].room.game = g
  BY <1>1, CommitMoves
<1>3. g.events >= sent
  BY <1>1 DEF LInv, AnnouncedIsDurable, Game
<1>4. QED BY <1>2, <1>3 DEF Knows

LEMMA LoadActions ==
  ASSUME LInv, IInv', NEW t \in Tasks,
         LoadIntent(t) \/ LoadJoin(t) \/ LoadAI(t) \/ LoadSweep(t)
  PROVE  LInv'
<1> USE TypeFacts DEF LInv
<1>0. /\ {"load", "release", "drop", "rearm", "arm"} \subseteq Label \ {"online"}
      /\ Holding(t) /\ UNCHANGED <<now, lock, store, sent>>
  BY DEF Label, Section, Outside, LoadIntent, LoadJoin, LoadAI, LoadSweep, At,
         Holding, history
<1> SUFFICES OthersKeep(t) /\ Knows(job[t])'
  BY <1>0, SameSideStep
<1>1. CASE LoadIntent(t)
  <2>1. CASE Return(t, "idle")
    BY <1>0, <2>1, WorkMoves DEF Return, Outside, Knows
  <2>2. CASE store # Null /\ ~IsOver(store.game) /\
             \E g \in Transition(store.game, job[t].seat, job[t].intent) :
               Commit(t, store, g, IF IsOver(g) THEN "idle" ELSE "drive")
    <3>1. PICK g \in Transition(store.game, job[t].seat, job[t].intent) :
            Commit(t, store, g, IF IsOver(g) THEN "idle" ELSE "drive")
      BY <2>2
    <3>2. g \in Game /\ (IsOver(g) => g.result \in Result)
          /\ g.events >= store.game.events
      BY <2>2, TransitionType, OverHasResult, OutcomeProgress
    <3>3. (IF IsOver(g) THEN "idle" ELSE "drive") \in Outside \ {"online"}
      BY DEF Outside
    <3>4. QED BY <1>0, <2>2, <3>1, <3>2, <3>3, CommitMoves, CommitKnows
  <2>3. QED BY <1>1, <2>1, <2>2 DEF LoadIntent
<1>2. CASE LoadJoin(t)
  <2>0. job[t].kind = "join"
    BY <1>2 DEF LoadJoin
  <2>1. CASE Return(t, "online")
    BY <1>0, <2>0, <2>1, WorkMoves DEF Return, Outside, Knows
  <2>2. CASE store # Null /\ Work(t, "arm", SetDeadline(store), "online")
    <3>1. SetDeadline(store) \in Room /\ SetDeadline(store).game = store.game
      BY <2>2, SetDeadlineType
    <3>2. /\ OthersKeep(t) /\ job'[t].pc = "arm"
          /\ job'[t].room = SetDeadline(store)
      BY <1>0, <2>0, <2>2, <3>1, WorkMoves DEF Outside
    <3>3. store.game.events \in Nat /\ sent \in Nat
      BY <2>2 DEF Game
    <3>4. store.game.events >= sent
      BY <2>2, <3>3 DEF AnnouncedIsDurable
    <3>5. QED BY <1>0, <2>2, <3>1, <3>2, <3>3, <3>4 DEF Knows
  <2>3. QED BY <1>2, <2>1, <2>2 DEF LoadJoin
<1>3. CASE LoadAI(t)
  <2>1. CASE Return(t, "idle")
    BY <1>0, <2>1, WorkMoves DEF Return, Outside, Knows
  <2>2. CASE /\ store # Null /\ ~IsOver(store.game)
             /\ \E g \in AIStep(store.game) : Commit(t, store, g, "pause")
    <3>1. PICK g \in AIStep(store.game) : Commit(t, store, g, "pause")
      BY <2>2
    <3>2. g \in Game /\ (IsOver(g) => g.result \in Result)
          /\ g.events >= store.game.events
      BY <2>2, AIStepType, OverHasResult, OutcomeProgress
    <3>3. QED BY <1>0, <2>2, <3>1, <3>2, CommitMoves, CommitKnows DEF Outside
  <2>3. QED BY <1>3, <2>1, <2>2 DEF LoadAI
<1>4. CASE LoadSweep(t)
  <2>1. CASE Work(t, "drop", Null, "idle")
    BY <1>0, <2>1, WorkMoves DEF Outside, Knows
  <2>2. CASE store # Null /\ Work(t, "rearm", store, "idle")
    BY <1>0, <2>2, WorkMoves DEF Outside, Knows
  <2>3. CASE /\ store # Null /\ ~IsOver(store.game)
             /\ Commit(t, store, Forfeit(store.game, store.deadline.player), "idle")
    <3>1. Forfeit(store.game, store.deadline.player) \in Game
      BY <2>3, ForfeitType
    <3>2. Forfeit(store.game, store.deadline.player).events >= store.game.events
      BY <2>3, OutcomeProgress
    <3>3. QED BY <1>0, <2>3, <3>1, <3>2, OverHasResult, CommitMoves, CommitKnows
              DEF Outside
  <2>4. QED BY <1>4, <2>1, <2>2, <2>3 DEF LoadSweep
<1>5. QED BY <1>1, <1>2, <1>3, <1>4

LEMMA SectionActions ==
  ASSUME LInv, IInv', NEW t \in Tasks,
         \/ Drop(t) \/ Rearm(t) \/ Arm(t) \/ Unarm(t)
         \/ Persist(t) \/ Clear(t) \/ CallFails(t)
  PROVE  LInv'
<1> USE TypeFacts DEF LInv
<1>0. /\ {"release", "save", "persist", "clear", "remove"} \subseteq Label \ {"online"}
      /\ Holding(t) /\ UNCHANGED <<now, lock, store, sent>> /\ Knows(job[t])
  BY DEF Label, Section, Outside, Drop, Rearm, Arm, Unarm, Persist, Clear,
         CallFails, At, Holding, history, Known
<1> SUFFICES OthersKeep(t) /\ Knows(job[t])'
  BY <1>0, SameSideStep
<1>1. CASE Drop(t) \/ Rearm(t)
  BY <1>0, <1>1, GotoMoves DEF Drop, Rearm, Knows
<1>2. CASE Arm(t)
  BY <1>0, <1>2, GotoMoves DEF Arm, At, Knows
<1>3. CASE Unarm(t) \/ Clear(t)
  BY <1>0, <1>3, GotoMoves DEF Unarm, Clear, At, Knows
<1>4. CASE Persist(t)
  <2>1. CASE Goto(t, "clear")
    BY <1>0, <1>4, <2>1, GotoMoves DEF Persist, At, Knows
  <2>2. CASE Return(t, "idle")
    BY <1>0, <2>2, WorkMoves DEF Return, Outside, Knows
  <2>3. QED BY <1>4, <2>1, <2>2 DEF Persist
<1>5. CASE CallFails(t)
  BY <1>0, <1>5, WorkMoves DEF CallFails, Return, Outside, Knows
<1>6. QED BY <1>1, <1>2, <1>3, <1>4, <1>5

LEMMA LeavingActions ==
  ASSUME LInv, IInv', NEW t \in Tasks, Announce(t) \/ Release(t) \/ Crash(t)
  PROVE  LInv'
<1> USE TypeFacts DEF LInv
<1>1. OthersKeep(t) /\ job'[t].pc \in Outside
  BY UnlockMoves, IdleMoves DEF Announce, Release, Crash, Outside
<1>2. lock.owner # t => lock' = lock
  BY DEF Announce, Release, Crash, Unlock
<1>3. UNCHANGED <<now, store>> /\ (sent' = sent \/ Holding(t))
  BY DEF Announce, Release, Crash, history, At, Holding, Section
<1>4. AnnouncedIsDurable'
  <2>1. CASE Announce(t)
    <3>1. store = Null \/ store.game.events = job[t].room.game.events
      BY <2>1 DEF Announce, At, Known, Knows
    <3>2. store # Null => store.game.events \in Nat
      BY DEF Game
    <3>3. QED BY <2>1, <3>1, <3>2 DEF Announce, AnnouncedIsDurable
  <2>2. CASE Release(t) \/ Crash(t)
    BY <2>2 DEF Release, Crash, history, AnnouncedIsDurable
  <2>3. QED BY <2>1, <2>2
<1>5. QED BY <1>1, <1>2, <1>3, <1>4, LeavingStep

LEMMA StoreActions ==
  ASSUME LInv, IInv', NEW t \in Tasks, Save(t) \/ Remove(t)
  PROVE  LInv'
<1> USE TypeFacts DEF LInv
<1>0. /\ "announce" \in Label \ {"online"}
      /\ Holding(t) /\ UNCHANGED <<now, lock, sent>> /\ Knows(job[t])
  BY DEF Label, Section, Outside, Save, Remove, At, Holding, history, Known
<1>1. OthersKeep(t) /\ job'[t].pc = "announce" /\ job'[t].room = job[t].room
  BY <1>0, GotoMoves DEF Save, Remove
<1>2. Held'
  BY <1>0, <1>1 DEF Held, Holding, OthersKeep
<1>3. \A u \in Tasks : u # t => ~Holding(u)
  BY <1>0 DEF Held
<1>4. Knows(job[t])' /\ AnnouncedIsDurable'
  <2>1. CASE Save(t)
    <3>1. store' = job[t].room /\ job[t].room.game.events >= sent
      BY <1>0, <2>1 DEF Save, At, Knows
    <3>2. job[t].room.game.events \in Nat
      BY <2>1 DEF Save, At, JobsOK, Job, JobFields, Room, Game, IInv, Carried, Carries
    <3>3. QED BY <1>0, <1>1, <3>1, <3>2 DEF Knows, AnnouncedIsDurable
  <2>2. CASE Remove(t)
    BY <1>0, <1>1, <2>2 DEF Remove, At, Knows, AnnouncedIsDurable
  <2>3. QED BY <2>1, <2>2
<1>5. Known'
  BY <1>1, <1>3, <1>4 DEF Known, Knows, OthersKeep, Holding, Section
<1>6. QED BY <1>2, <1>4, <1>5
LEMMA OutsideWorld ==
  ASSUME NoExpiry, LInv, IInv',
         (\E seat \in Seat : Leave(seat)) \/ RoomExpires \/ Tick \/ UNCHANGED vars
  PROVE  LInv'
<1>1. CASE (\E seat \in Seat : Leave(seat)) \/ UNCHANGED vars
  BY <1>1 DEF Leave, history, vars, LInv, Held, Holding, Known, Knows, AnnouncedIsDurable
<1>2. CASE RoomExpires
  <2>1. \A u \in Tasks : job[u].pc = "idle"
    BY <1>2 DEF RoomExpires, At
  <2>2. Held' /\ Known'
    BY <1>2, <2>1 DEF RoomExpires, Held, Holding, Known, Knows, Section
  <2>3. AnnouncedIsDurable'
    BY <1>2 DEF RoomExpires, AnnouncedIsDurable
  <2>4. QED BY <2>2, <2>3 DEF LInv
<1>3. CASE Tick
  <2>1. UNCHANGED <<lock, store, job, sent>> /\ now' = now + 1
        /\ (lock.owner \notin Tasks \/ now + 1 < lock.until)
    BY <1>3 DEF Tick, NoExpiry
  <2>2. Held'
    BY <2>1 DEF LInv, Held, Holding
  <2>3. Known' /\ AnnouncedIsDurable'
    BY <2>1 DEF LInv, Known, Knows, AnnouncedIsDurable
  <2>4. QED BY <2>2, <2>3 DEF LInv
<1>4. QED BY <1>1, <1>2, <1>3

LEMMA InitLInv == Init => LInv
<1> SUFFICES ASSUME Init PROVE LInv
  OBVIOUS
<1>1. \A t \in Tasks : job[t].pc = "idle"
  BY DEF Init, Idle
<1>2. Held /\ Known
  BY <1>1 DEF Held, Holding, Known, Knows, Section
<1>3. AnnouncedIsDurable
  BY DEF Init, AnnouncedIsDurable
<1>4. QED BY <1>2, <1>3, InitInv DEF LInv

LEMMA NextLInv == ASSUME NoExpiry, LInv, [Next]_vars PROVE LInv'
<1>0. IInv'
  BY NextInv DEF LInv
<1>1. CASE \E t \in Requests : Client(t)
  BY <1>0, <1>1, OutsideActions DEF Client, Tasks
<1>2. CASE \E t \in Sweeps : SweepDue(t)
  BY <1>0, <1>2, OutsideActions DEF Tasks
<1>3. CASE \E t \in Tasks : Advance(t) \/ GiveUp(t) \/ CallFails(t) \/ Crash(t)
  BY <1>0, <1>3, OutsideActions, AcquireStep, LoadActions, SectionActions,
     LeavingActions, StoreActions DEF Advance, Locked
<1>4. CASE (\E seat \in Seat : Leave(seat)) \/ RoomExpires \/ Tick \/ UNCHANGED vars
  BY <1>0, <1>4, OutsideWorld
<1>5. QED BY <1>1, <1>2, <1>3, <1>4 DEF Next

LEMMA LockInvHolds == ASSUME NoExpiry PROVE Spec => []LInv
<1>1. LInv /\ [Next]_vars => LInv'
  BY NextLInv
<1>2. QED BY <1>1, InitLInv, PTL DEF Spec

(* While no section outlives its lock key, no two tasks are ever inside    *)
(* the section of a match, whatever else fails: aborted calls, instances   *)
(* that die holding the lock, lost retries (RedisLockService.withLock).    *)
THEOREM LockExcludes == ASSUME NoExpiry PROVE Spec => []Exclusive
<1>1. LInv => Exclusive
  BY HeldExcludes DEF LInv
<1>2. QED BY <1>1, LockInvHolds, PTL

(* Under the same condition a state that was announced is never lost: the  *)
(* saved room, as long as there is one, holds it (commit saves first).     *)
THEOREM NothingAnnouncedIsLost == ASSUME NoExpiry PROVE Spec => []AnnouncedIsDurable
<1>1. LInv => AnnouncedIsDurable
  BY DEF LInv
<1>2. QED BY <1>1, LockInvHolds, PTL

(* And no write to the room discards a step that was already saved, however *)
(* many requests, sweeps and AI loops interleave (withLock, commit).        *)
THEOREM NothingSavedIsLost == ASSUME NoExpiry PROVE Spec => NoLostUpdate
<1> DEFINE Keeps == store # Null /\ store' # Null => store'.game.events >= store.game.events
<1>1. LInv /\ [Next]_vars => [Keeps]_vars
  <2> SUFFICES ASSUME LInv, [Next]_vars PROVE Keeps
    OBVIOUS
  <2>1. CASE \E t \in Tasks : Save(t)
    <3>1. PICK t \in Tasks : Save(t)
      BY <2>1
    <3>2. Knows(job[t]) /\ store' = job[t].room /\ job[t].pc = "save"
      BY <3>1 DEF LInv, Known, Save, At
    <3>3. QED BY <3>2 DEF Knows
  <2>2. CASE ~ \E t \in Tasks : Save(t)
    <3>1. CASE store' = store
      BY <3>1, TypeFacts DEF LInv, Game
    <3>2. CASE store' = Null
      BY <3>2
    <3>3. store' = store \/ store' = Null
      BY <2>2 DEF Next, Client, Advance, Locked, Tasks, vars, history,
         Submit, Join, Watch, Leave, SweepDue, Acquire, GiveUp, LoadIntent, LoadJoin,
         LoadAI, LoadSweep, Drop, Rearm, Arm, Unarm, Persist, Clear, Remove,
         Announce, Release, MarkOnline, Drive, Resume, CallFails, Crash, RoomExpires, Tick
    <3>4. QED BY <3>1, <3>2, <3>3
  <2>3. QED BY <2>1, <2>2
<1>2. QED BY <1>1, LockInvHolds, PTL DEF Spec, NoLostUpdate
(* And the views of a match are announced in the order of the game         *)
(* (commit announces before the lock is released).                         *)
THEOREM ViewsInOrder == ASSUME NoExpiry PROVE Spec => AnnouncedInOrder
<1>1. LInv /\ [Next]_vars => [sent' >= sent]_vars
  <2> SUFFICES ASSUME LInv, [Next]_vars PROVE sent' >= sent
    OBVIOUS
  <2>1. CASE \E t \in Tasks : Announce(t)
    <3>1. PICK t \in Tasks : Announce(t)
      BY <2>1
    <3>2. Knows(job[t]) /\ sent' = job[t].room.game.events /\ job[t].pc = "announce"
      BY <3>1 DEF LInv, Known, Announce, At
    <3>3. QED BY <3>2 DEF Knows
  <2>2. CASE ~ \E t \in Tasks : Announce(t)
    <3>1. sent' = sent
      BY <2>2 DEF Next, Client, Advance, Locked, Tasks, vars, history,
         Submit, Join, Watch, Leave, SweepDue, Acquire, GiveUp, LoadIntent, LoadJoin,
         LoadAI, LoadSweep, Drop, Rearm, Arm, Save, Unarm, Persist, Clear, Remove,
         Release, MarkOnline, Drive, Resume, CallFails, Crash, RoomExpires, Tick
    <3>2. QED BY <3>1, TypeFacts DEF LInv
  <2>3. QED BY <2>1, <2>2
<1>2. QED BY <1>1, LockInvHolds, PTL DEF Spec, AnnouncedInOrder

-----------------------------------------------------------------------------
(* The room while the commit that ends the game does not fail: what a      *)
(* section is about to do to the room, to the deadlines and to the record. *)

NoFinal == "final" \notin Faults
Steady == NoFinal \/ faults = 0

RoomOK ==
  store # Null => ~IsOver(store.game) /\ (store.deadline = Null => store.game.events = 1)

(* A room about to be saved is the present one or one step further.        *)
Follows(j) ==
  j.pc \in {"arm", "save"} =>
    /\ store # Null /\ ~IsOver(j.room.game)
    /\ j.room.game = store.game \/ j.room.game.events = store.game.events + 1

(* The results a game may come to in one step.                             *)
Ends(g, r) ==
  \/ r = [winner |-> g.active, reason |-> "SINGLE"]
  \/ r.reason = "RESIGNATION"
  \/ r = [winner |-> Other(g.active), reason |-> "FORFEIT"]

Settles(j) ==
  /\ j.pc \in {"arm", "save"} => db.result = Null
  /\ j.pc = "save" => zset # Null
  /\ j.pc \in {"unarm", "persist"} =>
       store # Null /\ db.result = Null /\ Ends(store.game, j.room.game.result)
  /\ j.pc \in {"clear", "remove"} => db.result # Null
  /\ j.pc = "drop" => store = Null \/ store.deadline = Null

(* A recorded match whose room is still there is about to lose it; a clock *)
(* that nothing watches is the clock of a game that is being ended.        *)
Closing(t) == job[t].pc \in {"clear", "remove"}
Recorded == db.result # Null /\ store # Null => \E t \in Tasks : Closing(t)
Watching ==
  store # Null /\ store.deadline # Null =>
    zset # Null \/ \E t \in Tasks : Closing(t) \/ At(t, "persist")

SInv ==
  /\ RoomOK /\ \A t \in Tasks : Follows(job[t])
  /\ Steady => Recorded /\ Watching /\ \A t \in Tasks : Settles(job[t])

LEMMA OutcomeEnds ==
  ASSUME NEW g \in Game, NEW p, NEW intent,
         NEW n \in Transition(g, p, intent) \cup AIStep(g) \cup {Forfeit(g, g.active)}
  PROVE  /\ ~IsOver(n) => n.events = g.events + 1
         /\ IsOver(n) => Ends(g, n.result)
<1>1. \A w, reason : /\ IsOver(Over(g, w, reason))
                     /\ Over(g, w, reason).result = [winner |-> w, reason |-> reason]
  BY DEF Over, IsOver, Game
<1>2. \A x \in Roll(g) : ~IsOver(x) /\ x.events = g.events + 1
  <2>1. [g EXCEPT !.phase = "AWAITING_MOVE", !.events = @ + 1].events = g.events + 1
    BY DEF Game
  <2>2. [g EXCEPT !.phase = "AWAITING_MOVE", !.events = @ + 1].phase = "AWAITING_MOVE"
    BY DEF Game
  <2>3. QED BY <2>1, <2>2 DEF Roll, IsOver
<1>3. \A x \in PlayTurn(g) :
        x = Over(g, g.active, "SINGLE") \/ (~IsOver(x) /\ x.events = g.events + 1)
  <2> DEFINE n1 == [g EXCEPT !.phase = "AWAITING_ROLL", !.events = @ + 1, !.active = Other(@)]
  <2>1. n1.events = g.events + 1 /\ n1.phase = "AWAITING_ROLL"
    BY DEF Game
  <2>2. QED BY <2>1 DEF PlayTurn, IsOver
<1>4. ASSUME NEW w, NEW reason PROVE Over(g, w, reason).result.reason = reason
  <2>1. Over(g, w, reason).result = [winner |-> w, reason |-> reason]
    BY <1>1
  <2>2. QED BY <2>1
<1>5. CASE n = Forfeit(g, g.active)
  BY <1>1, <1>5 DEF Forfeit, Ends
<1>6. CASE n \in Resign(g, p)
  BY <1>1, <1>4, <1>6 DEF Resign, Ends
<1>7. CASE n \in Roll(g) \cup PlayTurn(g)
  BY <1>1, <1>2, <1>3, <1>7 DEF Ends
<1>8. QED BY <1>5, <1>6, <1>7 DEF Transition, AIStep

(* A step that leaves the room, the deadlines and the record alone.        *)
LEMMA SteadyStep ==
  ASSUME LInv, SInv, NEW t \in Tasks, OthersKeep(t), UNCHANGED <<store, zset, db>>,
         faults' \in {faults, faults + 1},
         Steady' => ~Closing(t) /\ ~At(t, "persist") /\ Settles(job[t])',
         Follows(job[t])'
  PROVE  SInv'
<1>1. Steady' => Steady
  BY TypeFacts DEF LInv, Steady
<1>2. RoomOK' /\ \A u \in Tasks : Follows(job[u])'
  BY DEF SInv, RoomOK, Follows, OthersKeep
<1>3. Steady' => \A u \in Tasks : Settles(job[u])'
  BY <1>1 DEF SInv, Settles, OthersKeep
<1>4. Steady' => Recorded' /\ Watching'
  BY <1>1 DEF SInv, Recorded, Watching, Closing, At, OthersKeep
<1>5. QED BY <1>2, <1>3, <1>4 DEF SInv

(* A step of the task inside the section that writes one of them.          *)
LEMMA SteadyWrite ==
  ASSUME LInv, SInv, NEW t \in Tasks, OthersKeep(t), Holding(t), UNCHANGED faults,
         RoomOK', Follows(job[t])', Steady => Recorded' /\ Watching' /\ Settles(job[t])'
  PROVE  SInv'
<1>1. \A u \in Tasks : u # t => job'[u] = job[u] /\ job[u].pc \notin Section
  BY HeldExcludes DEF LInv, Exclusive, Holding, OthersKeep
<1>2. \A u \in Tasks : u # t => Follows(job[u])' /\ Settles(job[u])'
  BY <1>1 DEF Follows, Settles, Section
<1>3. QED BY <1>2 DEF SInv, Steady

LEMMA SteadyOutside ==
  ASSUME LInv, SInv, NEW t \in Tasks,
         \/ \E seat \in Seat : \E intent \in Intent : Submit(t, seat, intent)
         \/ \E seat \in Seat : Join(t, seat)
         \/ Watch(t) \/ SweepDue(t) \/ GiveUp(t) \/ Acquire(t)
         \/ MarkOnline(t) \/ Drive(t) \/ Resume(t)
         \/ Announce(t) \/ Release(t)
  PROVE  SInv'
<1>1. JobsOK
  BY TypeFacts DEF LInv
<1>2. OthersKeep(t) /\ job'[t].pc \in Outside \cup {"load"}
  <2>1. CASE (\E seat \in Seat : \E intent \in Intent : Submit(t, seat, intent))
             \/ (\E seat \in Seat : Join(t, seat)) \/ SweepDue(t) \/ Resume(t)
    BY <1>1, <2>1, StartMoves DEF Submit, Join, SweepDue, Resume, Outside
  <2>2. CASE Watch(t) \/ MarkOnline(t) \/ Acquire(t)
    BY <1>1, <2>2, GotoMoves DEF Watch, MarkOnline, Acquire, Outside, Label, Section
  <2>3. CASE Drive(t) \/ GiveUp(t)
    BY <1>1, <2>3, StartMoves, IdleMoves DEF Drive, GiveUp, Outside
  <2>4. CASE Announce(t) \/ Release(t)
    BY <1>1, <2>4, UnlockMoves DEF Announce, Release
  <2>5. QED BY <2>1, <2>2, <2>3, <2>4
<1>3. UNCHANGED <<store, zset, db>> /\ faults' \in {faults, faults + 1}
  BY DEF Submit, Join, Watch, SweepDue, GiveUp, Acquire, MarkOnline, Drive, Resume,
         Announce, Release, history
<1>4. ~Closing(t) /\ ~At(t, "persist")
  BY DEF Submit, Join, Watch, SweepDue, GiveUp, Acquire, MarkOnline, Drive, Resume,
         Announce, Release, Closing, At
<1>5. Follows(job[t])' /\ Settles(job[t])'
  BY <1>2 DEF Outside, Follows, Settles
<1>6. QED BY <1>2, <1>3, <1>4, <1>5, SteadyStep

LEMMA SteadyFault ==
  ASSUME LInv, SInv, NEW t \in Tasks, CallFails(t) \/ Crash(t)
  PROVE  SInv'
<1>1. JobsOK /\ faults \in Nat
  BY TypeFacts DEF LInv
<1>2. OthersKeep(t) /\ job'[t].pc \in {"release", "idle"}
  <2>1. CASE CallFails(t)
    BY <1>1, <2>1, WorkMoves DEF CallFails, Return, Label, Section, Outside
  <2>2. CASE Crash(t)
    BY <1>1, <2>2, IdleMoves DEF Crash
  <2>3. QED BY <2>1, <2>2
<1>3. UNCHANGED <<store, zset, db>> /\ faults' = faults + 1 /\ FaultAt(t) \in Faults
  BY DEF CallFails, Crash, history
<1>4. Steady' => ~Closing(t) /\ ~At(t, "persist")
  BY <1>1, <1>3 DEF Steady, NoFinal, FaultAt, Closing, At
<1>5. Follows(job[t])' /\ Settles(job[t])'
  BY <1>2 DEF Follows, Settles
<1>6. QED BY <1>2, <1>3, <1>4, <1>5, SteadyStep

(* What commit() hands on is a step of the room it was read from.          *)
LEMMA CommitSettles ==
  ASSUME LInv, SInv, NEW t \in Tasks, NEW g \in Game, NEW after \in Outside,
         after = "online" => job[t].kind = "join",
         store # Null, Steady => db.result = Null,
         IsOver(g) => g.result \in Result /\ Ends(store.game, g.result),
         ~IsOver(g) => g.events = store.game.events + 1,
         Commit(t, store, g, after), UNCHANGED <<store, db, faults>>
  PROVE  OthersKeep(t) /\ Follows(job[t])' /\ (Steady' => Settles(job[t])')
<1>1. store \in Room /\ now \in Nat /\ JobsOK
  BY TypeFacts DEF LInv
<1>2. /\ OthersKeep(t)
      /\ job'[t].pc = IF IsOver(g) THEN "unarm" ELSE "arm"
      /\ job'[t].room.game = g
  BY <1>1, CommitMoves
<1>3. QED BY <1>2 DEF Follows, Settles, Steady

LEMMA SteadyLoads ==
  ASSUME LInv, SInv, NEW t \in Tasks,
         LoadIntent(t) \/ LoadJoin(t) \/ LoadAI(t) \/ LoadSweep(t)
  PROVE  SInv'
<1> USE TypeFacts DEF LInv
<1>0. /\ {"load", "release", "drop", "rearm", "arm"} \subseteq Label \ {"online"}
      /\ Holding(t) /\ UNCHANGED <<store, zset, db, faults>> /\ At(t, "load")
  BY DEF Label, Section, Outside, LoadIntent, LoadJoin, LoadAI, LoadSweep, At,
         Holding, history
<1>1. Steady /\ store # Null => db.result = Null
  <2>1. \A u \in Tasks : ~Closing(u)
    BY <1>0, HeldExcludes DEF Exclusive, Holding, At, Closing, Section
  <2>2. QED BY <2>1 DEF SInv, Recorded
<1>2. store # Null => ~IsOver(store.game)
  BY DEF SInv, RoomOK
<1> SUFFICES OthersKeep(t) /\ Follows(job[t])' /\ (Steady' => Settles(job[t])')
  BY <1>0, SteadyStep DEF At, Closing
<1>3. CASE LoadIntent(t)
  <2>1. CASE Return(t, "idle")
    BY <1>0, <2>1, WorkMoves DEF Return, Outside, Follows, Settles
  <2>2. CASE store # Null /\ ~IsOver(store.game) /\
             \E g \in Transition(store.game, job[t].seat, job[t].intent) :
               Commit(t, store, g, IF IsOver(g) THEN "idle" ELSE "drive")
    <3>1. PICK g \in Transition(store.game, job[t].seat, job[t].intent) :
            Commit(t, store, g, IF IsOver(g) THEN "idle" ELSE "drive")
      BY <2>2
    <3>2. g \in Game /\ (IsOver(g) => g.result \in Result)
      BY <2>2, TransitionType, OverHasResult
    <3>3. /\ ~IsOver(g) => g.events = store.game.events + 1
          /\ IsOver(g) => Ends(store.game, g.result)
      BY <2>2, OutcomeEnds
    <3>4. (IF IsOver(g) THEN "idle" ELSE "drive") \in Outside \ {"online"}
      BY DEF Outside
    <3>5. QED BY <1>0, <1>1, <2>2, <3>1, <3>2, <3>3, <3>4, CommitSettles
  <2>3. QED BY <1>3, <2>1, <2>2 DEF LoadIntent
<1>4. CASE LoadJoin(t)
  <2>0. job[t].kind = "join"
    BY <1>4 DEF LoadJoin
  <2>1. CASE Return(t, "online")
    BY <1>0, <2>0, <2>1, WorkMoves DEF Return, Outside, Follows, Settles
  <2>2. CASE store # Null /\ Work(t, "arm", SetDeadline(store), "online")
    <3>1. SetDeadline(store) \in Room /\ SetDeadline(store).game = store.game
      BY <2>2, SetDeadlineType
    <3>2. /\ OthersKeep(t) /\ job'[t].pc = "arm"
          /\ job'[t].room = SetDeadline(store)
      BY <1>0, <2>0, <2>2, <3>1, WorkMoves DEF Outside
    <3>3. QED BY <1>0, <1>1, <1>2, <2>2, <3>1, <3>2 DEF Follows, Settles, Steady
  <2>3. QED BY <1>4, <2>1, <2>2 DEF LoadJoin
<1>5. CASE LoadAI(t)
  <2>1. CASE Return(t, "idle")
    BY <1>0, <2>1, WorkMoves DEF Return, Outside, Follows, Settles
  <2>2. CASE /\ store # Null /\ ~IsOver(store.game)
             /\ \E g \in AIStep(store.game) : Commit(t, store, g, "pause")
    <3>1. PICK g \in AIStep(store.game) : Commit(t, store, g, "pause")
      BY <2>2
    <3>2. g \in Game /\ (IsOver(g) => g.result \in Result)
      BY <2>2, AIStepType, OverHasResult
    <3>3. /\ ~IsOver(g) => g.events = store.game.events + 1
          /\ IsOver(g) => Ends(store.game, g.result)
      BY <2>2, OutcomeEnds
    <3>4. QED BY <1>0, <1>1, <2>2, <3>1, <3>2, <3>3, CommitSettles DEF Outside
  <2>3. QED BY <1>5, <2>1, <2>2 DEF LoadAI
<1>6. CASE LoadSweep(t)
  <2>1. CASE Work(t, "drop", Null, "idle") /\ (store = Null \/ store.deadline = Null)
    BY <1>0, <2>1, WorkMoves DEF Outside, Follows, Settles
  <2>2. CASE store # Null /\ Work(t, "rearm", store, "idle")
    BY <1>0, <2>2, WorkMoves DEF Outside, Follows, Settles
  <2>3. CASE /\ store # Null /\ store.deadline # Null
             /\ Commit(t, store, Forfeit(store.game, store.deadline.player), "idle")
    <3>1. store.deadline.player = store.game.active
      BY <2>3 DEF IInv, ClockOnActor
    <3> DEFINE g == Forfeit(store.game, store.game.active)
    <3>2. g \in Game /\ Commit(t, store, g, "idle")
      BY <2>3, <3>1, ForfeitType
    <3>3. IsOver(g) => g.result \in Result
      BY <1>2, <2>3, <3>2, OverHasResult
    <3>4. /\ ~IsOver(g) => g.events = store.game.events + 1
          /\ IsOver(g) => Ends(store.game, g.result)
      BY <2>3, OutcomeEnds
    <3> HIDE DEF g
    <3>5. QED BY <1>0, <1>1, <2>3, <3>2, <3>3, <3>4, CommitSettles DEF Outside
  <2>4. QED BY <1>2, <1>6, <2>1, <2>2, <2>3 DEF LoadSweep
<1>7. QED BY <1>3, <1>4, <1>5, <1>6

LEMMA SteadyWrites ==
  ASSUME LInv, SInv, NEW t \in Tasks,
         \/ Drop(t) \/ Rearm(t) \/ Arm(t) \/ Save(t)
         \/ Unarm(t) \/ Persist(t) \/ Clear(t) \/ Remove(t)
  PROVE  SInv'
<1> USE TypeFacts DEF LInv
<1>0. /\ {"release", "save", "announce", "persist", "clear", "remove"} \subseteq Label \ {"online"}
      /\ Holding(t) /\ UNCHANGED faults /\ Carries(job[t]) /\ Follows(job[t])
      /\ job[t].room # Null => job[t].room \in Room
  BY DEF Label, Section, Outside, Drop, Rearm, Arm, Save, Unarm, Persist, Clear, Remove, At,
         Holding, IInv, Carried, SInv, JobsOK, Job, JobFields
<1>1. Steady => Recorded /\ Watching /\ Settles(job[t])
  BY DEF SInv
<1>2. \A u \in Tasks : u # t => job[u].pc \notin Section
  BY <1>0, HeldExcludes DEF Exclusive, Holding
<1> SUFFICES OthersKeep(t) /\ RoomOK' /\ Follows(job[t])'
             /\ (Steady => Recorded' /\ Watching' /\ Settles(job[t])')
  BY <1>0, SteadyWrite
<1>3. CASE Drop(t)
  <2>1. OthersKeep(t) /\ job'[t].pc = "release"
    BY <1>0, <1>3, GotoMoves DEF Drop
  <2>2. UNCHANGED <<store, db>> /\ At(t, "drop")
    BY <1>3 DEF Drop
  <2>3. Steady => Recorded' /\ Watching'
    BY <1>1, <1>2, <2>2 DEF At, Settles, Recorded, Watching, Closing, Section
  <2>4. QED BY <2>1, <2>2, <2>3 DEF SInv, RoomOK, Follows, Settles
<1>4. CASE Rearm(t) \/ Arm(t)
  <2>1. OthersKeep(t) /\ job'[t].pc \in {"release", "save"} /\ job'[t].room = job[t].room
        /\ (job'[t].pc = "save" => At(t, "arm"))
    BY <1>0, <1>4, GotoMoves DEF Rearm, Arm
  <2>2. UNCHANGED <<store, db>> /\ zset' = job[t].room.deadline.at
        /\ (At(t, "rearm") \/ At(t, "arm"))
    BY <1>4 DEF Rearm, Arm
  <2>3. zset' \in Nat
    BY <1>0, <2>2 DEF At, Carries, ClockRuns, Room, Deadline
  <2>4. zset' # Null
    BY <2>3, NullAssumption
  <2>5. Steady => Recorded' /\ Watching'
    BY <1>1, <1>2, <2>2, <2>4 DEF At, Recorded, Watching, Closing, Section
  <2>6. QED BY <1>0, <1>1, <2>1, <2>2, <2>4, <2>5 DEF SInv, RoomOK, Follows, Settles, At
<1>5. CASE Save(t)
  <2>1. OthersKeep(t) /\ job'[t].pc = "announce"
    BY <1>0, <1>5, GotoMoves DEF Save
  <2>2. UNCHANGED <<zset, db>> /\ store' = job[t].room /\ At(t, "save")
    BY <1>5 DEF Save
  <2>3. RoomOK'
    BY <1>0, <2>2 DEF At, Carries, ClockRuns, Follows, RoomOK
  <2>4. Steady => Recorded' /\ Watching'
    BY <1>1, <2>2 DEF At, Settles, Recorded, Watching
  <2>5. QED BY <2>1, <2>3, <2>4 DEF Follows, Settles
<1>6. CASE Unarm(t)
  <2>1. OthersKeep(t) /\ job'[t].pc = "persist" /\ job'[t].room = job[t].room
    BY <1>0, <1>6, GotoMoves DEF Unarm
  <2>2. UNCHANGED <<store, db>> /\ At(t, "unarm")
    BY <1>6 DEF Unarm
  <2>3. Steady => Recorded' /\ Watching' /\ Settles(job[t])'
    BY <1>1, <2>1, <2>2 DEF At, Settles, Recorded, Watching
  <2>4. QED BY <2>1, <2>2, <2>3 DEF SInv, RoomOK, Follows
<1>7. CASE Persist(t)
  <2>0. UNCHANGED <<store, zset>> /\ At(t, "persist")
    BY <1>7 DEF Persist
  <2>1. CASE db.result = Null
    <3>1. OthersKeep(t) /\ job'[t].pc = "clear"
      BY <1>0, <1>7, <2>1, GotoMoves DEF Persist
    <3>2. db'.result = job[t].room.game.result
      BY <1>7, <2>1 DEF Persist
    <3>3. db'.result # Null
      BY <1>0, <2>0, <3>2, NullAssumption DEF At, Carries
    <3>4. Closing(t)'
      BY <3>1 DEF Closing
    <3>5. Recorded' /\ Watching'
      BY <3>4 DEF Recorded, Watching
    <3>6. QED BY <2>0, <3>1, <3>3, <3>5 DEF SInv, RoomOK, Follows, Settles
  <2>2. CASE db.result # Null
    <3>1. OthersKeep(t) /\ job'[t].pc = "release"
      BY <1>0, <1>7, <2>2, WorkMoves DEF Persist, Return, Outside
    <3>2. ~Steady
      BY <1>1, <2>0, <2>2 DEF At, Settles
    <3>3. QED BY <2>0, <3>1, <3>2 DEF SInv, RoomOK, Follows
  <2>3. QED BY <2>1, <2>2
<1>8. CASE Clear(t)
  <2>1. OthersKeep(t) /\ job'[t].pc = "remove"
    BY <1>0, <1>8, GotoMoves DEF Clear
  <2>2. UNCHANGED <<store, zset, db>> /\ At(t, "clear")
    BY <1>8 DEF Clear
  <2>3. Closing(t)'
    BY <2>1 DEF Closing
  <2>4. Recorded' /\ Watching'
    BY <2>3 DEF Recorded, Watching
  <2>5. QED BY <1>1, <2>1, <2>2, <2>4 DEF At, SInv, RoomOK, Follows, Settles
<1>9. CASE Remove(t)
  <2>1. OthersKeep(t) /\ job'[t].pc = "announce"
    BY <1>0, <1>9, GotoMoves DEF Remove
  <2>2. store' = Null
    BY <1>9 DEF Remove
  <2>3. QED BY <2>1, <2>2 DEF RoomOK, Follows, Settles, Recorded, Watching
<1>10. QED BY <1>3, <1>4, <1>5, <1>6, <1>7, <1>8, <1>9

LEMMA SteadyWorld ==
  ASSUME LInv, SInv,
         (\E seat \in Seat : Leave(seat)) \/ RoomExpires \/ Tick \/ UNCHANGED vars
  PROVE  SInv'
<1>1. CASE (\E seat \in Seat : Leave(seat)) \/ Tick \/ UNCHANGED vars
  <2>1. UNCHANGED <<store, zset, db, job, faults>>
    BY <1>1 DEF Leave, Tick, vars, history
  <2>2. QED BY <2>1 DEF SInv, RoomOK, Follows, Settles, Recorded, Watching, Closing, At, Steady
<1>2. CASE RoomExpires
  <2>1. store' = Null /\ UNCHANGED <<zset, db, job, faults>> /\ \A u \in Tasks : job[u].pc = "idle"
    BY <1>2 DEF RoomExpires, At, history
  <2>2. QED BY <2>1 DEF SInv, RoomOK, Follows, Settles, Recorded, Watching
<1>3. QED BY <1>1, <1>2

LEMMA InitSInv == Init => SInv
<1> SUFFICES ASSUME Init PROVE SInv
  OBVIOUS
<1>1. \A t \in Tasks : job[t].pc = "idle"
  BY DEF Init, Idle
<1>2. store.game.phase = "AWAITING_MOVE" /\ store.game.events = 1 /\ store.deadline = Null
      /\ db.result = Null
  BY DEF Init
<1>3. QED BY <1>1, <1>2 DEF SInv, RoomOK, IsOver, Follows, Settles, Recorded, Watching

LEMMA NextSInv == ASSUME LInv, SInv, [Next]_vars PROVE SInv'
<1>1. CASE \E t \in Requests : Client(t)
  BY <1>1, SteadyOutside DEF Client, Tasks
<1>2. CASE \E t \in Sweeps : SweepDue(t)
  BY <1>2, SteadyOutside DEF Tasks
<1>3. CASE \E t \in Tasks : Advance(t) \/ GiveUp(t) \/ CallFails(t) \/ Crash(t)
  BY <1>3, SteadyOutside, SteadyFault, SteadyLoads, SteadyWrites DEF Advance, Locked
<1>4. CASE (\E seat \in Seat : Leave(seat)) \/ RoomExpires \/ Tick \/ UNCHANGED vars
  BY <1>4, SteadyWorld
<1>5. QED BY <1>1, <1>2, <1>3, <1>4 DEF Next

LEMMA SteadyInvHolds == ASSUME NoExpiry PROVE Spec => [](LInv /\ SInv)
<1>1. LInv /\ SInv /\ [Next]_vars => SInv'
  BY NextSInv
<1>2. QED BY <1>1, LockInvHolds, InitSInv, PTL DEF Spec

(* A room whose clock runs is in game:deadlines whenever no task is in the *)
(* middle of a write, if the commit that ends a game does not fail: so the *)
(* sweep finds every silent game (commit, applyTimeout).                   *)
THEOREM ClockIsWatched == ASSUME NoExpiry, NoFinal PROVE Spec => []Watched
<1>1. SInv => Watched
  BY DEF SInv, Steady, Watching, Watched, Closing, At, Holding, Section
<1>2. QED BY <1>1, SteadyInvHolds, PTL

-----------------------------------------------------------------------------
(* The room implements the life of a match.                                *)

LEMMA OppositeIsOther == ASSUME NEW p \in Seat PROVE Match!Opposite(p) = Other(p)
BY DEF Match!Opposite, Match!Side, Other, Seat

LEMMA InitImplements == Init => Match!Init
<1> SUFFICES ASSUME Init PROVE Match!Init
  OBVIOUS
<1>1. PICK starter \in Seat :
        store = [game |-> [active |-> starter, phase |-> "AWAITING_MOVE",
                           events |-> 1, result |-> Null],
                 reserve |-> [s \in Seat |-> RESERVE],
                 deadline |-> Null]
  BY DEF Init
<1>2. store \in Room
  BY <1>1, ConstantsAssumption DEF Room, Game, Phase
<1>3. store # Null
  BY <1>2, NullAssumption
<1>4. store.game.active \in Seat /\ store.game.events = 1 /\ db.result = Null
  BY <1>1 DEF Init
<1>5. QED BY <1>3, <1>4 DEF Match!Init, Match!Side, Seat

(* Only four steps are seen from outside.                                  *)
LEMMA OtherStepsStutter ==
  ASSUME [Next]_vars, ~RoomExpires, \A t \in Tasks : ~Save(t) /\ ~Persist(t) /\ ~Remove(t)
  PROVE  UNCHANGED <<store, db>>
BY DEF Next, Client, Advance, Locked, Tasks, vars, history,
       Submit, Join, Watch, Leave, SweepDue, Acquire, GiveUp, LoadIntent, LoadJoin,
       LoadAI, LoadSweep, Drop, Rearm, Arm, Unarm, Clear, Announce, Release,
       MarkOnline, Drive, Resume, CallFails, Crash, Tick

LEMMA StepImplements ==
  ASSUME NoFinal, LInv, SInv, [Next]_vars
  PROVE  [Match!Next]_(Match!matchVars)
<1> USE TypeFacts DEF LInv
<1>0. Steady
  BY DEF Steady
<1>1. ASSUME NEW t \in Tasks, Save(t) PROVE [Match!Next]_(Match!matchVars)
  <2>1. /\ At(t, "save") /\ store' = job[t].room /\ UNCHANGED db
        /\ Carries(job[t]) /\ Follows(job[t]) /\ Settles(job[t])
    BY <1>0, <1>1 DEF Save, IInv, Carried, SInv
  <2>2. /\ store # Null /\ store' # Null /\ store' \in Room /\ db.result = Null
        /\ store'.game = store.game \/ store'.game.events = store.game.events + 1
    BY <1>1, <2>1 DEF At, Carries, Follows, Settles, JobsOK, Job, JobFields
  <2>3. store'.game.active \in Seat
    BY <2>2 DEF Room, Game
  <2>4. CASE store'.game = store.game
    BY <2>1, <2>2, <2>4 DEF Match!matchVars
  <2>5. CASE store'.game.events = store.game.events + 1
    BY <2>1, <2>2, <2>3, <2>5 DEF Match!Next, Match!Play, Match!Side, Seat
  <2>6. QED BY <2>2, <2>4, <2>5
<1>2. ASSUME NEW t \in Tasks, Persist(t) PROVE [Match!Next]_(Match!matchVars)
  <2>1. /\ At(t, "persist") /\ UNCHANGED store /\ Settles(job[t]) /\ Carries(job[t])
    BY <1>0, <1>2 DEF Persist, IInv, Carried, SInv
  <2>2. /\ store # Null /\ db.result = Null /\ Ends(store.game, job[t].room.game.result)
        /\ job[t].room.game.result \in Result
    BY <2>1 DEF At, Settles, Carries
  <2>3. db'.result = job[t].room.game.result
    BY <1>2, <2>2 DEF Persist
  <2> DEFINE r == job[t].room.game.result
  <2>4. store.game.active \in Seat /\ Match!Opposite(store.game.active) = Other(store.game.active)
    BY <2>2, OppositeIsOther DEF Game
  <2>5. \/ r = [winner |-> store.game.active, reason |-> "SINGLE"]
        \/ \E p \in Match!Side : r = [winner |-> p, reason |-> "RESIGNATION"]
        \/ r = [winner |-> Match!Opposite(store.game.active), reason |-> "FORFEIT"]
    <3>1. CASE r.reason = "RESIGNATION"
      <4>1. r.winner \in Match!Side /\ r = [winner |-> r.winner, reason |-> "RESIGNATION"]
        BY <2>2, <3>1 DEF Result, Match!Side, Seat
      <4>2. QED BY <4>1
    <3>2. QED BY <2>2, <2>4, <3>1 DEF Ends
  <2> HIDE DEF r
  <2>6. db'.result = r
    BY <2>3 DEF r
  <2>7. Match!Conclude
    BY <2>1, <2>2, <2>5, <2>6 DEF Match!Conclude
  <2>8. QED BY <2>7 DEF Match!Next
<1>3. ASSUME NEW t \in Tasks, Remove(t) PROVE [Match!Next]_(Match!matchVars)
  <2>1. store' = Null /\ UNCHANGED db /\ db.result # Null
    BY <1>0, <1>3 DEF Remove, At, SInv, Settles
  <2>2. CASE store = Null
    BY <2>1, <2>2 DEF Match!matchVars
  <2>3. CASE store # Null
    BY <2>1, <2>3 DEF Match!Next, Match!Close, Match!ClearTable
  <2>4. QED BY <2>2, <2>3
<1>4. CASE RoomExpires
  <2>1. store # Null /\ store' = Null /\ UNCHANGED db /\ zset = Null
        /\ \A u \in Tasks : ~Closing(u) /\ ~At(u, "persist")
    BY <1>4 DEF RoomExpires, At, Closing
  <2>2. db.result = Null /\ store.deadline = Null
    BY <1>0, <2>1 DEF SInv, Recorded, Watching
  <2>3. store.game.events = 1
    BY <2>1, <2>2 DEF SInv, RoomOK
  <2>4. QED BY <2>1, <2>2, <2>3 DEF Match!Next, Match!Abandon, Match!ClearTable
<1>5. CASE UNCHANGED <<store, db>>
  BY <1>5 DEF Match!matchVars
<1>6. QED BY <1>1, <1>2, <1>3, <1>4, <1>5, OtherStepsStutter

(* Under concurrent requests, sweeps and AI loops, aborted writes, dying   *)
(* instances and lost retries, the room does what MatchLifecycle promises, *)
(* while sections end before their key and the last commit does not fail:  *)
(* one move at a time is played, one result is recorded, by whom the rules *)
(* of the table say, and nothing happens after it.                         *)
THEOREM RoomImplementsMatch == ASSUME NoExpiry, NoFinal PROVE Spec => ImplementsMatch
<1>1. LInv /\ SInv /\ [Next]_vars => [Match!Next]_(Match!matchVars)
  BY StepImplements
<1>2. QED BY <1>1, SteadyInvHolds, InitImplements, PTL DEF Spec, ImplementsMatch, Match!Spec

-----------------------------------------------------------------------------
(* Whoever makes it the turn of the AI sees to it that a task drives it.   *)

Needy == store # Null /\ store.deadline # Null /\ store.game.active \in AISeats

Driving(t) ==
  \/ job[t].kind = "ai"
  \/ job[t].pc \in {"online", "drive"}
  \/ job[t].pc = "announce" /\ job[t].after \in {"online", "drive"}

(* A loop goes on until it has seen that the AI is not to move; any other  *)
(* task that saves a room goes on to look whether it is.                   *)
Minds(j) ==
  /\ j.pc = "idle" => j.kind # "ai"
  /\ j.pc \in {"arm", "save"} => j.kind = "ai" \/ j.after \in {"online", "drive"}
  /\ j.kind = "ai" =>
       /\ j.pc \notin {"online", "drive", "drop", "rearm"}
       /\ j.pc \in {"arm", "save", "unarm", "persist", "clear", "remove", "announce"} =>
            j.after = "pause"
       /\ j.pc = "release" =>
            j.after = "idle" /\ (store = Null \/ store.game.active \notin AISeats)

AInv ==
  faults = 0 =>
    /\ \A t \in Tasks : Minds(job[t])
    /\ Needy => \E t \in Tasks : Driving(t)

LEMMA GotoKeeps ==
  ASSUME JobsOK, NEW t \in Tasks, NEW label, Goto(t, label)
  PROVE  job'[t].pc = label /\ job'[t].kind = job[t].kind /\ job'[t].after = job[t].after
BY DEF JobsOK, Job, JobFields, Goto

LEMMA WorkKeeps ==
  ASSUME JobsOK, NEW t \in Tasks, NEW label, NEW room, NEW after, Work(t, label, room, after)
  PROVE  job'[t].pc = label /\ job'[t].kind = job[t].kind /\ job'[t].after = after
BY DEF JobsOK, Job, JobFields, Work

LEMMA CommitKeeps ==
  ASSUME JobsOK, NEW t \in Tasks, NEW room, NEW g, NEW after, Commit(t, room, g, after)
  PROVE  /\ job'[t].pc = IF IsOver(g) THEN "unarm" ELSE "arm"
         /\ job'[t].kind = job[t].kind /\ job'[t].after = after
BY WorkKeeps DEF Commit

LEMMA StartSets ==
  ASSUME JobsOK, NEW t \in Tasks, NEW kind, NEW seat, NEW intent, Start(t, kind, seat, intent)
  PROVE  job'[t].pc = "acquire" /\ job'[t].kind = kind
BY DEF JobsOK, Start, Idle

LEMMA UnlockKeeps ==
  ASSUME JobsOK, NEW t \in Tasks, Unlock(t)
  PROVE  /\ job[t].after = "idle" => job'[t].pc = "idle" /\ job'[t].kind = "none"
         /\ job[t].after # "idle" =>
              /\ job'[t].pc = job[t].after /\ job'[t].kind = job[t].kind
              /\ job'[t].after = "idle"
<1>1. CASE job[t].after = "idle"
  BY <1>1 DEF JobsOK, Unlock, Idle
<1>2. CASE job[t].after # "idle"
  BY <1>2 DEF JobsOK, Job, JobFields, Unlock
<1>3. QED BY <1>1, <1>2

(* The steps of a task keep the invariant, if the task minds its part.     *)
LEMMA DriveStep ==
  ASSUME LInv, AInv, NEW t \in Tasks, OthersKeep(t), UNCHANGED store \/ Holding(t),
         faults' = faults \/ faults' # 0,
         faults' = 0 => Minds(job[t])',
         faults' = 0 /\ Needy' => Driving(t)' \/ (Needy /\ ~Driving(t))
  PROVE  AInv'
<1> SUFFICES ASSUME faults' = 0 PROVE AInv'
  BY DEF AInv
<1>1. faults = 0 /\ \A u \in Tasks : Minds(job[u])
  BY DEF AInv
<1>2. \A u \in Tasks : u # t => Minds(job[u])'
  <2>1. CASE UNCHANGED store
    BY <1>1, <2>1 DEF Minds, OthersKeep
  <2>2. CASE Holding(t)
    <3>1. \A u \in Tasks : u # t => job[u].pc # "release"
      BY <2>2, HeldExcludes DEF LInv, Exclusive, Holding, Section
    <3>2. QED BY <1>1, <3>1 DEF Minds, OthersKeep
  <2>3. QED BY <2>1, <2>2
<1>3. ASSUME Needy' PROVE (\E u \in Tasks : Driving(u))'
  <2>1. CASE Driving(t)'
    BY <2>1
  <2>2. CASE Needy /\ ~Driving(t)
    <3>1. PICK u \in Tasks : Driving(u)
      BY <1>1, <2>2 DEF AInv
    <3>2. u # t /\ Driving(u)'
      BY <2>2, <3>1 DEF Driving, OthersKeep
    <3>3. QED BY <3>2
  <2>3. QED BY <1>3, <2>1, <2>2
<1>4. QED BY <1>2, <1>3 DEF AInv

LEMMA DriveOutside ==
  ASSUME LInv, SInv, AInv, LInv', NEW t \in Tasks,
         \/ \E seat \in Seat : \E intent \in Intent : Submit(t, seat, intent)
         \/ \E seat \in Seat : Join(t, seat)
         \/ Watch(t) \/ SweepDue(t) \/ Acquire(t) \/ MarkOnline(t) \/ Drive(t) \/ Resume(t)
  PROVE  AInv'
<1>0. JobsOK /\ UNCHANGED <<store, faults>>
  BY TypeFacts DEF LInv, Submit, Join, Watch, SweepDue, Acquire, MarkOnline, Drive, Resume, history
<1>1. Needy' = Needy
  BY <1>0 DEF Needy
<1>2. faults = 0 => Minds(job[t])
  BY DEF AInv
<1>3. CASE (\E seat \in Seat : \E intent \in Intent : Submit(t, seat, intent))
           \/ (\E seat \in Seat : Join(t, seat)) \/ SweepDue(t)
  <2>1. At(t, "idle") /\ OthersKeep(t) /\ job'[t].pc = "acquire" /\ job'[t].kind # "ai"
    BY <1>0, <1>3, StartMoves, StartSets DEF Submit, Join, SweepDue
  <2>2. QED BY <1>0, <1>1, <1>2, <2>1, DriveStep DEF At, Minds, Driving
<1>4. CASE Watch(t)
  <2>1. At(t, "idle") /\ OthersKeep(t) /\ job'[t].pc = "drive" /\ job'[t].kind = job[t].kind
    BY <1>0, <1>4, GotoMoves, GotoKeeps DEF Watch, Label, Outside
  <2>2. QED BY <1>0, <1>1, <1>2, <2>1, DriveStep DEF At, Minds, Driving
<1>5. CASE Acquire(t)
  <2>1. At(t, "acquire") /\ OthersKeep(t) /\ job'[t].pc = "load" /\ job'[t].kind = job[t].kind
    BY <1>0, <1>5, GotoMoves, GotoKeeps DEF Acquire, Label, Section
  <2>2. QED BY <1>0, <1>1, <1>2, <2>1, DriveStep DEF At, Minds, Driving
<1>6. CASE MarkOnline(t)
  <2>1. At(t, "online") /\ OthersKeep(t) /\ job'[t].pc = "drive" /\ job'[t].kind = job[t].kind
    BY <1>0, <1>6, GotoMoves, GotoKeeps DEF MarkOnline, Label, Outside
  <2>2. QED BY <1>0, <1>1, <1>2, <2>1, DriveStep DEF At, Minds, Driving
<1>7. CASE Resume(t) \/ (Drive(t) /\ Start(t, "ai", Null, Null))
  <2>1. OthersKeep(t) /\ job'[t].pc = "acquire" /\ job'[t].kind = "ai"
    BY <1>0, <1>7, StartMoves, StartSets DEF Resume
  <2>2. QED BY <1>0, <2>1, DriveStep DEF Minds, Driving
<1>8. CASE Drive(t) /\ ~Start(t, "ai", Null, Null)
  <2>1. OthersKeep(t) /\ job'[t].pc = "idle" /\ job'[t].kind = "none"
    BY <1>0, <1>8, IdleMoves DEF Drive, Idle, JobsOK
  <2>2. ~Needy
    BY <1>8 DEF Drive, Needy, SInv, RoomOK
  <2>3. QED BY <1>0, <1>1, <2>1, <2>2, DriveStep DEF Minds
<1>9. QED BY <1>3, <1>4, <1>5, <1>6, <1>7, <1>8

LEMMA DriveLoads ==
  ASSUME LInv, SInv, AInv, NEW t \in Tasks,
         LoadIntent(t) \/ LoadJoin(t) \/ LoadAI(t) \/ LoadSweep(t)
  PROVE  AInv'
<1>0. JobsOK /\ UNCHANGED <<store, faults>> /\ At(t, "load")
  BY TypeFacts DEF LInv, LoadIntent, LoadJoin, LoadAI, LoadSweep, history
<1>1. Needy' = Needy
  BY <1>0 DEF Needy
<1>2. OthersKeep(t)
  BY <1>0 DEF LoadIntent, LoadJoin, LoadAI, LoadSweep, Return, Commit, Work, OthersKeep, JobsOK
<1>3. CASE LoadIntent(t)
  <2>1. /\ job[t].kind = "intent" /\ job'[t].kind = "intent"
        /\ job'[t].pc \in {"release", "unarm"} \/ (job'[t].pc = "arm" /\ job'[t].after = "drive")
    BY <1>0, <1>3, WorkKeeps, CommitKeeps DEF LoadIntent, Return
  <2>2. QED BY <1>0, <1>1, <1>2, <2>1, DriveStep DEF At, Minds, Driving
<1>4. CASE LoadJoin(t)
  <2>1. /\ job[t].kind = "join" /\ job'[t].kind = "join"
        /\ job'[t].pc = "release" \/ (job'[t].pc = "arm" /\ job'[t].after = "online")
    BY <1>0, <1>4, WorkKeeps DEF LoadJoin, Return
  <2>2. QED BY <1>0, <1>1, <1>2, <2>1, DriveStep DEF At, Minds, Driving
<1>5. CASE LoadAI(t)
  <2>1. CASE Return(t, "idle") /\ (store = Null \/ IsOver(store.game) \/ store.game.active \notin AISeats)
    <3>1. job'[t].kind = "ai" /\ job'[t].pc = "release" /\ job'[t].after = "idle"
      BY <1>0, <1>5, <2>1, WorkKeeps DEF LoadAI, Return
    <3>2. store = Null \/ store.game.active \notin AISeats
      BY <2>1 DEF SInv, RoomOK
    <3>3. QED BY <1>0, <1>2, <3>1, <3>2, DriveStep DEF Minds, Driving
  <2>2. CASE \E g \in AIStep(store.game) : Commit(t, store, g, "pause")
    <3>1. job'[t].kind = "ai" /\ job'[t].pc \in {"arm", "unarm"} /\ job'[t].after = "pause"
      BY <1>0, <1>5, <2>2, CommitKeeps DEF LoadAI
    <3>2. QED BY <1>0, <1>2, <3>1, DriveStep DEF Minds, Driving
  <2>3. QED BY <1>5, <2>1, <2>2 DEF LoadAI
<1>6. CASE LoadSweep(t)
  <2>1. job[t].kind = "sweep" /\ job'[t].kind = "sweep" /\ job'[t].pc \in {"drop", "rearm", "unarm"}
    <3>1. \A g, p : IsOver(Forfeit(g, p)) \/ g \notin Game
      BY DEF Forfeit, Over, IsOver, Game
    <3>2. store # Null => store.game \in Game
      BY TypeFacts DEF LInv
    <3>3. QED BY <1>0, <1>6, <3>1, <3>2, WorkKeeps, CommitKeeps DEF LoadSweep
  <2>2. QED BY <1>0, <1>1, <1>2, <2>1, DriveStep DEF At, Minds, Driving
<1>7. QED BY <1>3, <1>4, <1>5, <1>6

LEMMA DriveWrites ==
  ASSUME LInv, SInv, AInv, NEW t \in Tasks,
         \/ Drop(t) \/ Rearm(t) \/ Arm(t) \/ Save(t)
         \/ Unarm(t) \/ Persist(t) \/ Clear(t) \/ Remove(t)
  PROVE  AInv'
<1>0. JobsOK /\ Holding(t) /\ UNCHANGED faults /\ (faults = 0 => Minds(job[t]))
  BY TypeFacts DEF LInv, AInv, Drop, Rearm, Arm, Save, Unarm, Persist, Clear, Remove, At, Holding, Section
<1>1. CASE Persist(t) /\ db.result # Null
  <2>1. ~Steady
    BY <1>1 DEF SInv, Settles, Persist, At
  <2>2. faults' # 0
    BY <1>0, <2>1 DEF Steady
  <2>3. QED BY <2>2 DEF AInv
<1>2. CASE ~(Persist(t) /\ db.result # Null)
  <2>1. \E label \in {"release", "save", "announce", "persist", "clear", "remove"} : Goto(t, label)
    BY <1>2 DEF Drop, Rearm, Arm, Save, Unarm, Persist, Clear, Remove
  <2>2. PICK label \in {"release", "save", "announce", "persist", "clear", "remove"} : Goto(t, label)
    BY <2>1
  <2>3. /\ OthersKeep(t) /\ job'[t].pc = label
        /\ job'[t].kind = job[t].kind /\ job'[t].after = job[t].after
    BY <1>0, <2>2, GotoKeeps DEF Goto, OthersKeep, JobsOK
  <2>4. CASE Drop(t) \/ Rearm(t)
    <3>1. job[t].pc \in {"drop", "rearm"} /\ job'[t].pc = "release" /\ UNCHANGED store
      BY <1>0, <2>4, GotoKeeps DEF Drop, Rearm, At
    <3>2. faults = 0 => job[t].kind # "ai"
      BY <1>0, <3>1 DEF Minds
    <3>3. QED BY <1>0, <2>3, <3>1, <3>2, DriveStep DEF Minds, Driving, Needy
  <2>5. CASE Arm(t)
    <3>1. At(t, "arm") /\ job'[t].pc = "save" /\ UNCHANGED store
      BY <1>0, <2>5, GotoKeeps DEF Arm
    <3>2. QED BY <1>0, <2>3, <3>1, DriveStep DEF At, Minds, Driving, Needy
  <2>6. CASE Save(t)
    <3>1. At(t, "save") /\ job'[t].pc = "announce"
      BY <1>0, <2>6, GotoKeeps DEF Save
    <3>2. QED BY <1>0, <2>3, <3>1, DriveStep DEF At, Minds, Driving
  <2>7. CASE Unarm(t) \/ Persist(t) \/ Clear(t)
    <3>1. /\ job[t].pc \in {"unarm", "persist", "clear"} /\ UNCHANGED store
          /\ job'[t].pc \in {"persist", "clear", "remove"}
      BY <1>0, <1>2, <2>7, GotoKeeps DEF Unarm, Persist, Clear, At
    <3>2. QED BY <1>0, <2>3, <3>1, DriveStep DEF Minds, Driving, Needy
  <2>8. CASE Remove(t)
    <3>1. At(t, "remove") /\ job'[t].pc = "announce" /\ ~Needy'
      BY <1>0, <2>8, GotoKeeps DEF Remove, Needy
    <3>2. QED BY <1>0, <2>3, <3>1, DriveStep DEF At, Minds
  <2>9. QED BY <1>2, <2>4, <2>5, <2>6, <2>7, <2>8
<1>3. QED BY <1>1, <1>2

LEMMA DriveLeaves ==
  ASSUME LInv, SInv, AInv, NEW t \in Tasks, Announce(t) \/ Release(t)
  PROVE  AInv'
<1>0. /\ JobsOK /\ Holding(t) /\ UNCHANGED <<store, faults>> /\ (faults = 0 => Minds(job[t]))
      /\ Unlock(t) /\ job[t].after \in Outside
  BY TypeFacts DEF LInv, AInv, Announce, Release, At, Holding, Section, history, JobsOK, Job, JobFields
<1>1. Needy' = Needy /\ OthersKeep(t)
  BY <1>0, UnlockMoves DEF Needy
<1>2. faults = 0 => Minds(job[t])'
  BY <1>0, UnlockKeeps DEF Minds, Announce, Release, At, Outside
<1>3. faults = 0 /\ Needy => Driving(t)' \/ ~Driving(t)
  <2>1. CASE Announce(t)
    BY <1>0, <2>1, UnlockKeeps DEF Announce, At, Minds, Driving
  <2>2. CASE Release(t)
    BY <1>0, <2>2, UnlockKeeps DEF Release, At, Minds, Driving, Needy
  <2>3. QED BY <2>1, <2>2
<1>4. QED BY <1>0, <1>1, <1>2, <1>3, DriveStep

LEMMA NextAInv == ASSUME LInv, SInv, AInv, LInv', [Next]_vars PROVE AInv'
<1>0. faults \in Nat
  BY TypeFacts DEF LInv
<1>1. CASE \E t \in Requests : Client(t)
  BY <1>1, DriveOutside DEF Client, Tasks
<1>2. CASE \E t \in Sweeps : SweepDue(t)
  BY <1>2, DriveOutside DEF Tasks
<1>3. CASE \E t \in Tasks : Advance(t)
  BY <1>3, DriveOutside, DriveLoads, DriveWrites, DriveLeaves DEF Advance, Locked
<1>4. CASE \E t \in Tasks : GiveUp(t) \/ CallFails(t) \/ Crash(t)
  <2>1. faults' = faults + 1
    BY <1>4 DEF GiveUp, CallFails, Crash
  <2>2. faults' # 0
    BY <1>0, <2>1
  <2>3. QED BY <2>2 DEF AInv
<1>5. CASE (\E seat \in Seat : Leave(seat)) \/ Tick \/ UNCHANGED vars
  <2>1. UNCHANGED <<store, job, faults>>
    BY <1>5 DEF Leave, Tick, vars, history
  <2>2. QED BY <2>1 DEF AInv, Minds, Needy, Driving
<1>6. CASE RoomExpires
  <2>1. store' = Null /\ UNCHANGED <<job, faults>>
    BY <1>6 DEF RoomExpires, history
  <2>2. QED BY <2>1 DEF AInv, Minds, Needy
<1>7. QED BY <1>1, <1>2, <1>3, <1>4, <1>5, <1>6 DEF Next

LEMMA InitAInv == Init => AInv
<1> SUFFICES ASSUME Init PROVE AInv
  OBVIOUS
<1>1. \A t \in Tasks : job[t].pc = "idle" /\ job[t].kind = "none"
  BY DEF Init, Idle
<1>2. store.deadline = Null
  BY DEF Init
<1>3. QED BY <1>1, <1>2 DEF AInv, Minds, Needy

(* As long as nothing has failed and sections end before their key: when   *)
(* the AI is to move and its clock runs, some task drives it or is about   *)
(* to, however the loops and the requests interleave (maybeAdvanceAi).     *)
THEOREM AIIsDriven == ASSUME NoExpiry PROVE Spec => []AIDriven
<1>1. LInv /\ SInv /\ AInv /\ LInv' /\ [Next]_vars => AInv'
  BY NextAInv
<1>2. AInv => AIDriven
  BY DEF AInv, Needy, Driving, AIDriven
<1>3. QED BY <1>1, <1>2, SteadyInvHolds, InitAInv, PTL DEF Spec

-----------------------------------------------------------------------------
(* The reserve banks: what has been taken from a bank, or is about to be,  *)
(* was spent on that seat's clock.                                         *)

Overdue(d, s) ==
  IF d # Null /\ d.player = s THEN Pos(now - d.startedAt - PER_MOVE) ELSE 0

Banked(r) ==
  \A s \in Seat : overtime[s] + r.reserve[s] >= RESERVE + Overdue(r.deadline, s)

Banks(j) ==
  /\ j.pc \in {"arm", "save"} =>
       /\ lock.until <= j.room.deadline.startedAt + LOCK_TTL
       /\ \A s \in Seat : overtime[s] + j.room.reserve[s] >= RESERVE
  /\ j.pc \in {"unarm", "persist"} /\ j.room.game.result.reason = "FORFEIT" =>
       overtime[Other(j.room.game.result.winner)] >= RESERVE

BInv ==
  /\ lock.until <= now + LOCK_TTL
  /\ store # Null => Banked(store)
  /\ \A t \in Tasks : Banks(job[t])
  /\ BankSpentBeforeForfeit

(* A step of one task, whatever it does to the room and to the record.     *)
LEMMA BankStep ==
  ASSUME LInv, BInv, NEW t \in Tasks, OthersKeep(t), UNCHANGED <<now, overtime>>,
         lock'.until = lock.until,
         store' # Null => Banked(store)', BankSpentBeforeForfeit', Banks(job[t])'
  PROVE  BInv'
BY DEF BInv, Banks, OthersKeep

LEMMA BankIdles ==
  ASSUME LInv, BInv, NEW t \in Tasks, OthersKeep(t), UNCHANGED <<now, store, db, overtime>>,
         lock'.until = lock.until,
         job'[t].pc \in Outside \cup {"load", "drop", "rearm", "release", "clear", "remove", "announce"}
  PROVE  BInv'
<1>1. Banks(job[t])'
  BY DEF Banks, Outside
<1>2. (store' # Null => Banked(store)') /\ BankSpentBeforeForfeit'
  BY DEF BInv, Banked, Overdue, BankSpentBeforeForfeit
<1>3. QED BY <1>1, <1>2, BankStep

(* setDeadline takes from the bank no more than the clock ran over.        *)
LEMMA SetDeadlineBanks ==
  ASSUME NEW r \in Room, now \in Nat, overtime \in [Seat -> Nat], Banked(r)
  PROVE  /\ SetDeadline(r).deadline.startedAt = now
         /\ \A s \in Seat : overtime[s] + SetDeadline(r).reserve[s] >= RESERVE
<1> DEFINE overage == IF r.deadline = Null THEN 0
                      ELSE Pos(now - r.deadline.startedAt - PER_MOVE)
           reserve == IF r.deadline = Null THEN r.reserve
                      ELSE [r.reserve EXCEPT ![r.deadline.player] = Pos(@ - overage)]
           d == [player |-> r.game.active, startedAt |-> now,
                 at |-> now + PER_MOVE + reserve[r.game.active]]
<1>1. SetDeadline(r) = [r EXCEPT !.reserve = reserve, !.deadline = d]
  BY DEF SetDeadline
<1>2. SetDeadline(r).reserve = reserve /\ SetDeadline(r).deadline = d
  BY <1>1 DEF Room
<1>3. overage \in Nat /\ RESERVE \in Nat
  BY ConstantsAssumption DEF Room, Deadline, Pos
<1>4. ASSUME NEW s \in Seat PROVE overtime[s] + reserve[s] >= RESERVE
  <2>1. overtime[s] + r.reserve[s] >= RESERVE + Overdue(r.deadline, s)
    BY DEF Banked
  <2>2. overtime[s] \in Nat /\ r.reserve[s] \in Nat /\ r.reserve \in [Seat -> Nat]
    BY DEF Room
  <2>3. CASE r.deadline # Null /\ r.deadline.player = s
    <3>1. Overdue(r.deadline, s) = overage
      BY <2>3 DEF Overdue
    <3>2. reserve[s] = Pos(r.reserve[s] - overage)
      BY <2>2, <2>3
    <3> HIDE DEF overage, reserve
    <3>3. reserve[s] >= r.reserve[s] - overage /\ reserve[s] \in Int
      BY <1>3, <2>2, <3>2 DEF Pos
    <3>4. QED BY <1>3, <2>1, <2>2, <3>1, <3>3
  <2>4. CASE ~(r.deadline # Null /\ r.deadline.player = s)
    <3>1. Overdue(r.deadline, s) = 0 /\ reserve[s] = r.reserve[s]
      BY <2>2, <2>4 DEF Overdue
    <3>2. QED BY <1>3, <2>1, <2>2, <3>1
  <2>5. QED BY <2>3, <2>4
<1>5. QED BY <1>2, <1>4

LEMMA CommitBanks ==
  ASSUME LInv, BInv, NEW t \in Tasks, NEW g \in Game, NEW after \in Outside,
         after = "online" => job[t].kind = "join",
         store # Null, Commit(t, store, g, after),
         UNCHANGED <<now, lock, store, db, overtime>>,
         IsOver(g) => g.result \in Result,
         IsOver(g) /\ g.result.reason = "FORFEIT" => overtime[Other(g.result.winner)] >= RESERVE
  PROVE  BInv'
<1>1. store \in Room /\ now \in Nat /\ JobsOK /\ overtime \in [Seat -> Nat]
  BY TypeFacts DEF LInv, IInv, TypeOK
<1>2. OthersKeep(t) /\ job'[t].pc = (IF IsOver(g) THEN "unarm" ELSE "arm")
      /\ job'[t].room.game = g
  BY <1>1, CommitMoves
<1>3. (store' # Null => Banked(store)') /\ BankSpentBeforeForfeit'
  BY DEF BInv, Banked, Overdue, BankSpentBeforeForfeit
<1>4. CASE IsOver(g)
  <2>1. Banks(job[t])'
    BY <1>2, <1>4 DEF Banks
  <2>2. QED BY <1>2, <1>3, <2>1, BankStep
<1>5. CASE ~IsOver(g)
  <2> DEFINE played == [store EXCEPT !.game = g]
  <2>1. /\ played \in Room /\ played.reserve = store.reserve
        /\ played.deadline = store.deadline
    BY <1>1 DEF Room
  <2>2. Banked(played)
    BY <2>1 DEF BInv, Banked
  <2>3. Work(t, "arm", SetDeadline(played), after)
    BY <1>5 DEF Commit
  <2> HIDE DEF played
  <2>4. job'[t].room = SetDeadline(played)
    BY <1>1, <2>3 DEF Work, JobsOK, Job, JobFields
  <2>5. /\ SetDeadline(played).deadline.startedAt = now
        /\ \A s \in Seat : overtime[s] + SetDeadline(played).reserve[s] >= RESERVE
    BY <1>1, <2>1, <2>2, SetDeadlineBanks
  <2>6. Banks(job[t])'
    BY <1>2, <1>5, <2>4, <2>5 DEF BInv, Banks
  <2>7. QED BY <1>2, <1>3, <2>6, BankStep
<1>6. QED BY <1>4, <1>5

LEMMA BankLoads ==
  ASSUME LInv, BInv, NEW t \in Tasks,
         LoadIntent(t) \/ LoadJoin(t) \/ LoadAI(t) \/ LoadSweep(t)
  PROVE  BInv'
<1>0. /\ {"load", "release", "drop", "rearm", "arm"} \subseteq Label \ {"online"}
      /\ UNCHANGED <<now, lock, store, db, overtime>>
      /\ JobsOK /\ now \in Nat /\ overtime \in [Seat -> Nat]
      /\ store # Null => store \in Room /\ store.game \in Game
  BY TypeFacts DEF Label, Section, Outside, LoadIntent, LoadJoin, LoadAI, LoadSweep, history,
     LInv, IInv, TypeOK
<1>1. ASSUME NEW label \in {"release", "drop", "rearm"}, NEW room \in Room \cup {Null},
             NEW after \in Outside, after = "online" => job[t].kind = "join",
             Work(t, label, room, after)
      PROVE  BInv'
  <2>1. OthersKeep(t) /\ job'[t].pc = label
    BY <1>0, <1>1, WorkMoves
  <2>2. QED BY <1>0, <2>1, BankIdles
<1>2. \A w, reason : \A g \in Game : /\ Over(g, w, reason).result.reason = reason
                                    /\ Over(g, w, reason).result.winner = w
  BY DEF Over, Game
<1>3. \A p, intent : \A g \in Game : \A n \in Transition(g, p, intent) \cup AIStep(g) :
        IsOver(n) => n.result.reason # "FORFEIT"
  <2>1. \A g \in Game : \A n \in Roll(g) : ~IsOver(n)
    BY DEF Roll, IsOver, Game
  <2>2. \A g \in Game : ~IsOver([g EXCEPT !.phase = "AWAITING_ROLL", !.events = @ + 1,
                                        !.active = Other(@)])
    BY DEF IsOver, Game
  <2>3. ASSUME NEW g \in Game, NEW n \in PlayTurn(g), IsOver(n)
        PROVE  n.result.reason # "FORFEIT"
    <3>1. n = Over(g, g.active, "SINGLE")
      BY <2>2, <2>3 DEF PlayTurn
    <3>2. QED BY <1>2, <3>1
  <2>4. \A p : \A g \in Game : \A n \in Resign(g, p) : n.result.reason # "FORFEIT"
    BY <1>2 DEF Resign
  <2>5. QED BY <2>1, <2>3, <2>4 DEF Transition, AIStep
<1>4. CASE LoadIntent(t)
  <2>1. CASE Return(t, "idle")
    BY <1>1, <2>1 DEF Return, Outside
  <2>2. CASE store # Null /\ ~IsOver(store.game) /\
             \E g \in Transition(store.game, job[t].seat, job[t].intent) :
               Commit(t, store, g, IF IsOver(g) THEN "idle" ELSE "drive")
    <3>1. PICK g \in Transition(store.game, job[t].seat, job[t].intent) :
            Commit(t, store, g, IF IsOver(g) THEN "idle" ELSE "drive")
      BY <2>2
    <3>2. g \in Game /\ (IsOver(g) => g.result \in Result /\ g.result.reason # "FORFEIT")
      BY <1>0, <1>3, <2>2, TransitionType, OverHasResult
    <3>3. (IF IsOver(g) THEN "idle" ELSE "drive") \in Outside \ {"online"}
      BY DEF Outside
    <3>4. QED BY <1>0, <2>2, <3>1, <3>2, <3>3, CommitBanks
  <2>3. QED BY <1>4, <2>1, <2>2 DEF LoadIntent
<1>5. CASE LoadJoin(t)
  <2>0. job[t].kind = "join"
    BY <1>5 DEF LoadJoin
  <2>1. CASE Return(t, "online")
    BY <1>1, <2>0, <2>1 DEF Return, Outside
  <2>2. CASE store # Null /\ Work(t, "arm", SetDeadline(store), "online")
    <3>1. SetDeadline(store) \in Room
      BY <1>0, <2>2, SetDeadlineType
    <3>2. /\ OthersKeep(t) /\ job'[t].pc = "arm"
          /\ job'[t].room = SetDeadline(store)
      BY <1>0, <2>0, <2>2, <3>1, WorkMoves DEF Outside
    <3>3. /\ SetDeadline(store).deadline.startedAt = now
          /\ \A s \in Seat : overtime[s] + SetDeadline(store).reserve[s] >= RESERVE
      BY <1>0, <2>2, SetDeadlineBanks DEF BInv
    <3>4. Banks(job[t])'
      BY <1>0, <3>2, <3>3 DEF BInv, Banks
    <3>5. (store' # Null => Banked(store)') /\ BankSpentBeforeForfeit'
      BY <1>0 DEF BInv, Banked, Overdue, BankSpentBeforeForfeit
    <3>6. QED BY <1>0, <3>2, <3>4, <3>5, BankStep
  <2>3. QED BY <1>5, <2>1, <2>2 DEF LoadJoin
<1>6. CASE LoadAI(t)
  <2>1. CASE Return(t, "idle")
    BY <1>1, <2>1 DEF Return, Outside
  <2>2. CASE /\ store # Null /\ ~IsOver(store.game)
             /\ \E g \in AIStep(store.game) : Commit(t, store, g, "pause")
    <3>1. PICK g \in AIStep(store.game) : Commit(t, store, g, "pause")
      BY <2>2
    <3>2. g \in Game /\ (IsOver(g) => g.result \in Result /\ g.result.reason # "FORFEIT")
      BY <1>0, <1>3, <2>2, AIStepType, OverHasResult
    <3>3. QED BY <1>0, <2>2, <3>1, <3>2, CommitBanks DEF Outside
  <2>3. QED BY <1>6, <2>1, <2>2 DEF LoadAI
<1>7. CASE LoadSweep(t)
  <2>1. CASE Work(t, "drop", Null, "idle")
    BY <1>1, <2>1 DEF Outside
  <2>2. CASE store # Null /\ Work(t, "rearm", store, "idle")
    BY <1>0, <1>1, <2>2 DEF Outside
  <2>3. CASE /\ store # Null /\ store.deadline # Null /\ ~IsOver(store.game)
             /\ ~(store.deadline.at > now)
             /\ Commit(t, store, Forfeit(store.game, store.deadline.player), "idle")
    <3> DEFINE p == store.deadline.player
               g == Forfeit(store.game, p)
    <3>1. g \in Game /\ (IsOver(g) => g.result \in Result)
      BY <1>0, <2>3, ForfeitType, OverHasResult
    <3>2. p \in Seat /\ store.deadline \in Deadline /\ store.reserve[p] \in Nat
      BY <1>0, <2>3 DEF Room, Deadline
    <3>3. g.result.winner = Other(p)
      BY <1>0, <1>2, <2>3 DEF Forfeit
    <3>4. Other(g.result.winner) = p
      BY <3>2, <3>3 DEF Other, Seat
    <3>5. overtime[p] >= RESERVE
      <4>1. store.deadline.at = store.deadline.startedAt + PER_MOVE + store.reserve[p]
        BY <2>3 DEF LInv, IInv, ClockOnActor
      <4>2. overtime[p] + store.reserve[p] >= RESERVE + Overdue(store.deadline, p)
        BY <2>3, <3>2 DEF BInv, Banked
      <4>3. Overdue(store.deadline, p) = Pos(now - store.deadline.startedAt - PER_MOVE)
        BY <2>3 DEF Overdue
      <4>4. now - store.deadline.startedAt - PER_MOVE >= store.reserve[p]
        BY <1>0, <2>3, <3>2, <4>1, ConstantsAssumption DEF Deadline
      <4>5. Overdue(store.deadline, p) >= store.reserve[p] /\ Overdue(store.deadline, p) \in Int
        BY <1>0, <3>2, <4>3, <4>4, ConstantsAssumption DEF Pos, Deadline
      <4>6. QED BY <1>0, <3>2, <4>2, <4>5, ConstantsAssumption
    <3> HIDE DEF g
    <3>6. Commit(t, store, g, "idle")
      BY <2>3 DEF g
    <3>7. QED BY <1>0, <2>3, <3>1, <3>4, <3>5, <3>6, CommitBanks DEF Outside
  <2>4. QED BY <1>7, <2>1, <2>2, <2>3 DEF LoadSweep
<1>8. QED BY <1>4, <1>5, <1>6, <1>7

(* What a section saves was billed when the section began: by the time of  *)
(* the save the new clock is within its grace, as the grace is no shorter  *)
(* than the life of the lock key.                                          *)
LEMMA BankWrites ==
  ASSUME LOCK_TTL <= PER_MOVE, LInv, BInv, NEW t \in Tasks,
         \/ Drop(t) \/ Rearm(t) \/ Arm(t) \/ Save(t)
         \/ Unarm(t) \/ Persist(t) \/ Clear(t) \/ Remove(t)
  PROVE  BInv'
<1>0. /\ {"release", "save", "announce", "persist", "clear", "remove"} \subseteq Label \ {"online"}
      /\ UNCHANGED <<now, lock, overtime>> /\ Banks(job[t]) /\ Carries(job[t])
      /\ JobsOK /\ now \in Nat /\ overtime \in [Seat -> Nat] /\ lock.until \in Nat
      /\ job[t].room # Null => job[t].room \in Room
  BY TypeFacts DEF Label, Section, Outside, Drop, Rearm, Arm, Save, Unarm, Persist, Clear, Remove,
     history, LInv, IInv, TypeOK, Carried, BInv, JobsOK, Job, JobFields
<1>1. CASE Drop(t) \/ Rearm(t) \/ Clear(t)
  <2>1. OthersKeep(t) /\ job'[t].pc \in {"release", "remove"} /\ UNCHANGED <<store, db>>
    BY <1>0, <1>1, GotoMoves DEF Drop, Rearm, Clear
  <2>2. QED BY <1>0, <2>1, BankIdles
<1>2. CASE Arm(t) \/ Unarm(t)
  <2>1. /\ OthersKeep(t) /\ UNCHANGED <<store, db>> /\ job'[t].room = job[t].room
        /\ \/ At(t, "arm") /\ job'[t].pc = "save"
           \/ At(t, "unarm") /\ job'[t].pc = "persist"
    <3>1. CASE Arm(t)
      BY <1>0, <3>1, GotoMoves DEF Arm
    <3>2. CASE Unarm(t)
      BY <1>0, <3>2, GotoMoves DEF Unarm
    <3>3. QED BY <1>2, <3>1, <3>2
  <2>2. Banks(job[t])'
    BY <1>0, <2>1 DEF Banks, At
  <2>3. (store' # Null => Banked(store)') /\ BankSpentBeforeForfeit'
    BY <1>0, <2>1 DEF BInv, Banked, Overdue, BankSpentBeforeForfeit
  <2>4. QED BY <1>0, <2>1, <2>2, <2>3, BankStep
<1>3. CASE Save(t)
  <2>1. /\ OthersKeep(t) /\ job'[t].pc = "announce" /\ store' = job[t].room
        /\ At(t, "save") /\ UNCHANGED db
    BY <1>0, <1>3, GotoMoves DEF Save
  <2> DEFINE r == job[t].room
  <2>2. /\ r \in Room /\ r.deadline \in Deadline
        /\ lock.until <= r.deadline.startedAt + LOCK_TTL
        /\ \A s \in Seat : overtime[s] + r.reserve[s] >= RESERVE
    BY <1>0, <2>1 DEF At, Banks, Carries, ClockRuns, Room
  <2>3. now < lock.until
    BY <2>1 DEF LInv, Held, Holding, At, Section
  <2> HIDE DEF r
  <2>4. Pos(now - r.deadline.startedAt - PER_MOVE) = 0
    BY <1>0, <2>2, <2>3, ConstantsAssumption DEF Pos, Deadline
  <2>5. ASSUME NEW s \in Seat
        PROVE  overtime[s] + r.reserve[s] >= RESERVE + Overdue(r.deadline, s)
    <3>1. Overdue(r.deadline, s) = 0
      BY <2>4 DEF Overdue
    <3>2. QED BY <2>2, <3>1, ConstantsAssumption
  <2>6. Banked(store)'
    BY <1>0, <2>1, <2>5 DEF Banked, Overdue, r
  <2>7. BankSpentBeforeForfeit' /\ Banks(job[t])'
    BY <1>0, <2>1 DEF BInv, BankSpentBeforeForfeit, Banks
  <2>8. QED BY <1>0, <2>1, <2>6, <2>7, BankStep
<1>4. CASE Persist(t)
  <2>1. CASE db.result = Null
    <3>1. OthersKeep(t) /\ job'[t].pc = "clear" /\ UNCHANGED store /\ At(t, "persist")
          /\ db'.result = job[t].room.game.result
      BY <1>0, <1>4, <2>1, GotoMoves DEF Persist
    <3>2. BankSpentBeforeForfeit'
      BY <1>0, <3>1 DEF At, Banks, BankSpentBeforeForfeit
    <3>3. (store' # Null => Banked(store)') /\ Banks(job[t])'
      BY <1>0, <3>1 DEF BInv, Banked, Overdue, Banks
    <3>4. QED BY <1>0, <3>1, <3>2, <3>3, BankStep
  <2>2. CASE db.result # Null
    <3>1. OthersKeep(t) /\ job'[t].pc = "release" /\ UNCHANGED <<store, db>>
      BY <1>0, <1>4, <2>2, WorkMoves DEF Persist, Return, Outside
    <3>2. QED BY <1>0, <3>1, BankIdles
  <2>3. QED BY <2>1, <2>2
<1>5. CASE Remove(t)
  <2>1. OthersKeep(t) /\ job'[t].pc = "announce" /\ store' = Null /\ UNCHANGED db
    BY <1>0, <1>5, GotoMoves DEF Remove
  <2>2. BankSpentBeforeForfeit' /\ Banks(job[t])'
    BY <1>0, <2>1 DEF BInv, BankSpentBeforeForfeit, Banks
  <2>3. QED BY <1>0, <2>1, <2>2, BankStep
<1>6. QED BY <1>1, <1>2, <1>3, <1>4, <1>5

LEMMA BankOthers ==
  ASSUME LInv, BInv, NEW t \in Tasks,
         \/ \E seat \in Seat : \E intent \in Intent : Submit(t, seat, intent)
         \/ \E seat \in Seat : Join(t, seat)
         \/ Watch(t) \/ SweepDue(t) \/ GiveUp(t) \/ MarkOnline(t) \/ Drive(t) \/ Resume(t)
         \/ Announce(t) \/ Release(t) \/ CallFails(t) \/ Crash(t)
  PROVE  BInv'
<1>1. JobsOK /\ lock \in [owner : Tasks \cup {Orphan, Null}, until : Nat]
  BY TypeFacts DEF LInv
<1>2. OthersKeep(t) /\ job'[t].pc \in Outside \cup {"release"}
  <2>1. CASE (\E seat \in Seat : \E intent \in Intent : Submit(t, seat, intent))
             \/ (\E seat \in Seat : Join(t, seat)) \/ SweepDue(t) \/ Resume(t)
    BY <1>1, <2>1, StartMoves DEF Submit, Join, SweepDue, Resume, Outside
  <2>2. CASE Watch(t) \/ MarkOnline(t)
    BY <1>1, <2>2, GotoMoves DEF Watch, MarkOnline, Outside, Label, Section
  <2>3. CASE Drive(t) \/ GiveUp(t) \/ Crash(t)
    BY <1>1, <2>3, StartMoves, IdleMoves DEF Drive, GiveUp, Crash, Outside
  <2>4. CASE Announce(t) \/ Release(t)
    BY <1>1, <2>4, UnlockMoves DEF Announce, Release
  <2>5. CASE CallFails(t)
    BY <1>1, <2>5, WorkMoves DEF CallFails, Return, Label, Section, Outside
  <2>6. QED BY <2>1, <2>2, <2>3, <2>4, <2>5
<1>3. UNCHANGED <<now, store, db, overtime>>
  BY DEF Submit, Join, Watch, SweepDue, GiveUp, MarkOnline, Drive, Resume,
         Announce, Release, CallFails, Crash, history
<1>4. lock'.until = lock.until
  BY <1>1 DEF Submit, Join, Watch, SweepDue, GiveUp, MarkOnline, Drive, Resume,
         Announce, Release, CallFails, Crash, Unlock
<1>5. QED BY <1>2, <1>3, <1>4, BankIdles

LEMMA BankAcquire ==
  ASSUME LInv, BInv, LInv', NEW t \in Tasks, Acquire(t)
  PROVE  BInv'
<1>1. OthersKeep(t) /\ job'[t].pc = "load"
  BY TypeFacts, GotoMoves DEF LInv, Acquire, Label, Section
<1>2. UNCHANGED <<now, store, db, overtime>> /\ lock'.until = now + LOCK_TTL /\ now \in Nat
  BY TypeFacts DEF LInv, Acquire, history
<1>3. lock'.until <= now' + LOCK_TTL
  BY <1>2, ConstantsAssumption
<1>4. \A u \in Tasks : u # t => ~Holding(u)'
  BY <1>1 DEF LInv, Held, Holding, Section
<1>5. \A u \in Tasks : Banks(job[u])'
  BY <1>1, <1>4 DEF Banks, Holding, Section
<1>6. QED BY <1>2, <1>3, <1>5 DEF BInv, Banked, Overdue, BankSpentBeforeForfeit

(* A tick adds to the overdue of the running clock what it adds to the     *)
(* overtime of its seat.                                                   *)
LEMMA BankTick == ASSUME LInv, BInv, Tick PROVE BInv'
<1>0. /\ UNCHANGED <<lock, store, db, job>> /\ now' = now + 1 /\ now \in Nat
      /\ overtime \in [Seat -> Nat] /\ lock.until \in Nat
      /\ store # Null => store \in Room
      /\ PER_MOVE \in Nat /\ RESERVE \in Nat /\ LOCK_TTL \in Nat
  BY TypeFacts, ConstantsAssumption DEF LInv, IInv, TypeOK, Tick
<1>1. \A s \in Seat :
        overtime'[s] = IF store # Null /\ store.deadline # Null /\ store.deadline.player = s
                          /\ now >= store.deadline.startedAt + PER_MOVE
                       THEN overtime[s] + 1 ELSE overtime[s]
  BY DEF Tick
<1>2. \A s \in Seat : overtime[s] \in Nat /\ overtime'[s] \in Nat /\ overtime'[s] >= overtime[s]
  BY <1>0, <1>1
<1>3. lock'.until <= now' + LOCK_TTL
  BY <1>0 DEF BInv
<1>4. ASSUME NEW s \in Seat, store # Null
      PROVE  overtime'[s] + store.reserve[s] >= RESERVE + Overdue(store.deadline, s)'
  <2>1. overtime[s] + store.reserve[s] >= RESERVE + Overdue(store.deadline, s)
    BY <1>4 DEF BInv, Banked
  <2>2. store.reserve[s] \in Nat
    BY <1>0, <1>4 DEF Room
  <2>3. CASE store.deadline # Null /\ store.deadline.player = s
    <3> DEFINE start == store.deadline.startedAt
    <3>1. start \in Nat
      BY <1>0, <1>4, <2>3 DEF Room, Deadline
    <3>2. Overdue(store.deadline, s) = Pos(now - start - PER_MOVE)
      BY <2>3 DEF Overdue
    <3>3. Overdue(store.deadline, s)' = Pos(now' - start - PER_MOVE)
      <4>1. store.deadline' = store.deadline
        BY <1>0
      <4>2. QED BY <2>3, <4>1 DEF Overdue
    <3>4. overtime'[s] = IF now >= start + PER_MOVE THEN overtime[s] + 1 ELSE overtime[s]
      BY <1>1, <1>4, <2>3
    <3> HIDE DEF start
    <3>5. QED BY <1>0, <1>2, <2>1, <2>2, <3>1, <3>2, <3>3, <3>4 DEF Pos
  <2>4. CASE ~(store.deadline # Null /\ store.deadline.player = s)
    <3>1. Overdue(store.deadline, s) = 0 /\ Overdue(store.deadline, s)' = 0
      BY <1>0, <2>4 DEF Overdue
    <3>2. QED BY <1>0, <1>2, <2>1, <2>2, <3>1
  <2>5. QED BY <2>3, <2>4
<1>5. store' # Null => Banked(store)'
  BY <1>0, <1>4 DEF Banked
<1>6. ASSUME NEW t \in Tasks PROVE Banks(job[t])'
  <2>1. Banks(job[t]) /\ job[t] \in Job
    BY TypeFacts DEF BInv, LInv, JobsOK
  <2>2. CASE job[t].pc \in {"arm", "save"}
    <3>1. job[t].room \in Room
      BY <2>1, <2>2 DEF LInv, IInv, Carried, Carries, Job, JobFields
    <3>2. ASSUME NEW s \in Seat PROVE overtime'[s] + job[t].room.reserve[s] >= RESERVE
      <4>1. overtime[s] + job[t].room.reserve[s] >= RESERVE /\ job[t].room.reserve[s] \in Nat
        BY <2>1, <2>2, <3>1 DEF Banks, Room
      <4>2. QED BY <1>0, <1>2, <4>1
    <3>3. QED BY <1>0, <2>1, <2>2, <3>2 DEF Banks
  <2>3. CASE job[t].pc \in {"unarm", "persist"}
    <3>1. job[t].room.game.result.reason = "FORFEIT" =>
            overtime[Other(job[t].room.game.result.winner)] >= RESERVE
      BY <2>1, <2>3 DEF Banks
    <3>2. \A w : overtime[Other(w)] >= RESERVE => overtime'[Other(w)] >= RESERVE
      BY <1>0, <1>2, OtherType
    <3>3. QED BY <1>0, <2>3, <3>1, <3>2 DEF Banks
  <2>4. CASE job[t].pc \notin {"arm", "save", "unarm", "persist"}
    BY <1>0, <2>4 DEF Banks
  <2>5. QED BY <2>2, <2>3, <2>4
<1>7. BankSpentBeforeForfeit'
  <2>1. \A w : overtime[Other(w)] >= RESERVE => overtime'[Other(w)] >= RESERVE
    BY <1>0, <1>2, OtherType
  <2>2. QED BY <1>0, <2>1 DEF BInv, BankSpentBeforeForfeit
<1>8. QED BY <1>3, <1>5, <1>6, <1>7 DEF BInv

LEMMA NextBInv == ASSUME LOCK_TTL <= PER_MOVE, LInv, BInv, LInv', [Next]_vars PROVE BInv'
<1>1. CASE \E t \in Requests : Client(t)
  BY <1>1, BankOthers DEF Client, Tasks
<1>2. CASE \E t \in Sweeps : SweepDue(t)
  BY <1>2, BankOthers DEF Tasks
<1>3. CASE \E t \in Tasks : Advance(t) \/ GiveUp(t) \/ CallFails(t) \/ Crash(t)
  BY <1>3, BankOthers, BankAcquire, BankLoads, BankWrites DEF Advance, Locked
<1>4. CASE (\E seat \in Seat : Leave(seat)) \/ UNCHANGED vars
  <2>1. UNCHANGED <<now, lock, store, db, job, overtime>>
    BY <1>4 DEF Leave, vars, history
  <2>2. QED BY <2>1 DEF BInv, Banked, Overdue, Banks, BankSpentBeforeForfeit
<1>5. CASE RoomExpires
  <2>1. store' = Null /\ UNCHANGED <<now, lock, db, job, overtime>>
    BY <1>5 DEF RoomExpires, history
  <2>2. QED BY <2>1 DEF BInv, Banks, BankSpentBeforeForfeit
<1>6. QED BY <1>1, <1>2, <1>3, <1>4, <1>5, BankTick DEF Next

LEMMA InitBInv == Init => BInv
<1> SUFFICES ASSUME Init PROVE BInv
  OBVIOUS
<1>1. \A t \in Tasks : job[t].pc = "idle"
  BY DEF Init, Idle
<1>2. /\ store.deadline = Null /\ \A s \in Seat : overtime[s] = 0 /\ store.reserve[s] = RESERVE
      /\ lock.until = 0 /\ now = 0 /\ db.result = Null
  BY DEF Init
<1>3. Banked(store)
  BY <1>2, ConstantsAssumption DEF Banked, Overdue
<1>4. QED BY <1>1, <1>2, <1>3, ConstantsAssumption DEF BInv, Banks, BankSpentBeforeForfeit

(* No one loses on time before having spent the whole bank on their own    *)
(* clock, whichever task played or swept in between: while sections end    *)
(* before their key, and the key lives no longer than the grace of an      *)
(* action (setDeadline's billing, applyTimeout's second look).             *)
THEOREM NobodyForfeitsEarly ==
  ASSUME NoExpiry, LOCK_TTL <= PER_MOVE PROVE Spec => []BankSpentBeforeForfeit
<1>1. LInv /\ BInv /\ LInv' /\ [Next]_vars => BInv'
  BY NextBInv
<1>2. BInv => BankSpentBeforeForfeit
  BY DEF BInv
<1>3. QED BY <1>1, <1>2, LockInvHolds, InitBInv, PTL DEF Spec
=============================================================================
