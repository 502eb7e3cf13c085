------------------------------ MODULE GameRoom ------------------------------
(***************************************************************************)
(* One live match as apps/api/src/game/game.service.ts runs it: the room   *)
(* in Redis, the sorted set of turn deadlines, the per-match Redis lock,   *)
(* the result transaction in PostgreSQL, and the asynchronous tasks that   *)
(* work on them -- client intents, game:join, the AI loop and the          *)
(* one-second timeout sweep. A task is one await after another, so one     *)
(* action is one remote call with the code that runs until the next one.   *)
(*                                                                         *)
(* The rules of the game are abstracted to what the service looks at: who  *)
(* is to move, the phase, how many events were played, and the result (the *)
(* rules themselves are in the engine modules). A move may be the winning  *)
(* one or not. The service creates every game without the doubling cube    *)
(* (game.service.ts:104,115,144,154), so a double is always refused.       *)
(***************************************************************************)
EXTENDS Integers, FiniteSets

CONSTANTS
  Requests,    \* slots for concurrent client requests and the AI loops
  Sweeps,      \* slots for concurrent runs of the @Interval(1000) sweep
  AISeats,     \* the seats an AI occupies: none, or one
  PER_MOVE,    \* grace per action, in ticks
  RESERVE,     \* reserve bank per player, in ticks
  LOCK_TTL,    \* life of the Redis lock key, in ticks
  Horizon,     \* bound: clients send nothing at or after this instant
  MaxEvents,   \* bound: clients send nothing once this much was played
  MaxFaults,   \* bound on the number of faults
  Faults,      \* the kinds of fault that may happen, see below
  Null         \* no room, no deadline, no holder, no result

(***************************************************************************)
(* "abort": a call rejects, or the instance dies, in a section whose write *)
(* does not end the game. "final": the same between the ZREM and the last  *)
(* DEL of the commit that ends the game. "busy": withLock runs out of      *)
(* retries. "expiry": a section outlives the lock key. The first three are *)
(* counted against MaxFaults.                                              *)
(***************************************************************************)
FaultKind == {"abort", "final", "busy", "expiry"}

Seat == {"White", "Black"}
Tasks == Requests \cup Sweeps
Orphan == "orphan"   \* the token of a holder that died
MaxTime == Horizon + MaxFaults * LOCK_TTL + PER_MOVE + RESERVE

ASSUME ConstantsAssumption ==
  /\ AISeats \subseteq Seat
  /\ {PER_MOVE, RESERVE, LOCK_TTL} \subseteq Nat \ {0}
  /\ {Horizon, MaxEvents, MaxFaults} \subseteq Nat
  /\ Faults \subseteq FaultKind
  /\ Requests \cap Sweeps = {}
  /\ Orphan \notin Tasks

VARIABLES
  now,       \* Date.now()
  lock,      \* key lock:game:<id>: its owner and the instant it expires
  store,     \* key game:room:<id>
  zset,      \* the score of this match in game:deadlines, or Null
  online,    \* key game:online:<id>
  db,        \* the match row's result, and how often a result was committed
  job,       \* per task: where it is and its local copy of the room
  sent,      \* history: events in the newest view announced to anyone
  overtime,  \* history: ticks each seat spent on its clock past the grace
  faults     \* faults so far

vars == <<now, lock, store, zset, online, db, job, sent, overtime, faults>>
history == <<sent, overtime>>

Phase == {"AWAITING_ROLL", "AWAITING_MOVE", "GAME_OVER"}
Result == [winner : Seat, reason : {"SINGLE", "RESIGNATION", "FORFEIT"}]
Game == [active : Seat, phase : Phase, events : Nat, result : Result \cup {Null}]
Deadline == [player : Seat, at : Nat, startedAt : Nat]
Room == [game : Game, reserve : [Seat -> Nat], deadline : Deadline \cup {Null}]
Intent == {"roll", "move", "resign"}

ASSUME NullAssumption == Null \notin Tasks \cup Result \cup Deadline \cup Room \cup Nat

Section == {"load", "arm", "save", "unarm", "persist", "clear", "remove",
            "drop", "rearm", "announce", "release"}
Outside == {"idle", "acquire", "online", "drive", "pause"}
Label == Outside \cup Section
JobFields ==
  [pc : Label,
   kind : {"none", "intent", "join", "sweep", "ai"},
   seat : Seat \cup {Null},
   intent : Intent \cup {Null},
   room : Room \cup {Null},
   after : Outside]      \* where the task goes once the lock is released
Job == {j \in JobFields : /\ j.kind = "join" => j.seat \in Seat
                          /\ "online" \in {j.pc, j.after} => j.kind = "join"}

TypeOK ==
  /\ now \in Nat
  /\ lock \in [owner : Tasks \cup {Orphan, Null}, until : Nat]
  /\ store \in Room \cup {Null}
  /\ zset \in Nat \cup {Null}
  /\ online \subseteq Seat
  /\ db \in [result : Result \cup {Null}, commits : Nat]
  /\ job \in [Tasks -> Job]
  /\ sent \in Nat
  /\ overtime \in [Seat -> Nat]
  /\ faults \in Nat

-----------------------------------------------------------------------------
(* The engine, as the service sees it.                                     *)

Other(p) == IF p = "White" THEN "Black" ELSE "White"
Pos(n) == IF n < 0 THEN 0 ELSE n
IsOver(g) == g.phase = "GAME_OVER"

Over(g, winner, reason) ==
  [g EXCEPT !.phase = "GAME_OVER", !.events = @ + 2,
            !.result = [winner |-> winner, reason |-> reason]]

Roll(g) ==
  IF g.phase # "AWAITING_ROLL" THEN {}
  ELSE {[g EXCEPT !.phase = "AWAITING_MOVE", !.events = @ + 1]}

(* Legal moves only: an illegal one throws and changes nothing.            *)
PlayTurn(g) ==
  IF g.phase # "AWAITING_MOVE" THEN {}
  ELSE {Over(g, g.active, "SINGLE"),
        [g EXCEPT !.phase = "AWAITING_ROLL", !.events = @ + 1,
                  !.active = Other(@)]}

Resign(g, p) == {Over(g, Other(p), "RESIGNATION")}
Forfeit_WrongWinner(g, p) == Over(g, p, "FORFEIT")   \* mutant
Forfeit(g, p) == Over(g, Other(p), "FORFEIT")

(* transition(): turn ownership, then the engine; no outcome is an error.  *)
Transition(g, color, intent) ==
  {n \in Roll(g) : intent = "roll" /\ g.active = color}
    \cup {n \in PlayTurn(g) : intent = "move" /\ g.active = color}
    \cup {n \in Resign(g, color) : intent = "resign"}

AIStep(g) == Roll(g) \cup PlayTurn(g)

(* Mutant: the bank is not clamped at zero.                                *)
SetDeadline_NoClamp(r) ==
  LET prev == r.deadline
      reserve == IF prev = Null THEN r.reserve
                 ELSE [r.reserve EXCEPT ![prev.player] =
                         @ - Pos(now - prev.startedAt - PER_MOVE)]
  IN  [r EXCEPT !.reserve = reserve,
                !.deadline = [player |-> r.game.active, startedAt |-> now,
                              at |-> now + PER_MOVE + reserve[r.game.active]]]

(* Mutant: the clock of the seat that just acted goes on.                  *)
SetDeadline_SameSeat(r) ==
  LET player == IF r.deadline = Null THEN r.game.active ELSE r.deadline.player
  IN  [r EXCEPT !.deadline = [player |-> player, startedAt |-> now,
                              at |-> now + PER_MOVE + r.reserve[player]]]

(* setDeadline(): bill whoever's clock ran, then arm it for the seat that  *)
(* must act. Every unfinished game here has one.                           *)
SetDeadline(r) ==
  LET prev == r.deadline
      overage == IF prev = Null THEN 0 ELSE Pos(now - prev.startedAt - PER_MOVE)
      reserve == IF prev = Null THEN r.reserve
                 ELSE [r.reserve EXCEPT ![prev.player] = Pos(@ - overage)]
      player == r.game.active
  IN  [r EXCEPT !.reserve = reserve,
                !.deadline = [player |-> player, startedAt |-> now,
                              at |-> now + PER_MOVE + reserve[player]]]
-----------------------------------------------------------------------------
Idle == [pc |-> "idle", kind |-> "none", seat |-> Null, intent |-> Null,
         room |-> Null, after |-> "idle"]
At(t, label) == job[t].pc = label
Goto(t, label) == job' = [job EXCEPT ![t].pc = label]
Work(t, label, room, after) ==
  job' = [job EXCEPT ![t] = [@ EXCEPT !.pc = label, !.room = room, !.after = after]]
Holding(t) == job[t].pc \in Section

(* createGame / createAiGame have run: GameState.start has rolled for the  *)
(* starter, and no clock is armed.                                         *)
Init ==
  /\ now = 0
  /\ lock = [owner |-> Null, until |-> 0]
  /\ \E starter \in Seat :
       store = [game |-> [active |-> starter, phase |-> "AWAITING_MOVE",
                          events |-> 1, result |-> Null],
                reserve |-> [s \in Seat |-> RESERVE],
                deadline |-> Null]
  /\ zset = Null
  /\ online = {}
  /\ db = [result |-> Null, commits |-> 0]
  /\ job = [t \in Tasks |-> Idle]
  /\ sent = 0
  /\ overtime = [s \in Seat |-> 0]
  /\ faults = 0
-----------------------------------------------------------------------------
(* Tasks start.                                                            *)

Start(t, kind, seat, intent) ==
  job' = [job EXCEPT ![t] = [Idle EXCEPT !.pc = "acquire", !.kind = kind,
                                         !.seat = seat, !.intent = intent]]

(* A seated client sends an intent, in or out of turn, as often as it      *)
(* likes. Bounded by Horizon and MaxEvents.                                *)
Submit(t, seat, intent) ==
  /\ At(t, "idle") /\ now < Horizon
  /\ store # Null => store.game.events < MaxEvents
  /\ Start(t, "intent", seat, intent)
  /\ UNCHANGED <<now, lock, store, zset, online, db, history, faults>>

(* game:join: getView must find the room, then the clock is started.       *)
Join(t, seat) ==
  /\ At(t, "idle") /\ now < Horizon
  /\ store # Null
  /\ Start(t, "join", seat, Null)
  /\ UNCHANGED <<now, lock, store, zset, online, db, history, faults>>

(* The same from a spectator: no clock, no presence.                       *)
Watch(t) ==
  /\ At(t, "idle") /\ now < Horizon
  /\ store # Null
  /\ Goto(t, "drive")
  /\ UNCHANGED <<now, lock, store, zset, online, db, history, faults>>

(* game:leave, or the socket drops: markOffline.                           *)
Leave(seat) ==
  /\ seat \in online /\ now < Horizon
  /\ online' = online \ {seat}
  /\ UNCHANGED <<now, lock, store, zset, db, job, history, faults>>

(* sweepTimeouts finds the match among the expired members.                *)
SweepDue(t) ==
  /\ At(t, "idle")
  /\ zset # Null /\ zset <= now
  /\ Start(t, "sweep", Null, Null)
  /\ UNCHANGED <<now, lock, store, zset, online, db, history, faults>>

-----------------------------------------------------------------------------
(* withLock: SET NX PX. The key is absent once released or past its TTL.   *)

LockFree == lock.owner = Null \/ now >= lock.until

(* Mutant: SET without NX.                                                 *)
Acquire_NoNX(t) ==
  /\ At(t, "acquire")
  /\ lock' = [owner |-> t, until |-> now + LOCK_TTL]
  /\ Goto(t, "load")
  /\ UNCHANGED <<now, store, zset, online, db, history, faults>>

Acquire(t) ==
  /\ At(t, "acquire")
  /\ LockFree
  /\ lock' = [owner |-> t, until |-> now + LOCK_TTL]
  /\ Goto(t, "load")
  /\ UNCHANGED <<now, store, zset, online, db, history, faults>>

(* Every retry found the key taken: withLock throws and the task ends.     *)
GiveUp(t) ==
  /\ At(t, "acquire")
  /\ ~LockFree
  /\ "busy" \in Faults /\ faults < MaxFaults
  /\ faults' = faults + 1
  /\ job' = [job EXCEPT ![t] = Idle]
  /\ UNCHANGED <<now, lock, store, zset, online, db, history>>

(* The script deletes the key only when it still holds this task's token.  *)
Unlock(t) ==
  /\ lock' = IF lock.owner = t THEN [lock EXCEPT !.owner = Null] ELSE lock
  /\ job' = [job EXCEPT ![t] =
               IF job[t].after = "idle" THEN Idle
               ELSE [@ EXCEPT !.pc = job[t].after, !.room = Null, !.after = "idle"]]

-----------------------------------------------------------------------------
(* The sections: load the room, then decide and commit.                    *)

Return(t, after) == Work(t, "release", Null, after)

(* commit(), up to its first remote call.                                  *)
Commit(t, room, g, after) ==
  IF IsOver(g)
  THEN Work(t, "unarm", [room EXCEPT !.game = g, !.deadline = Null], after)
  ELSE Work(t, "arm", SetDeadline([room EXCEPT !.game = g]), after)

(* applyIntent: no room, a finished game or an illegal intent is an error. *)
LoadIntent(t) ==
  /\ At(t, "load") /\ job[t].kind = "intent"
  /\ LET outcomes == IF store = Null \/ IsOver(store.game) THEN {}
                     ELSE Transition(store.game, job[t].seat, job[t].intent)
     IN  \/ outcomes = {} /\ Return(t, "idle")
         \/ \E g \in outcomes :
              Commit(t, store, g, IF IsOver(g) THEN "idle" ELSE "drive")
  /\ UNCHANGED <<now, lock, store, zset, online, db, history, faults>>

(* startClock: idempotent, arms the first actor's clock.                   *)
LoadJoin(t) ==
  /\ At(t, "load") /\ job[t].kind = "join"
  /\ IF store = Null \/ store.deadline # Null \/ IsOver(store.game)
     THEN Return(t, "online")
     ELSE Work(t, "arm", SetDeadline(store), "online")
  /\ UNCHANGED <<now, lock, store, zset, online, db, history, faults>>

(* Mutant: the loop stops after its first step.                            *)
LoadAI_OneStep(t) ==
  /\ At(t, "load") /\ job[t].kind = "ai"
  /\ IF store = Null \/ IsOver(store.game) \/ store.game.active \notin AISeats
     THEN Return(t, "idle")
     ELSE \E g \in AIStep(store.game) : Commit(t, store, g, "idle")
  /\ UNCHANGED <<now, lock, store, zset, online, db, history, faults>>

(* advanceAi, one round of its loop.                                       *)
LoadAI(t) ==
  /\ At(t, "load") /\ job[t].kind = "ai"
  /\ IF store = Null \/ IsOver(store.game) \/ store.game.active \notin AISeats
     THEN Return(t, "idle")
     ELSE \E g \in AIStep(store.game) : Commit(t, store, g, "pause")
  /\ UNCHANGED <<now, lock, store, zset, online, db, history, faults>>

(* Mutant: the deadline is not looked at again under the lock.             *)
LoadSweep_NoRecheck(t) ==
  /\ At(t, "load") /\ job[t].kind = "sweep"
  /\ IF store = Null \/ store.deadline = Null \/ IsOver(store.game)
     THEN Work(t, "drop", Null, "idle")
     ELSE Commit(t, store, Forfeit(store.game, store.deadline.player), "idle")
  /\ UNCHANGED <<now, lock, store, zset, online, db, history, faults>>

(* applyTimeout: everything is checked again under the lock.               *)
LoadSweep(t) ==
  /\ At(t, "load") /\ job[t].kind = "sweep"
  /\ IF store = Null \/ store.deadline = Null \/ IsOver(store.game)
     THEN Work(t, "drop", Null, "idle")
     ELSE IF store.deadline.at > now
          THEN Work(t, "rearm", store, "idle")
          ELSE Commit(t, store, Forfeit(store.game, store.deadline.player), "idle")
  /\ UNCHANGED <<now, lock, store, zset, online, db, history, faults>>

Drop(t) ==
  /\ At(t, "drop")
  /\ zset' = Null
  /\ Goto(t, "release")
  /\ UNCHANGED <<now, lock, store, online, db, history, faults>>

(* Mutant: the member of a game that was played on is removed.             *)
Rearm_Drops(t) ==
  /\ At(t, "rearm")
  /\ zset' = Null
  /\ Goto(t, "release")
  /\ UNCHANGED <<now, lock, store, online, db, history, faults>>

Rearm(t) ==
  /\ At(t, "rearm")
  /\ zset' = job[t].room.deadline.at
  /\ Goto(t, "release")
  /\ UNCHANGED <<now, lock, store, online, db, history, faults>>

(* Mutants: announced before it is saved; the deadline is not added.       *)
Arm_AnnouncesUnsaved(t) ==
  /\ At(t, "arm")
  /\ zset' = job[t].room.deadline.at
  /\ Goto(t, "announce")
  /\ UNCHANGED <<now, lock, store, online, db, history, faults>>

Arm_NoMember(t) ==
  /\ At(t, "arm")
  /\ Goto(t, "save")
  /\ UNCHANGED <<now, lock, store, zset, online, db, history, faults>>

(* The commit of a game that goes on: ZADD, then SET of the room.          *)
Arm(t) ==
  /\ At(t, "arm")
  /\ zset' = job[t].room.deadline.at
  /\ Goto(t, "save")
  /\ UNCHANGED <<now, lock, store, online, db, history, faults>>

Save(t) ==
  /\ At(t, "save")
  /\ store' = job[t].room
  /\ Goto(t, "announce")
  /\ UNCHANGED <<now, lock, zset, online, db, history, faults>>

(* The commit of a game that ends: ZREM, the transaction, two DELs.        *)
Unarm(t) ==
  /\ At(t, "unarm")
  /\ zset' = Null
  /\ Goto(t, "persist")
  /\ UNCHANGED <<now, lock, store, online, db, history, faults>>

(* Mutant: the event log has no unique (matchId, seq).                     *)
Persist_NotUnique(t) ==
  /\ At(t, "persist")
  /\ db' = [result |-> job[t].room.game.result, commits |-> db.commits + 1]
  /\ Goto(t, "clear")
  /\ UNCHANGED <<now, lock, store, zset, online, history, faults>>

(* persistFinished: one transaction. The unique (matchId, seq) of the      *)
(* event log rejects, and rolls back, a second one for the same match.     *)
Persist(t) ==
  /\ At(t, "persist")
  /\ IF db.result = Null
     THEN /\ db' = [result |-> job[t].room.game.result, commits |-> db.commits + 1]
          /\ Goto(t, "clear")
     ELSE /\ Return(t, "idle")
          /\ UNCHANGED db
  /\ UNCHANGED <<now, lock, store, zset, online, history, faults>>

(* Mutant: the room itself is left behind.                                 *)
Clear_KeepsRoom(t) ==
  /\ At(t, "clear")
  /\ online' = {}
  /\ Goto(t, "announce")
  /\ UNCHANGED <<now, lock, store, zset, db, history, faults>>

Clear(t) ==
  /\ At(t, "clear")
  /\ online' = {}
  /\ Goto(t, "remove")
  /\ UNCHANGED <<now, lock, store, zset, db, history, faults>>

Remove(t) ==
  /\ At(t, "remove")
  /\ store' = Null
  /\ Goto(t, "announce")
  /\ UNCHANGED <<now, lock, zset, online, db, history, faults>>

(* GAME_STATE_CHANGED is emitted and the call returns: the lock is freed.  *)
Announce(t) ==
  /\ At(t, "announce")
  /\ sent' = job[t].room.game.events
  /\ Unlock(t)
  /\ UNCHANGED <<now, store, zset, online, db, overtime, faults>>

(* The section ends without an announcement.                               *)
Release(t) ==
  /\ At(t, "release")
  /\ Unlock(t)
  /\ UNCHANGED <<now, store, zset, online, db, history, faults>>

-----------------------------------------------------------------------------
(* After the section.                                                      *)

(* onJoin goes on with markOnline.                                         *)
MarkOnline(t) ==
  /\ At(t, "online")
  /\ online' = online \cup {job[t].seat}
  /\ Goto(t, "drive")
  /\ UNCHANGED <<now, lock, store, zset, db, history, faults>>

(* maybeAdvanceAi: an unlocked look at the room; the task becomes a loop.  *)
Drive(t) ==
  /\ At(t, "drive")
  /\ IF store # Null /\ ~IsOver(store.game) /\ store.game.active \in AISeats
     THEN Start(t, "ai", Null, Null)
     ELSE job' = [job EXCEPT ![t] = Idle]
  /\ UNCHANGED <<now, lock, store, zset, online, db, history, faults>>

(* The AI loop's pause is over.                                            *)
Resume(t) ==
  /\ At(t, "pause")
  /\ Start(t, "ai", Null, Null)
  /\ UNCHANGED <<now, lock, store, zset, online, db, history, faults>>

-----------------------------------------------------------------------------
(* Faults and time.                                                        *)

FaultAt(t) ==
  IF job[t].pc \in {"persist", "clear", "remove"} THEN "final" ELSE "abort"

(* A remote call of the section rejects: finally releases the lock.        *)
CallFails(t) ==
  /\ Holding(t) /\ ~At(t, "release")
  /\ FaultAt(t) \in Faults /\ faults < MaxFaults
  /\ faults' = faults + 1
  /\ Return(t, "idle")
  /\ UNCHANGED <<now, lock, store, zset, online, db, history>>

(* The instance running the task dies; its lock key stays until its TTL.   *)
Crash(t) ==
  /\ ~At(t, "idle")
  /\ FaultAt(t) \in Faults /\ faults < MaxFaults
  /\ faults' = faults + 1
  /\ job' = [job EXCEPT ![t] = Idle]
  /\ lock' = IF lock.owner = t THEN [lock EXCEPT !.owner = Orphan] ELSE lock
  /\ UNCHANGED <<now, store, zset, online, db, history>>

(* A room nothing touches for six hours expires. A watched one is swept    *)
(* within minutes, so only an unwatched one is ever left that long.        *)
RoomExpires ==
  /\ store # Null /\ zset = Null
  /\ \A t \in Tasks : At(t, "idle")
  /\ store' = Null
  /\ UNCHANGED <<now, lock, zset, online, db, job, history, faults>>

(* Time passes. Past Horizon it waits for the requests in flight and stops *)
(* at MaxTime, but not while a dead holder's key is yet to expire (bounds  *)
(* chosen so that every deadline ever set is reached). Without "expiry"    *)
(* every section ends before its lock key does.                            *)
Tick ==
  /\ \/ now < Horizon
     \/ lock.owner = Orphan /\ ~LockFree
     \/ now < MaxTime /\ \A t \in Requests : At(t, "idle")
  /\ "expiry" \in Faults \/ lock.owner \notin Tasks \/ now + 1 < lock.until
  /\ now' = now + 1
  /\ overtime' =
       [s \in Seat |->
          IF /\ store # Null
             /\ store.deadline # Null
             /\ store.deadline.player = s
             /\ now >= store.deadline.startedAt + PER_MOVE
          THEN overtime[s] + 1 ELSE overtime[s]]
  /\ UNCHANGED <<lock, store, zset, online, db, job, sent, faults>>

-----------------------------------------------------------------------------
Locked(t) ==
  \/ LoadIntent(t) \/ LoadJoin(t) \/ LoadAI(t) \/ LoadSweep(t)
  \/ Drop(t) \/ Rearm(t) \/ Arm(t) \/ Save(t)
  \/ Unarm(t) \/ Persist(t) \/ Clear(t) \/ Remove(t)
  \/ Announce(t) \/ Release(t)

Advance(t) ==
  \/ Acquire(t) \/ Locked(t)
  \/ MarkOnline(t) \/ Drive(t) \/ Resume(t)

Client(t) ==
  \/ Watch(t)
  \/ \E seat \in Seat \ AISeats :
       Join(t, seat) \/ \E intent \in Intent : Submit(t, seat, intent)

Next ==
  \/ \E t \in Requests : Client(t)
  \/ \E seat \in Seat : Leave(seat)
  \/ \E t \in Sweeps : SweepDue(t)
  \/ \E t \in Tasks : Advance(t) \/ GiveUp(t) \/ CallFails(t) \/ Crash(t)
  \/ RoomExpires \/ Tick

Spec == Init /\ [][Next]_vars

(* The event loop resumes every await, the interval timer keeps firing,    *)
(* and time passes. Nothing is assumed of the clients.                     *)
Fairness ==
  /\ \A t \in Tasks : WF_vars(Advance(t))
  /\ \A t \in Sweeps : WF_vars(SweepDue(t))
  /\ WF_vars(Tick)

FairSpec == Spec /\ Fairness
-----------------------------------------------------------------------------
(* TypeOK and the properties.                                              *)

(* RedisLockService: no two tasks are ever inside the section of a match.  *)
Exclusive ==
  \A t, u \in Tasks : Holding(t) /\ Holding(u) => t = u

(* The result, its statistics and its rating change are committed at most  *)
(* once per match, whatever fails and wherever (persistFinished).          *)
RecordedOnce == db.commits <= 1

(* setDeadline: in a saved room the clock that runs is the clock of the    *)
(* seat that must act, and it expires after the grace plus that seat's     *)
(* whole reserve.                                                          *)
ClockOnActor ==
  store # Null /\ store.deadline # Null =>
    LET d == store.deadline IN
      /\ d.player = store.game.active
      /\ d.at = d.startedAt + PER_MOVE + store.reserve[d.player]

(* No one loses on time before having spent the whole reserve bank on      *)
(* their own clock, past the grace of each action (setDeadline's billing,  *)
(* applyTimeout's second look at the deadline).                            *)
BankSpentBeforeForfeit ==
  db.result # Null /\ db.result.reason = "FORFEIT" =>
    overtime[Other(db.result.winner)] >= RESERVE

(* A room whose clock runs is in game:deadlines whenever no task is in the *)
(* middle of a write, so the sweep will find it.                           *)
Watched ==
  store # Null /\ store.deadline # Null /\ (\A t \in Tasks : ~Holding(t))
    => zset # Null

(* What was announced (broadcast, or acknowledged to the sender) is never  *)
(* lost: as long as there is a room, it holds it.                          *)
AnnouncedIsDurable == store # Null => sent <= store.game.events

(* commit(): views reach a room in the order of the game: an older state   *)
(* is never announced after a newer one.                                   *)
AnnouncedInOrder == [][sent' >= sent]_vars

(* A write to the room never discards a step that was already saved: the   *)
(* read-modify-write of the lock's comment.                                *)
NoLostUpdate ==
  [][store # Null /\ store' # Null => store'.game.events >= store.game.events]_vars

(* GameService's comment: each turn carries a deadline, so an inactive or  *)
(* disconnected player forfeits on timeout: a game whose clock runs ends   *)
(* with a recorded result even if no client ever does anything again.      *)
InactivityEndsGame ==
  (store # Null /\ store.deadline # Null) ~> (db.result # Null)

(* The room of a recorded match goes away, so that nothing more is played. *)
RecordedGameCloses == (db.result # Null) ~> (store = Null)

(* When the AI is to move and its clock runs, some task is driving it or   *)
(* about to, unless a task died: the hand-over after each commit and join  *)
(* (maybeAdvanceAi) leaves no gap, however the loops and the human's       *)
(* requests interleave.                                                    *)
AIDriven ==
  faults = 0 /\ store # Null /\ store.deadline # Null /\ store.game.active \in AISeats =>
    \E t \in Tasks :
      \/ job[t].kind = "ai"
      \/ job[t].pc \in {"online", "drive"}
      \/ job[t].pc = "announce" /\ job[t].after \in {"online", "drive"}

(* The room implements the match lifecycle.                                *)
Match == INSTANCE MatchLifecycle WITH
  turn <- IF store = Null THEN Null ELSE store.game.active,
  progress <- IF store = Null THEN 0 ELSE store.game.events,
  open <- store # Null,
  result <- db.result

ImplementsMatch == Match!Spec
=============================================================================
