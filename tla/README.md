# Narda Pro in TLA+

TLA+ specifications of Narda Pro, an online backgammon and Long Narda server with its rules
engine, its computer player and its web client, the TLC configurations that model-check
them, and TLAPS proofs about every one of these parts: the match service, the rules engine,
matchmaking, the services around them, the client's turn builder, its board and its pages.
Source paths are relative to the repository (`src/` is its root); every definition that
models code is traced to its lines in `PROJECT.json` (`map`).

Contents: 1 the system, 2 the modules, 3 the model-checking runs, 4 the proofs,
5 divergences, 6 what is not modelled, 7 the plan.

---

## 1. The system

A TypeScript monorepo: `packages/game-engine` (pure rules and AI), `apps/api`
(NestJS with Redis and PostgreSQL), `apps/web` (a React client).

```
  web client                     api (any number of instances)            stores
  game.store.ts  --socket.io-->  game.gateway      -> game.service  --+-> Redis
  GameScreen.tsx                 matchmaking.gw    -> matchmaking.svc -+   rooms, deadlines,
  turn-builder.ts                realtime.gateway  -> presence.svc   --+   queues, tickets,
  GameBoard.tsx   ----HTTP---->  auth.controller   -> token.service    |   locks, invites,
  api.ts                         invite.service       users.service    |   counters, caches
                  <--views-----  game.service (broadcast)             -+-> PostgreSQL
                                   | game-engine (rules, AI)               matches, events,
                                                                           ratings, tokens
```

The API instances keep no match in memory: the whole state of a live match is one
Redis value, read, changed and written back under a Redis lock. Everything is
therefore a race between asynchronous tasks whose steps are remote calls.

| component | state it keeps | operations | talks to | hard behaviours | what makes it correct |
|---|---|---|---|---|---|
| **Game service** `apps/api/src/game/game.service.ts`, `game-state.store.ts` | `game:room:<id>`, the sorted set `game:deadlines`, `game:online:<id>`, the match row | createGame, applyIntent, startClock, advanceAi, sweepTimeouts/applyTimeout, commit, persistFinished, markOnline/Offline | engine, lock, Redis, PostgreSQL, sockets | concurrent intents from several tabs, AI loops and sweeps; a commit that is several remote writes; crashes and rejections between them; clocks | one section at a time; no saved or announced step lost; the running clock is the actor's; nobody forfeits early; a silent game ends; one result |
| **Redis lock** `redis-lock.service.ts` | `lock:<key>` with a token and a TTL | withLock (acquire with retries, run, release) | Redis | holder dies; section outlives the TTL; retries run out | mutual exclusion |
| **Game engine** `packages/game-engine/src/domain`, `long-narda` | board, dice, cube, phase, result, event log | roll, playTurn, offer/accept/declineDouble, resign, forfeit | none (pure) | long sequences of legal calls; the maximum-dice, higher-die and head rules; bearing off; two independent pieces of code deciding what is legal | checkers conserved; generator and validator agree; never stuck; right result |
| **AI** `packages/game-engine/src/ai`, `long-narda/evaluate.ts` | none | chooseTurnFor | engine | weights, noise and look-ahead added up; two colours, two variants | never refused; never misses a win; plays both colours alike |
| **Matchmaking** `apps/api/src/matchmaking` | `mm:queue:<mode>`, `mm:ticket:<mode>:<user>`, `mm:usermode:<user>` | join, leave, tryMatch, sweep, disconnect | lock, game service, sockets | join, leave and disconnect of the same player in any order, command by command; passes of all modes | no ticket makes two matches; waiting players are paired; who left is not queued |
| **Invites** `apps/api/src/game/invite.service.ts` | `invite:<code>` | create, accept, cancel | game service, matchmaking sockets | check-then-delete with two friends and a cancelling host; a push to a socket that is not in its room yet | one match per code; none after the cancel; host told |
| **Presence** `apps/api/src/realtime` | a connection counter per user, the online set | connect, disconnect | Redis | DECR/DEL/SREM against INCR/SADD; node crash; the counter's hour | online set = connected users |
| **Progression** `apps/api/src/progression` | ratings, streaks, statistics; the friends' records are read from the matches | applyGameResult in the result transaction | PostgreSQL | read-modify-write in READ COMMITTED; row locks in seat order | every game counted once; ratings add up; a result refused only where seats are exchanged |
| **Sessions** `apps/api/src/auth`, `apps/web/src/lib/api.ts`, `store/auth.store.ts`, `hooks/useBootstrap.ts` | refresh-token rows in families; the stored refresh token, each tab's access token | login, rotate, request, logout, bootstrap | PostgreSQL, local storage | two tabs refreshing with one token; an answer that is lost; reuse detection | one usable token per family; an honest client stays logged in; the splash screen ends |
| **Account status** `users.service.ts`, `jwt-auth.guard.ts`, `ws-auth.service.ts` | `auth:user:<id>` for half a minute | getAuthContext, canActivate, authenticate | Redis, PostgreSQL | a lookup that reads before a ban and fills the cache after it | no decision on a status older than the cache and two lookups |
| **Throttle** `apps/api/src/game/anti-cheat.service.ts` | two expiring counters per player | allow, recordViolation | Redis | INCR and PEXPIRE are two commands | who is throttled is let off |
| **Turn builder and game screen** `apps/web/src/game/turn-builder.ts`, `screens/GameScreen.tsx` | boards, moves and dice of the turn being built, hop timers, `busyRef` | play, undo, candidates, moveOptions; tap, undo, pass, hop | the engine's move generators, game socket | timers between taps, undo and new views; the client decides alone that a turn is complete | offers exactly what can become a legal turn; never stuck; not deaf |
| **Game pages** `game.gateway.ts`, `apps/web/src/store/game.store.ts` | socket rooms; the current view and the list of who is online | join, disconnect, broadcast, reconnection | all gateways | an acknowledgement overtaken by a broadcast; a socket that breaks | the newest view is shown; the list is the server's |
| **Board on the screen** `apps/web/src/components/GameBoard.tsx`, `game/board/BoardRenderer.ts` | the renderer, the position shown, glides and dice in motion | create, dispose, render, tick, pointAt, resize | Pixi | asynchronous creation; a new position while checkers glide; a turned screen | what rests is what was last given; a tap addresses what it touches |
| Telegram sign-in, textures, sound, texts, infrastructure | little or none | | | | see section 6 |

The complete list of hazards, each at its source line and with the properties
that cover it, is in `PROJECT.json` (`hazards`).

---

## 2. The modules

```
  A <- B: B extends A;  A <= B: B has instances of A

  MatchLifecycle <= GameRoom <- MCGameRoom              GameRoom implements MatchLifecycle
  NardaBoard <- NardaTurns <- GameState <- AIPlayer
                              GameState <- TurnBuilder <- MCTurnBuilder
  GameStateProofs, AIPlayer <= MCEngine
  BoardLayout <- BoardView
  MCTurnBuilder, BoardView <- MCClient;  GameClient <= MCClient
  Matchmaking <- MCMatchmaking
  Invite <- MCServices;  Session, Presence, IntentGuard, AuthCache, ProgressionProofs <= MCServices

  proofs:  GameRoom <- GameRoomProofs          GameState <- GameStateProofs
           TurnBuilder, GameStateProofs <- TurnBuilderProofs
           Matchmaking <- MatchmakingProofs    MCEngine <- EngineProofs
           Progression <- ProgressionProofs    MCServices <- ServicesProofs
           MCClient <- ClientProofs
```

**`MatchLifecycle` -- what a match promises.** The abstract specification: a table
is open, turns are played on it, one result may be recorded and is final, then
the table closes. No lock, clock, store or tasks. A forfeit names the player to
move as the loser; nothing is played once a result exists; a table is dropped
without a result only if nobody ever played.

**`GameRoom` -- the game service, the lock and the sweep.** One live match. A
service method is one `await` after another, so *an action is one remote call and
the code that runs until the next one*; `job[t]` is the local state of an
asynchronous task (where it is, its local copy of the room). Tasks are slots:
`Requests` for client calls and the AI loops they turn into, `Sweeps` for runs of
the `@Interval(1000)` sweep.

| TLA+ | code |
|---|---|
| `store`, `zset`, `online`, `lock`, `db` | `game:room`, `game:deadlines`, `game:online`, `lock:game`, match row with its event log |
| `Submit`, `Join`, `Watch`, `Leave` | the gateway handlers and HTTP calls |
| `Acquire`, `GiveUp`, `Unlock` | `withLock`: `SET NX PX`, retries, the token-checked script |
| `LoadIntent`, `LoadJoin`, `LoadAI`, `LoadSweep` | the bodies of `applyIntent`, `startClock`, `advanceAi`, `applyTimeout` up to their first write |
| `Arm`, `Save` | `commit` of a game that goes on: ZADD, then SET |
| `Unarm`, `Persist`, `Clear`, `Remove` | `commit` of a game that ends: ZREM, transaction, two DELs |
| `Announce`, `Release` | the broadcast, and `finally` of the lock |
| `Drive`, `Resume` | `maybeAdvanceAi`, and the pause of the AI loop |
| `SetDeadline` | `setDeadline`: bill the previous clock, arm the next |
| `CallFails`, `Crash`, `GiveUp`, expiry in `Tick`, `RoomExpires` | faults, see the `Faults` constant |

The rules are abstracted to what the service looks at: seat to move, phase, the
number of events, the result. The service creates every game without the cube,
so a double is always refused and is not an intent of the model. `db.commits`
counts committed result transactions; a second one is rejected by the unique
`(matchId, seq)` of the event log. `sent` and `overtime` are history variables.

**`NardaBoard`, `NardaTurns`, `GameState` -- the rules engine.** Both variants in
one model, chosen by `Variant`; the board's size, the number of checkers, the home
board and the die are constants (24, 15, 6, 6 in the code). `NardaBoard` has
geometry, queries, mutators (with `Throws` for the calls on which the code throws)
and the moves of one die; `NardaTurns` the depth-first enumeration as the set of
all lines of play, the maximal turns with the higher-die and head rules, and the
server's move-by-move validator, which is separate code in the source and is kept
separate here; `GameState` the state machine, one action per public method. A
submission ranges over every move sequence that is legal move by move, so
`playTurn` really exercises the validator.

**`AIPlayer` -- the computer player.** Extends `GameState` with the levels, the two
evaluations of backgammon, the one of Long Narda, the noise and the expectation
over the opponent's replies. Scores are scaled so that every weight is an
integer. A choice is a set: the boards that some noise and some order of equal
scores can bring to the top. `playAi` plays one of them through the validator, as
the service does.

**`TurnBuilder` -- the client building a turn.** Extends `GameState` (the server)
with one client: the builder, the timers that play the hops of a combined move,
the builder those timers still hold on to after the screen has replaced it
(`detached`), `busyRef`, and the submitted turns on their way.

**`Matchmaking` -- queues, pairing and the searching clients.** One action per Redis
command of `join`, `leave` and the pass under the per-mode lock (the scores first,
the tickets next, a greedy pairing of neighbours, then for each pair, first to last,
the removal of both tickets, `createGame` and the notification). A pass holds its
pairs as a set; the order of the queue is the order of the scores it has read, and
the outcome of the double loop is described (every pair of neighbours is taken unless
its window forbids it or its first player is taken) rather than computed. The clients search,
cancel, search again, and are told of a match only if their present socket is in
their room.

**`Invite` -- playing with a friend.** The codes in Redis, the host's lobby
(`createFriendGame`, `cancelSearch`) with its POST and its waiting socket, and
friends who redeem a code they were sent, each call by its remote steps; broken
connections and failing `createGame` as bounded faults.

**`Session` -- one user's tokens and tabs.** A refresh token is its index in
`rows`; `stored` is the local storage that all tabs share; a tab runs
`useBootstrap`, requests that may meet a 401, and the single-flight refresh of
`api.ts`; a call is `rotate` by its queries. Every client is honest.

**`Presence` -- the counter and the online set** of one user with sockets on several
nodes. A node's commands go to Redis in the order sent, its handlers continue on
replies; commands of different nodes interleave; nodes die, the key expires.

**`Progression` -- the result transactions** in READ COMMITTED with row locks: the
snapshot of both players, the increments, the overwritten streaks and ratings,
deadlock detection; and the head-to-head records that `findFriendsWithStats`
computes from finished matches. The formula of the rating is abstracted to a
stake that depends on who is the favourite.

**`IntentGuard` -- the throttle**: the two counters with their expiry, `handleIntent`
around them, a crash between INCR and PEXPIRE. **`AuthCache` -- the account status**
behind every request: the cache, lookups with bounded latency, bans.

**`BoardLayout`, `BoardView` -- the board on the screen.** `BoardLayout` is the
geometry in integers: where points, checkers, bar and tray are drawn, how `resize`
fits and turns the stage, how `pointAt` inverts it, and `diffMoves`, which guesses
the glides from two positions. `BoardView` is the life of a renderer: creation that
completes later with the props of its beginning, disposal, `render` during a
glide, ticks of the animations.

**`GameClient` -- the pages of a match.** The sockets of one instance, `onJoin` by
its steps (enter the room, start the clock, mark online, broadcast, read the
view, answer), disconnects, broadcasts, and pages; a view is the number of the
saved state, what happens between two is `GameRoom`.

**MC modules.** `MCEngine`, `MCServices` and `MCClient` put several instances into one
run. They share no state: the variable `part` (or `variant`) is chosen initially, one
instance runs and the others stay as they are; every property is guarded by its part.
This costs nothing in coverage of behaviours (the instances do not interact in the code
either) and saves a run per service. The sizes are constants of these modules too, given
small values in the configurations only, so that the theorems of `EngineProofs`,
`ServicesProofs` and `ClientProofs` speak of the very properties that TLC checks, for
every size. What a component assumes of its constants is its operator `ConstantsOK`; the
MC modules assume it of their instances (`ServicesAssumption`, `SidesAssumption`), and
`EngineAssumption` says of which sizes and starting positions the two games may be.
`EveryTurnCanBeBuilt` and the two wrong sequences of the client have runs of
`MCTurnBuilder` alone.

---

## 3. The model-checking runs

Run one with `tlc -workers 2 -config <cfg> <module>`. Every property of a passing
run has at least one *mutant* in `PROJECT.json`: a definition changed the way a
plausible bug would change it, under which TLC finds that property violated. A
property that is a conjunction of named parts has mutants for several of them.

| run | question | result |
|---|---|---|
| `room_safety` | two concurrent requests and a sweep, one aborted or failed write, crash or lost retry: is everything the room promises kept? | holds |
| `room_live` | against an AI, with an aborted write: is the AI always driven, a running clock always watched, does the room implement `MatchLifecycle`, does a silent game end, is a recorded room removed? | holds |
| `room_lock_expiry` | can a section outlive its lock key and discard a saved step? | it can |
| `room_final_fault` | does a silent game still end if the final commit fails once? | it need not |
| `engine` | both variants, by people and by the computer: the rules | holds |
| `builder_undo` | the Undo button while hops are due | leaves the board deaf |
| `builder_bear_off` | can every legal turn be tapped in? | not every one |
| `builder_last_checker` | is a turn the client calls complete accepted? | not always |
| `matchmaking_pairs` | does no ticket make two matches, are searching players paired? | holds |
| `matchmaking_ghost` | is who stopped searching out of the queues? | not always |
| `services` | invites, sessions, presence, progression, throttle, account status | holds |
| `client` | does the turn builder stay on a maximal turn and offer one; the board on the screen; the pages of a match | holds |

**What the passing runs show.**

- *`room_safety`*: the armed clock is the actor's with the right expiry
  (`ClockOnActor`); nobody loses on time before having spent the whole bank
  (`BankSpentBeforeForfeit`); what was announced stays saved
  (`AnnouncedIsDurable`); no write discards a saved step (`NoLostUpdate`); a result
  is recorded once though the final commit fails half-way and is made again
  (`RecordedOnce`).
- *`room_live`*: `AIDriven` says that `maybeAdvanceAi`'s unlocked check never leaves
  an AI turn without a task (as long as no fault occurred: a dead loop is
  restarted only by the next request); `Watched`, that between writes a running
  clock is where the sweep looks; `ImplementsMatch` is the refinement, whose
  mapping reads the turn and the number of events off the saved room and the result
  off the match row; `InactivityEndsGame` and `RecordedGameCloses` are liveness.
- *`engine`*: `StateOK` (types and conservation of checkers); `ValidatesWhatItGenerates`
  compares the two implementations of legality in every reachable position with
  every roll; `NeverStuck`: there is always a turn, and no mutual block, the only way
  passes could alternate for ever; `MutatorsNeverThrow`; `TurnsObeyRules` (direction,
  head rule, no pass that could be played); `CubeChangesHands`; `ResultFitsBoard`; and
  `AIPlays`: no level goes for a turn the game refuses, no mixture of weights, noise
  and look-ahead makes a level miss a turn that wins (except the one that plays Long
  Narda at random), and in backgammon mirrored positions are valued alike.
- *`matchmaking_pairs`*: `TicketsOK` counts matches against tickets written;
  `EventuallyPaired` excuses a player who cancels or starts over, and a failed
  `createGame`.
- *`services`*: `InviteOK` -- one match per code and none after a confirmed cancel;
  `HostTold` -- a lobby on show is told of the match its code made, if its socket stays
  up. `SessionOK` -- one usable token per family and an honest client that stays logged
  in, as long as refreshes neither overlap nor lose their answer, and reuse is only
  ever seen after they did; `SplashEnds`. `PresenceOK` -- never overcounts, and on one
  instance that does not die the set is right when nothing is under way, but for a
  connection that opens in the middle of the removal of the last one. `RecordsOK` --
  every game is counted once for each player, ratings are the sum of what the games
  say, and records stand, unless two games of one player are recorded at once; a
  result is thrown back only where seats are exchanged; two friends are shown records
  that agree with each other and with the statistics. `GuardOK`, `CountersForget` -- nobody
  is flagged early and everybody is let off in the end. `AccountOK` -- a decision rests on
  a status that is not older than the cache's life and two lookups.
- *`client`*, the turn builder: `BuilderOK` -- the builder is on a line of the engine's
  search that still uses as many dice as possible, and what it calls complete is maximal;
  `SomethingOffered`; `MissesOnlyBearOffs` -- every legal turn can be tapped in, unless it
  bears two checkers off with the lower die rolled first (divergence 5);
  `BusyOnlyWhileHopping`, which holds as long as Undo is not pressed between hops.
- *`client`*, the screen: `TapHits` -- in every orientation and size a tap on a target or a checker
  addresses it; `BoardOK` -- one renderer, glides make the next position of the one
  shown, what rests is what was last given; `ComesToRest`; `ShowsNewest`, `BackOnlyByJoin`
  and `RosterOK` for the pages. Where the conditions in these are needed is said at each
  property and in section 5.

**Bounds and why they suffice.**

- *Room*: two request slots and one sweep. Every race in the code is between two
  holders of a local copy and a third party that acts on a deadline; the AI loop
  occupies a request slot. `Horizon` 2 ticks, grace 1--2, a bank of 1 and a lock life
  of 1--2 ticks: requests arrive before the grace is over, within the bank, at the
  deadline and after it. Past the horizon only time, sweeps and work in flight go on,
  up to `MaxTime`, which is beyond every deadline ever set. `MaxEvents` 3 lets a game
  start, be resigned, forfeited or won, and the turn pass to the other seat.
  `MaxFaults` 1: each recovery path starts from one fault. Symmetry is used on the
  request slots only, and not for liveness.
- *Engine*: Long Narda on six points with three checkers a side, backgammon on four
  points with four. Faces 1 and 2 give equal, unequal, higher and lower dice;
  two-point homes tell exact from larger bear-offs; three checkers on the head suffice
  for the head rule's one-or-two; on four points hits, blocked entries and a closed
  board are frequent. The cube goes to 2: it is turned once and then capped. The
  computer plays on four points with three checkers; EXPERT looks beyond 2 and
  GRANDMASTER beyond 4 candidates instead of 6 and 12, so that the limit cuts
  something off. Walls of two made points need four checkers of one side: there the
  bonus for them is never paid on so small a board.
- *Builder*: Long Narda on six points with two checkers and dice of three faces, in every
  position of that game: combined moves, two checkers leaving the head and bear-offs occur.
  Three faces are needed: with two, the case of divergence 5 does not occur and
  `EveryTurnCanBeBuilt` holds. One submission is in flight; taps wait while it is.
- *Matchmaking*: two players, two slots for requests and disconnects besides the sweep;
  one player may search twice. Window steps 0 and 1 with ratings one apart: the pair is
  outside the window at first and inside it later. The violated run has both queues.
- *Services*: two friends, a host who opens two lobbies and one fault; two tabs and two
  calls, two expiries, one failure, reload or logout; two connections on two nodes; three
  players of whom two meet twice in exchanged seats while one plays a third twice, or an
  AI match beside others; two pages against limits of two and windows of two ticks; two
  lookups with a cache of two ticks and a latency of one. Each is the smallest number with
  which the race in question happens.
- *Client*: three positions with a hit, an entry and a bear-off between them, three
  renders and one turn of the screen; two players, three states, one lost socket. The
  geometry is the real one, with 24 points and stacks of fifteen.

**Fairness.** `GameRoom!Fairness`: the event loop resumes every await of every task, the
interval timer keeps firing, and time passes. `Matchmaking!FairSpec`: Redis answers every
command, the sweep runs on, tickets age. `MCServices`: calls that were made are answered
or fail, handlers go on, key expiries happen. `MCClient`: the ticker runs and images
arrive. This is what Node's event loop, `@Interval`, Redis and the browser provide. Nothing
is assumed of people: they need never act. No strong fairness is used: a task that keeps
finding the lock taken is not promised it. Running out of retries is an action of its own
(`GiveUp`), in `GameRoom` one of the counted faults, because 100 tries 50 ms apart wait as
long as the longest life of the key.

**Deadlock** is not checked: a finished game, a client that does nothing more and the end
of a bounded number of calls are proper ends in every run.

---

## 4. The proofs

`tlapm <module>.tla` checks each of these modules. They prove, for every value of the
constants (any number of tasks, players, friends, tabs, requests, of codes, modes,
faults and steps of time, any windows, limits and lifetimes; either variant on a board of
any size, with any number of checkers and any die that `ConfigAssumption` allows):

| module | theorem | property | holds under |
|---|---|---|---|
| `GameRoomProofs` | `TypeCorrect` | `TypeOK` | every fault |
| | `ClockCorrect` | `ClockOnActor` | every fault |
| | `ResultOnce` | `RecordedOnce` | every fault, even when the lock does not exclude |
| | `LockExcludes` | `Exclusive` | `NoExpiry` |
| | `NothingAnnouncedIsLost` | `AnnouncedIsDurable` | `NoExpiry` |
| | `NothingSavedIsLost` | `NoLostUpdate` | `NoExpiry` |
| | `ViewsInOrder` | `AnnouncedInOrder` | `NoExpiry` |
| | `NobodyForfeitsEarly` | `BankSpentBeforeForfeit` | `NoExpiry`, `LOCK_TTL <= PER_MOVE` |
| | `AIIsDriven` | `AIDriven` | `NoExpiry` |
| | `ClockIsWatched` | `Watched` | `NoExpiry`, `NoFinal` |
| | `RoomImplementsMatch` | `ImplementsMatch` | `NoExpiry`, `NoFinal` |
| `GameStateProofs` | `CheckersAreConserved` | `StateOK` | |
| | `ValidationAgreesWithSearch` | `ValidatesWhatItGenerates` | |
| | `ATurnIsAlwaysAccepted` | `AlwaysATurn` | |
| | `SearchNeverThrows` | `MutatorsNeverThrow` | |
| | `EveryTurnObeysTheRules` | `TurnsObeyRules` | |
| | `CubeGoesToTheOtherSide` | `CubeChangesHands` | |
| | `ResultsFitTheBoard` | `ResultFitsBoard` | |
| | `NobodyIsBlockedForEver` | `NeverStuck` | `MAX_DIE > 1`; in Long Narda `POINT_COUNT > 4` |
| `EngineProofs` | `GamesKeepTheirCheckers` | `StateOK` | |
| | `TheJudgeAgreesWithTheSearch` | `ValidatesWhatItGenerates` | |
| | `GamesAreNeverStuck` | `NeverStuck` | |
| | `TheMutatorsNeverThrow` | `MutatorsNeverThrow` | |
| | `ResultsFitTheirBoard` | `ResultFitsBoard` | |
| | `TurnsAreThoseOfTheRules` | `TurnsObeyRules` | |
| | `CubeGoesToAndFro` | `CubeChangesHands` | |
| `TurnBuilderProofs` | `OnlyMaximalTurnsAreBuilt` | `BuilderOK` | `~UndoWhileBusy` |
| | `APlayerIsNeverStuck` | `SomethingOffered` | `~UndoWhileBusy` |
| | `DeafOnlyWhileHopping` | `BusyOnlyWhileHopping` | `~UndoWhileBusy` |
| | `TheClientPlaysTheGame` | `Spec` of `GameState` | `~UndoWhileBusy` |
| `MatchmakingProofs` | `NoTicketMakesTwoMatches` | `TicketsOK` | |
| `ServicesProofs` | `InvitesMakeOneGame` | `InviteOK` | |
| | `SessionsAreKept` | `SessionOK` | |
| | `PresenceIsRight` | `PresenceOK` | |
| | `RecordsAreRight` | `RecordsOK` | |
| | `FlagsAreRight` | `GuardOK` | |
| | `StatusesAreRecent` | `AccountOK` | |
| `ClientProofs` | `ClientShowsTheNewest` | `ShowsNewest` | |
| | `ClientRosterAgrees` | `RosterOK` | |
| | `ClientGoesBackOnlyByJoining` | `BackOnlyByJoin` | |
| | `TheBoardKeepsUp` | `BoardOK` | |
| | `TapsHitAtEverySize` | `TapHits` | |

*Assumptions.* The named `ASSUME`s of the modules, which TLC evaluates in every run. For
modules that are instantiated they are the operator `ConstantsOK`, which `MCServices` and
`MCClient` assume of their instances (section 2): the bounds are natural numbers, the
special values (`NoToken`, `NoUser`, `Nobody`, `NoView`) are none of the real ones; a match has one
player or two different ones; in all positions a screen is told to show, a side has as many checkers
(`PositionsOK`), which is what the engine keeps (`StateOK`). Of the engine,
`BoardAssumption` and `ConfigAssumption` (in `MCEngine`: `EngineAssumption`) ask: the home
board is at most half of the board, a die has no more faces than the home has points (and at
least one), the starting position holds all the checkers of either side, the highest cube is
a power of two. The rest:

- `NoExpiry`: `"expiry"` is not among the faults, that is, no section outlives the life of
  its lock key. It is needed: `room_lock_expiry` is `NoLostUpdate` without it, violated.
- `NoFinal`: `"final"` is not among the faults: no step of the commit that ends a game
  fails. `room_final_fault` shows what happens otherwise: a room with a running clock
  leaves `game:deadlines` and is never swept again.
- `MAX_DIE > 1`, `POINT_COUNT > 4`: with a die of one face two made points that face each
  other block both sides for ever, and a Long Narda of four points has two homes and nothing
  between them. The code's board has 24 points and six faces.
- `LOCK_TTL <= PER_MOVE`: the life of the lock key (5 s, `redis-lock.service.ts:28`) is no
  longer than the grace of a move (15 s, `game.service.ts:48`). With `LOCK_TTL = 3` and
  `PER_MOVE = 1` TLC refutes `BankSpentBeforeForfeit`: `setDeadline` reads the time when the
  section begins, and a save that happens more than a grace later has the new clock run
  backwards into the bank of a player who could not yet have moved.

### The room

*The first invariant*, `IInv == TypeOK /\ Carried /\ ClockOnActor /\ Record`.
`ClockOnActor` alone is not inductive: `Save` writes a task's *local* room, so what a task
carries between its load and its writes must be known too. `Carried` says per program
counter that the carried room has a correct clock when it is to be saved, and a result
when it is to be persisted. `Record` ties the number of commits to the stored result. None
of it needs the lock.

*The second*, `LInv == IInv /\ Held /\ Known /\ AnnouncedIsDurable`. `Held` says
that a task inside its section owns the key and the key is alive, which is what `NoExpiry`
buys (`Tick` may not reach the expiry). `Known` says what a holder may rely on: the room it
carries is at least as new as the saved one and as everything announced; after the save,
it is the saved one. From `Held` exclusion follows at once, and exclusion makes `Known`
stable: no step of another task can touch the room while one is inside.

*The third*, `SInv`, is about the course of the match. A saved room is never over and has a
clock unless nothing has happened yet (`RoomOK`); a room about to be saved is the present one
or one step further (`Follows`). While no final commit fails (`Steady`), a recorded match whose
room is still there is about to lose it (`Recorded`), a running clock is in the sorted set or
a task is between taking it out and persisting (`Watching`), and while a task writes no
result is recorded yet, and the one it is about to record is one the rules give for the
saved game (`Settles`). `Watched` is read off it.
The refinement uses it action by action: `StepImplements` maps `Save` to a turn, `Persist`
to the end of the match, `Remove` to the closing of the table and everything else to a
stutter, and it needs `Follows` for the first, `Settles` for the second and `Recorded` for
the third.

*The fourth*, `AInv`, is about the AI loop, as long as no fault has occurred: a task that
saves a room goes on to look whose turn it is, a loop goes on until it has seen that it is
not the AI's turn (`Minds`), hence whenever the AI is to move, some task is a loop or on its
way to becoming one (`Needy => \E t : Driving(t)`). The delicate step is a `Drive` that finds
a loop already running, or the turn already passed on.

*The fifth*, `BInv`, is the account of the reserve banks: what a seat has left and the time
it has spent beyond the grace (the history `overtime`) together make up the bank, with the
time by which the present clock is overdue on top (`Banked`); for a task about to save, the
clock it has armed began at most a lock's life before the key expires (`Banks`), which is
where `LOCK_TTL <= PER_MOVE` comes in.

The proofs go action by action (`QuietActions`, `WriteActions`, `EnvironmentActions` for
`IInv`; `OutsideActions` to `OutsideWorld` for `LInv`; `Steady...`, `Drive...` and `Bank...`
for the others), over lemmas on how each helper moves a task's record. `Exclusive` and
`AnnouncedInOrder` are proved and therefore in no run.

### The engine

`GameStateProofs`. *The invariant* is `EngineInv == TypeOK /\ Conserved /\ StillOn /\ OfferOpen
/\ ResultFitsBoard`. Conservation is stated without a sum: the checkers of a side on the
points are as many as the pairs of a point and a height up to what stands on it, the
cardinality of a finite set, so that moving one is adding and removing one element.
`StillOn` (nobody has borne off everything in a game that goes on) and `OfferOpen` (a double
waits for an answer only if its doubler was allowed to offer) are what `ResultFitsBoard` and
the cube need.

*One move.* A board is `Sound` when it has its checkers and no point has both sides.
`MoveKeepsSound` proves, for a legal move of either variant, that the mutators do not throw
and leave a sound board; `MoveGoesForward` that the mover has, beyond every distance from
home, no more checkers than before (`Behind`).

*Lines.* The search plays one, two or four dice, so its recursion is unfolded instead of
induced over (`LinesFromIs`, `PlayedIs`): what it collects are the lines of at most four
`Extends`, and `LineOK` (the board is sound, the mover has come nearer and the other side has
been set back by hits only, no more checkers have left the head than allowed) passes along
each. The validator's own fold follows the same moves
(`PlayedBack`): a submission that is legal move by move is a line of the search and the other
way round. On top of that, `MaximalAre` and `AcceptedAreMaximal` compare the two statements of
the maximum-dice, higher-die and head rules (`Pruned`), which is
`ValidatesWhatItGenerates`; `TheTurn` gives an action of the game the line it plays, and
`TurnsObeyRules` follows from it.

*Never stuck.* That the game cannot end in passes for ever (`SomeoneCanMove`) needs one more
invariant in backgammon, `NobodyShut`: if both sides have a checker on the bar, one of them can
enter. It is kept because a checker is sent to the bar only by a move, and a side that has moved
with checkers on its bar has just entered at a point that its opponent does not hold. Then, of a
side that has nobody on the bar and still cannot move with any die, look at its checker with the
longest way: every point up to the largest die before it is a block of the opponent
(`StuckBehindABlock`), and a checker of such a block can step onto the next point of it
(`ShortMoves`). In Long Narda it cannot if the two points lie on either side of the opponent's
head, so that both sides may be stuck with dice of two faces; then the blocks meet, and the board
has no more than four points (`LongMoves`).

*The two games of the runs.* `EngineProofs` extends `MCEngine`, whose games are instances of
`GameStateProofs`: the assumptions of the engine follow from `EngineAssumption`, a run of
`MCEngine` is a behaviour of the instance that `part` names (`LongIsPlayed`,
`ShortIsPlayed`) with the variables of the others unchanged, and each theorem is the
instance's own.

### The turn builder

`TurnBuilderProofs`. *The invariant* is `ClientInv == EngineInv /\ BuilderNow /\ HopsDue /\
SentTurn /\ TurnStays`. `BuilderOK` speaks of the moves made so far; inductive is that the
whole history of boards, dice and moves kept for Undo is a trail of lines of the search, each
one move longer than the one before, from the start of the turn to where the builder stands,
and each able to reach the length of the turn (`Built`, `Goes`). `play` goes one line on
(`PlayBuilt`: what `LongestNext` lets through still reaches that length), `undo` one back
(`UndoBuilt`); that the builder counts the dice left over while the search removes them from a
list is `DiceFit`.

*Timers.* `HopsDue`: what the timers are still to play is a path of moves, each of which the
builder will offer when it is its turn (`Due`, `ChainIsDue`, `DueFirst`): the path was
computed when the checker was tapped, so this is where a step between two hops could break
it. Nothing does unless Undo is pressed, hence the hypothesis `~UndoWhileBusy`, without which
`builder_undo` is violated. `TurnStays`: the game is over or still at this turn while hops are due
or a submission is under way. `SentTurn`: what is under way is a line of the search of this
turn, so what the server plays of it is a turn of the game (`DeliveredIsPlayed`). That it plays
it at all is not promised: see divergence 3 in section 5.

*Never stuck.* If a line can still go on, some move of the search's next line is offered
(`OnwardsExist`), whatever the builder's own ranking keeps of several (`SomeRankFirst`), and
its origin has a target (`SourcesHaveTargets`). Not every *turn* can be built: looking for this
proof is what led to divergence 5, which dice of two faces had hidden.

### Matchmaking and the services

*Matchmaking.* `TicketsOK` counts matches against tickets written, per mode and player. The
counting becomes inductive when what lies between the two is counted too (`Counted`): behind
a ticket that lies in Redis there is one written ticket that no match has used up; the same
for a player whom a pass is going to match and whose ticket it has not removed yet (`Due`);
and behind a player whose ticket it has removed (`Taken`) there is one more, so a ticket that
a quick rejoin writes meanwhile is a second one. A match uses up the taken one. That needs
two facts: no other pass of the mode is under way (`LockOK`, the lock is held exactly while a
task is inside), and the pairs of a pass have no player in common (`PairsApart`; lemma
`GreedyApart` derives it from the rule of the double loop).

*Invite.* A code is either free (not made yet, or in Redis and unclaimed), or claimed by the
one friend whose `DEL` returned 1, or its match is made: `InvitesOK`, `ClaimsOK`. `GoneOK` adds
that a code that is cancelled or used never comes back, for the lobby's number only grows;
`HostOK` ties the host's calls to the present lobby.

*Session.* Tokens belong to families (`FamiliesOK`); as long as refreshes neither overlap nor
lose their answer, at most one call is under way (`Alone`); what a call has looked up or made is
still so if no other call is under way (`CallsOK`), hence one live token per family
(`OneLivePerFamily`); a call that was sent carries a usable token, and the stored one is usable
or being replaced (`StraightOK`), and who was logged in stays so (`LoggedInOK`).

*AuthCache.* The invariant bounds ages: a cache entry that is not the present status was
written at most one latency after the change (`CacheAge`), and what a lookup holds was true
when it began (`LookupAge`).

*Presence.* `PresenceInv` says three things of the queues of commands on their way to Redis.
`Basic`: the commands of a socket stand in the order in which its handlers issued them, and a
socket that closes while its `INCR` is queued has its `DECR` behind it. `Counts`: the counter is
at most the number of sockets whose `INCR` has been carried out and whose `DECR` has not, and
exactly that as long as nothing crossed, expired or crashed. `Leaves` and `Stays`, per node: if
all sockets are on this node and nobody is counted, the user is off the set, or the `DEL` or `SREM`
that takes him off stands behind everything that would put him on; and the other way round.

*Progression.* `ProgressionProofs`, of any players and matches. The invariant `RecordInv` says
of each transaction how far it is (`Ordered`: as many snapshots, rows and ratings as seats it has
been through), that it has locked exactly the rows it has updated (`Holds`), and that the
counters it is going to write are the *present* ones and one more (`Counts`). The last is where the locks
are needed: a commit changes rows that it holds, so no other transaction has updated them
(`Exclusive`), and `GamesCounted` follows. For the ratings, snapshots must be current too
(`Current`), which holds while transactions of one player never overlap (`Apart`).

*Sums.* `SumFunctionOnSet` is a fold of the community modules, a recursive function inside a
`CHOOSE`. That it exists, is unique, grows with one summand, and counts disjoint sets
(`FoldExists`, `SumIs`, `SumGrows`, `SumOfApart`) is shown by taking a least subset for which it
fails (`LeastSet`), since the library's induction theorems cannot be instantiated. `SumGrows` is
the commit in `RatingsAddUp`; `SumOfApart` puts the head-to-head records of a user side by side:
no game is shown for two friends, so together they are at most the user's statistics.

*Deadlocks.* A transaction that is in a deadlock is on a cycle of waits (`DeadlockIsACycle`). Each
waits for statistics, never for a rating, since that row's holder locked the same player's
statistics before (`WaitsForStatistics`); who is waited for and waits has locked only its first
player (`WaitsForTheFirst`). So along the cycle each match leads from its first player to its second,
and on to the one that waits: the players of the aborted match are reached in the other order too
(`DeadlockNeedsExchange`).

*IntentGuard.* At most one violation is without a time to live, the first, and its task is the
one about to set it (`FirstExpires`); with it the counters stay within limit and window, and
who is flagged has been counted up to the threshold.

### The board and the pages

*The board.* `BoardInv` follows the position from the props to the rest of the glides:
`CapturedOK` (a creation that nobody disposed of has the newest props, unless they changed while
it ran), `PoseOK` (and stands as the screen does), `Showing` (only a position that glides is
followed by another one), `Follows` (what the glides lead to, `HeadsFor`, is what was last given,
unless a creation was overtaken or a position was taken back during a glide -- divergence 12),
`DiceKnown`. Its steps are those of the component; `RenderKeeps`, `LandedKeeps` and
`SettledKeeps` go through `render` and the ticker.

*The glides.* That `diffMoves` leads from any position to any other (`EveryGlideLands`) does not
depend on which checker it pairs with which target, only on how often each occurs. `FlattenSeq`
of the points is a row of 24 joins (`FlattenIs`); what it holds and how long it is goes from
point to point (`PointByPoint`, from the least point that fails), so a point is in `leaving` as
often as it loses checkers and in `dests` as often as it gains some (`LeavingCounts`,
`DestsCounts`). Neither list is cut off: they are as long as each other because the side has as
many checkers before as after (`RowsDiffer`, `AsManyComeAsLeave`). Lifting the one and landing
the other then gives the next position, point by point, bar and tray (`GlidesLand`), unless a
checker in the tray is taken back, which `diffMoves` does not look for.

*Taps.* `TapsHitAtEverySize` is arithmetic: what `resize` scales, turns and flips, `pointAt`
divides, turns and flips back (`Undone`), and in the logical coordinates every marker and
every disc of a full stack of fifteen lies within the area of its target (`OfMarker`,
`OfDisc`). It also showed that the areas of the bar, the tray and the points overlap at
their edges: the order of the tests in `pointAt` decides, and so it does in `BoardLayout`.

*The pages.* `PagesInv` has a part per difficulty: `Sockets` (what a broken socket leaves
behind, and which of a page's states go with which of the server's), `Answers` and
`HasShown` (what a join has read and a page shows exists), `Newest` (a page in the room
whose answer was not overtaken has the newest view, or the broadcast of it is still to come,
and an answer on its way holds it too), `Told` (with no presence event on its way, a page in
the room has the server's list of who is online) and `Marked` (whose only page is in the
room is on that list). The three properties are read off it.

*Theorems of MC modules.* `ServicesProofs` and `ClientProofs` prove each property for the
component itself and carry it over: `part` never changes, so a behaviour of the whole is one of
the component that runs, and of the others nothing happens.

### What is only model-checked

- Every liveness property: the prover does not reason about `ENABLED` and fairness. That is
  `InactivityEndsGame`, `RecordedGameCloses`, `EventuallyPaired`, `HostTold`, `SplashEnds`,
  `CountersForget`, `ComesToRest`.
- `MissesOnlyBearOffs`, which asks for a sequence of taps per line, and `AIPlays`, whose scores
  are sums over a board.

---

## 5. Divergences between the code and what it says

Shown by a run that TLC refutes (`findings` in `PROJECT.json` quotes the lines):

1. `redis-lock.service.ts:28`: the key expires after 5 s and writes are not fenced, so two
   sections can interleave although the comment at line 15 says they never can
   (`room_lock_expiry`).
2. `game.service.ts:348`: `commit` takes the match out of `game:deadlines` before the result
   transaction. If that fails, the room stays, with a deadline but without a member of the
   set: no sweep finds it and `startClock` returns early, so an inactive player never forfeits
   (`room_final_fault`).
3. `turn-builder.ts:166`: with one checker left that either die bears off, the option offered
   carries the die rolled first; if that is the lower one the server refuses the turn the
   client calls complete (`builder_last_checker`).
4. `GameScreen.tsx:151`: Undo is not held back while hops are due; the next hop throws inside
   its timer and `busyRef` stays set (`builder_undo`).
5. `turn-builder.ts:166`: of the chains of hops that take a checker to the tray, the builder
   keeps one, and with the lower die rolled first it is the one that plays that die on the way.
   With the last checkers on 6 and 2 and the dice 4 and 6 the only offer that takes the far
   checker to the tray is 6-2-off with both dice; the turn that bears off both checkers, and
   wins, cannot be tapped in
   (`builder_bear_off`).
6. `matchmaking.service.ts:66`: `leave` looks up what `join` writes last, so a leave handled
   during a join removes nothing (`matchmaking_ghost`).

Stated as a definition that no run claims, because it is false of the model; checking it
shows the behaviour:

7. `Invite!HostJoins`: "the host joins the game" (`matchmaking.gateway.ts:83`). A host whose
   socket broke is not told; on reconnection `invite:wait` is not sent again.
8. `Session!ReuseMeansTheft`: a token presented again is taken for stolen
   (`token.service.ts:17`), but two tabs of an honest user, or an answer that was lost, do the
   same, and the whole family is revoked.
9. `Session!FallsBackToAnonymous`: `useBootstrap.ts:6` promises to fall back to anonymous;
   `api.refresh` is awaited outside any `try`, and when its fetch rejects the splash screen
   stays.
10. `Presence!CorrectAcrossFleet`: "correct across a fleet" (`presence.service.ts:14`). On two
   nodes SADD and SREM of the same user interleave.
11. `GameClient!ResumesAfterDrop`: a dropped client resumes (`game.gateway.ts:42`), but
    `game:join` is emitted once only, so a socket that reconnects is in no room.
12. `BoardView!KeepsInSync`: the renderer is kept in sync (`GameBoard.tsx:27`), but it is handed
    the props captured when its creation began; and a position taken back while checkers glide
    towards it is not shown.

Seen while reading or modelling:

- `invalidateAuthContext` (`users.service.ts:35`) is called by nobody: a ban waits for the
  cache. Sockets are authenticated once, and `rotate` does not look at the status.
- A process that dies between INCR and PEXPIRE (`anti-cheat.service.ts:44`) leaves a counter
  without an expiry: the player is throttled for ever. A second tab's auto-roll is always
  rejected and counts as a violation.
- An auto-roll that is refused (`GameScreen.tsx:64`) is not repeated, for its effect depends
  on turn and phase only, and there is no roll button.
- A join still running when the match ends (`game.gateway.ts:89`) writes `game:online:<id>`
  again: the key has no expiry and nothing is left to remove it.
- With several instances a broadcast travels through the Redis adapter: views of two
  instances may arrive in the other order.
- `updateDice` (`BoardRenderer.ts:703`) keeps showing dice after the turn has passed, until
  there are new ones.
- `evaluateLong` (`long-narda/evaluate.ts`) looks for runs of made points from 1 to 24 for
  both colours, but Black's way goes over 24 to 1, and so does the way of the opponent of
  White: a wall there is counted as two, one across 12 and 13 counts for either. Mirrored
  positions are therefore not valued alike in Long Narda; `EvenHanded` claims it for
  backgammon only.
- `expectedAfterReply` (`ai-player.ts:107`) starts from the value of the unplayed board: an
  opponent whose every reply hurts is valued as if it could stand still.
- `game-state.ts:59` says that the cube is "forced off for Long Narda", `canOfferDouble` asks
  only the configuration; `GameScreen.tsx:272` speaks of 10 seconds of grace,
  `game.service.ts:48` gives 15.

---

## 6. What is left out, and why

- *Within the modelled parts.* Event logs, snapshots and views as data; texts and
  acknowledgements; the random source (a roll is any roll). `createGame` is modelled in
  `GameRoom` from its completion on (a crash inside it leaves an orphan row: listed as a
  hazard) and elsewhere as one step that may fail. A room's six-hour expiry happens only when
  no task is at work and no deadline is set; a watched room is swept within minutes. Client
  and server clocks are one clock, as only the server's is used. In `TurnBuilder` a change of
  the game reaches the client at once; what happens to views on the way is `GameClient`. In
  `Matchmaking` the lock does not expire (that hazard is `GameRoom`'s), the parallel ticket
  reads of a pass are one step, ratings do not change, and tickets do not reach the end of
  their TTL. In `GameClient` there is one instance, and a message is received with its
  sending. In `AIPlayer` scores are exact, so an order that rounding gives to equal scores is
  one of the orders left open.
- *GameScreen's* auto-roll, doubling and resign buttons, banner and clock: `GameRoom` takes
  an intent of any kind at any time, whichever control it came from.
- *Rating formula*: real-valued; `Progression` keeps the read-modify-write and abstracts the
  number.
- *Telegram sign-in* (`telegram-init-data.ts`): parsing, an HMAC and an age, a pure function
  of its input without state; in `Session` a login succeeds or is refused.
- *Users and leaderboard*: profiles, display names and rankings are single queries.
- *Textures, the static board, colours, highlights, sound, translations*: no state the rest
  depends on. *Infrastructure*: configuration, wiring, logging, health. *Development helpers*
  (`dev/autoplay.ts`, seeds).

---

## 7. The plan

Done, in order of importance: `MatchLifecycle` and `GameRoom` with its proofs; the engine
(`NardaBoard`, `NardaTurns`, `GameState`) and `AIPlayer`; `TurnBuilder`; `Matchmaking`; the
services (`Invite`, `Session`, `Presence`, `Progression`, `IntentGuard`, `AuthCache`); the
screen (`BoardLayout`, `BoardView`, `GameClient`).

The proofs: every safety and action property of the passing runs but `AIPlays` and
`MissesOnlyBearOffs`, and the refinement `ImplementsMatch`; in the parts that MC
modules put together, for every size of the instances.

Next, theorems: `AIPlays` without the scores, that is, that a computer's choice is among the
turns the game accepts.

Next, models: `Matchmaking` with three players, where a narrow neighbour hides a wide one; two
instances in `GameClient`, with an adapter between them that may reorder.
