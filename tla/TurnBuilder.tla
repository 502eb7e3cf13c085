---------------------------- MODULE TurnBuilder ----------------------------
(***************************************************************************)
(* The web client's turn builder (apps/web/src/game/turn-builder.ts) as    *)
(* GameScreen.tsx drives it, against the game it plays in: the player taps *)
(* a checker and one of the end points offered for it, several dice may be *)
(* chained onto one tap and are then played hop by hop from timers, undo   *)
(* takes a move back, and a complete turn is sent to the server, which     *)
(* validates it with the same engine (GameState's playTurn).               *)
(*                                                                         *)
(* The player Me uses this client; the other player moves as GameState     *)
(* allows. A change of the game reaches the client at once, and a view may *)
(* come again (a broadcast that changed nothing on the board).             *)
(***************************************************************************)
EXTENDS GameState, SequencesExt

CONSTANTS
  Me,             \* the player at this client
  UndoWhileBusy   \* whether Me may press Undo while hops are still due

VARIABLES
  tb,       \* the builder of the turn, or Null
  hops,     \* moves of the tapped option still to be played by timers
  detached, \* the builder those timers hold on to, once tb was replaced
  busy,     \* busyRef.current: taps are ignored
  sent      \* turns submitted and not yet handled by the server

ui == <<tb, hops, detached, busy, sent>>

MaxInFlight == 1   \* bound on submissions under way

Builder == [boards : Seq(Board), moves : Seq(Move), diceLeft : Seq(Die),
            roll : Roll, maxFromHead : {1, 2}, maxLen : 0..MaxMoves]

ASSUME ClientAssumption ==
  Me \in Player /\ UndoWhileBusy \in BOOLEAN /\ Null \notin Builder

-----------------------------------------------------------------------------
(* The class TurnBuilder.                                                  *)

IndexOf(seq, d) == Min({i \in DOMAIN seq : seq[i] = d})
Without(seq, i) == SubSeq(seq, 1, i - 1) \o SubSeq(seq, i + 1, Len(seq))

New(b, r, maxFromHead) ==
  [boards |-> <<b>>, moves |-> <<>>,
   diceLeft |-> IF isDouble(r) THEN <<r.first, r.first, r.first, r.first>>
                ELSE <<r.first, r.second>>,
   roll |-> r, maxFromHead |-> maxFromHead,
   maxLen |-> maximal(b, Me, r, maxFromHead).maxLen]

(* Mutant: checkers that left the head earlier in the turn are forgotten.  *)
headUsed_Forgotten(t) == 0

headUsed(t) == Cardinality({i \in DOMAIN t.moves : FromHead(Me, t.moves[i]) = 1})

(* Where the builder is, as a line of the engine's search.                 *)
Here(t) ==
  [moves |-> t.moves, board |-> Last(t.boards), head |-> headUsed(t),
   left |-> [d \in Die |-> Cardinality({i \in DOMAIN t.diceLeft : t.diceLeft[i] = d})]]

maxUsable(t, l) == Longest(LinesFrom(l, Me, t.maxFromHead)) - Len(l.moves)
isComplete(t) == Len(t.moves) = t.maxLen

(* The move is recorded before the board is asked; when the board throws   *)
(* the rest is not done.                                                   *)
play(t, m) ==
  IF Throws(Last(t.boards), Me, m)
  THEN [t EXCEPT !.moves = Append(@, m)]
  ELSE [t EXCEPT !.moves = Append(@, m),
                 !.boards = Append(@, applyMove(Last(t.boards), Me, m)),
                 !.diceLeft = Without(@, IndexOf(@, m.die))]

(* Mutant: the die is not given back.                                      *)
undo_KeepsDie(t) == [t EXCEPT !.moves = Front(@), !.boards = Front(@)]

undo(t) ==
  [t EXCEPT !.moves = Front(@), !.boards = Front(@),
            !.diceLeft = Append(@, Last(t.moves).die)]

(* Mutant: moves that waste dice are offered.                              *)
StaysMaximal_Any(t, l) == TRUE

StaysMaximal(t, l) == Len(l.moves) + maxUsable(t, l) = t.maxLen

Onwards(t, l) ==
  {x \in {Play(l, Me, m) : m \in NextMoves(l, Me, t.maxFromHead)} : StaysMaximal(t, x)}

(* Mutant: the higher die is asked for whatever the turn's length.         *)
HigherOnly_Always(t, paths) ==
  LET high == {q \in paths : q[1].die = High(t.roll)}
  IN  IF ~isDouble(t.roll) /\ high # {} THEN high ELSE paths

(* When one die is all that can be played, the higher one, if on offer.    *)
HigherOnly(t, paths) ==
  LET high == {q \in paths : q[1].die = High(t.roll)}
  IN  IF t.moves = <<>> /\ t.maxLen = 1 /\ ~isDouble(t.roll) /\ high # {}
      THEN high ELSE paths

candidates(t) ==
  IF isComplete(t) THEN {}
  ELSE {q[1] : q \in HigherOnly(t, {<<Last(x.moves)>> : x \in Onwards(t, Here(t))})}

sources(t) == {m.from : m \in candidates(t)}

(* moveOptions: walk chains dice onto the checker on from; of the paths    *)
(* that end on a point the first one found, in the order of diceLeft, is   *)
(* that point's option.                                                    *)
Chained(t, lines) ==
  UNION {{x \in Onwards(t, l) : Last(x.moves).from = Last(l.moves).to} :
           l \in {y \in lines : Last(y.moves).to # OFF}}

Chains(t, from) ==
  LET walk[k \in 1..MaxMoves] ==
        IF k = 1 THEN {x \in Onwards(t, Here(t)) : Last(x.moves).from = from}
        ELSE Chained(t, walk[k - 1])
  IN  {SubSeq(x.moves, Len(t.moves) + 1, Len(x.moves)) :
         x \in UNION {walk[k] : k \in 1..MaxMoves}}

Rank(t, path) == IndexOf(t.diceLeft, path[1].die) * (MaxMoves + 1) + Len(path)

moveOptions(t, from) ==
  LET paths == Chains(t, from)
      options == {q \in paths :
                    \A r \in paths : Last(r).to = Last(q).to => Rank(t, q) <= Rank(t, r)}
  IN  IF isComplete(t) THEN {}
      ELSE HigherOnly(t, options)

-----------------------------------------------------------------------------
(* GameScreen.                                                             *)

MyMove(player, ph) == player = Me /\ ph = "AWAITING_MOVE"

(* Mutant: the builder outlives the turn it was made for.                  *)
Follow_KeepsBuilder ==
  /\ tb' = IF MyMove(activePlayer', phase')
           THEN New(board', dice', currentMaxFromHead') ELSE tb
  /\ detached' = IF hops # <<>> /\ detached = Null THEN tb ELSE detached
  /\ UNCHANGED <<hops, busy>>

(* The effect that follows the view. It does not touch busyRef, and timers *)
(* go on with the builder they were started on.                            *)
Follow ==
  /\ tb' = IF MyMove(activePlayer', phase')
           THEN New(board', dice', currentMaxFromHead') ELSE Null
  /\ detached' = IF hops # <<>> /\ detached = Null THEN tb ELSE detached
  /\ UNCHANGED <<hops, busy>>

InitClient ==
  /\ Init
  /\ tb = IF MyMove(activePlayer, phase)
          THEN New(board, dice, currentMaxFromHead) ELSE Null
  /\ hops = <<>>
  /\ detached = Null
  /\ busy = FALSE
  /\ sent = <<>>

(* finish: a complete turn is submitted.                                   *)
Finish(t) ==
  sent' = IF isComplete(t) THEN Append(sent, t.moves) ELSE sent

(* The board answers to taps.                                              *)
Listening == tb # Null /\ ~busy /\ Len(sent) < MaxInFlight

(* onTarget, for a source and one of its options.                          *)
Tap ==
  /\ Listening
  /\ \E from \in sources(tb) : \E path \in moveOptions(tb, from) :
       IF Len(path) = 1
       THEN /\ tb' = play(tb, path[1])
            /\ Finish(tb')
            /\ UNCHANGED <<hops, busy>>
       ELSE /\ hops' = path
            /\ busy' = TRUE
            /\ UNCHANGED <<tb, sent>>
  /\ UNCHANGED <<vars, detached>>

(* Mutant: busyRef is reset only when the turn goes on.                    *)
Hop_BusyAfterTurn ==
  /\ hops # <<>>
  /\ hops' = Tail(hops)
  /\ LET held == IF detached = Null THEN tb ELSE detached
         next == play(held, hops[1])
         last == Len(hops) = 1 /\ ~Throws(Last(held.boards), Me, hops[1])
     IN  /\ IF detached = Null THEN tb' = next ELSE UNCHANGED tb
         /\ detached' = IF detached = Null \/ Len(hops) = 1 THEN Null ELSE next
         /\ busy' = (busy /\ ~(last /\ ~isComplete(next)))
         /\ IF last THEN Finish(next) ELSE UNCHANGED sent
  /\ UNCHANGED vars

(* One timer. If play throws, nothing after it in the callback runs.       *)
Hop ==
  /\ hops # <<>>
  /\ hops' = Tail(hops)
  /\ LET held == IF detached = Null THEN tb ELSE detached
         next == play(held, hops[1])
         last == Len(hops) = 1 /\ ~Throws(Last(held.boards), Me, hops[1])
     IN  /\ IF detached = Null THEN tb' = next ELSE UNCHANGED tb
         /\ detached' = IF detached = Null \/ Len(hops) = 1 THEN Null ELSE next
         /\ busy' = (busy /\ ~last)
         /\ IF last THEN Finish(next) ELSE UNCHANGED sent
  /\ UNCHANGED vars

(* The Undo button. (After a throw there is one board less than moves; the *)
(* undo that would take the last board and end the screen is left out.)    *)
Undo ==
  /\ tb # Null /\ tb.moves # <<>> /\ Len(tb.boards) > 1
  /\ busy => UndoWhileBusy
  /\ tb' = undo(tb)
  /\ UNCHANGED <<vars, hops, detached, busy, sent>>

(* The Pass button.                                                        *)
Pass ==
  /\ tb # Null /\ tb.maxLen = 0
  /\ Len(sent) < MaxInFlight
  /\ sent' = Append(sent, <<>>)
  /\ UNCHANGED <<vars, tb, hops, detached, busy>>

-----------------------------------------------------------------------------
(* The server handles a submitted turn: it is played if it is Me's turn to *)
(* move and the turn is valid, else refused without a trace at the client. *)
Submitted ==
  IF MyMove(activePlayer, phase)
  THEN validateTurn(board, Me, dice, sent[1], currentMaxFromHead, maximalNow.maxLen)
  ELSE {}

Deliver ==
  /\ sent # <<>>
  /\ sent' = Tail(sent)
  /\ \/ Submitted = {} /\ UNCHANGED <<vars, tb, hops, detached, busy>>
     \/ /\ \E l \in Submitted : PlayLine(l)
        /\ Follow

(* The rest of the game.                                                   *)
OtherSteps ==
  /\ \/ roll
     \/ activePlayer # Me /\ playTurn
     \/ \E p \in Player : forfeit(p)
  /\ Follow
  /\ UNCHANGED sent

(* The same view again.                                                    *)
Refresh ==
  /\ UNCHANGED vars
  /\ Follow
  /\ UNCHANGED sent

NextClient ==
  \/ Tap \/ Hop \/ Undo \/ Pass
  \/ Deliver \/ OtherSteps \/ Refresh

ClientSpec == InitClient /\ [][NextClient]_<<vars, ui>>
-----------------------------------------------------------------------------
(* The type invariant and the properties.                                  *)

ClientOK ==
  /\ tb # Null => tb \in Builder
  /\ detached # Null => detached \in Builder
  /\ hops \in Seq(Move) /\ busy \in BOOLEAN
  /\ sent \in Seq(Seq(Move)) /\ Len(sent) <= MaxInFlight
  /\ (tb # Null) <=> (activePlayer = Me /\ phase = "AWAITING_MOVE")

(* "Only moves that keep a maximum-length turn reachable are offered":     *)
(* whatever is tapped and undone, the builder is on a line of the engine's *)
(* search that can still use as many dice as the roll allows.              *)
NeverUnderplayed ==
  tb # Null =>
    /\ tb.maxLen = maximalNow.maxLen
    /\ Len(tb.moves) + maxUsable(tb, Here(tb)) = tb.maxLen

(* The player is never stuck: as long as the turn is not complete some     *)
(* checker is offered, and every checker offered has an end point.         *)
SomethingOffered ==
  tb # Null /\ hops = <<>> /\ ~isComplete(tb) =>
    /\ sources(tb) # {}
    /\ \A from \in sources(tb) : moveOptions(tb, from) # {}

(* The turn sent is legal move by move, keeps to the head rule and uses    *)
(* the most dice: the server can refuse it only for the die it used.       *)
CompletedIsMaximal ==
  tb # Null /\ isComplete(tb) =>
    \E l \in Played(board, Me, dice, tb.moves) :
      l.head <= currentMaxFromHead /\ Len(l.moves) = maximalNow.maxLen

(* What is built is a turn the engine could have searched, to its end.     *)
BuilderOK == ClientOK /\ NeverUnderplayed /\ CompletedIsMaximal

(* What taps can make of the turn: one option per end point, and only      *)
(* chains of one checker.                                                  *)
Buildable ==
  LET built[k \in 0..MaxMoves] ==
        IF k = 0 THEN {tb}
        ELSE UNION {{play(t, path[1]) :
                       path \in UNION {moveOptions(t, from) : from \in sources(t)}} :
                      t \in built[k - 1]}
  IN  {Last(t.boards) : t \in built[tb.maxLen]}

Fresh == tb # Null /\ tb.moves = <<>> /\ hops = <<>> /\ sent = <<>>
OnMenu == generateTurns(board, Me, dice, currentMaxFromHead)

(* At the start of a turn every position the engine's menu offers can be   *)
(* reached by taps, unless the lower die was rolled first and both dice    *)
(* bear a checker off: then the first path that is found to the tray may   *)
(* be the one that takes a single checker there with both.                 *)
MissesOnlyBearOffs ==
  Fresh => \A b \in OnMenu \ Buildable :
             tb.diceLeft[1] < High(dice) /\ b.off[Me] = board.off[Me] + 2

(* "Builds a player's turn [...] using the same engine that validates it   *)
(* on the server": at the start of a turn every position on that engine's  *)
(* menu can be reached by taps.                                            *)
EveryTurnCanBeBuilt == Fresh => OnMenu \subseteq Buildable

(* busyRef is "True while a combined move is animating its hops, so taps   *)
(* are ignored" -- and no longer.                                          *)
BusyOnlyWhileHopping == busy => hops # <<>>

(* "Single-die turn: the higher die must be the one played": a turn the    *)
(* client calls complete is one the server accepts.                        *)
CompletedIsAccepted ==
  tb # Null /\ isComplete(tb) =>
    validateTurn(board, Me, dice, tb.moves, currentMaxFromHead, maximalNow.maxLen) # {}
=============================================================================
