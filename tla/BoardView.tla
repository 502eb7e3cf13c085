----------------------------- MODULE BoardView -----------------------------
(***************************************************************************)
(* The board on the screen: the React component GameBoard, which creates a *)
(* BoardRenderer asynchronously, again for every orientation, and hands it *)
(* its props; and the renderer, which lets checkers glide and dice tumble  *)
(* from what it shows to what it is told to show.                          *)
(***************************************************************************)
EXTENDS BoardLayout

CONSTANTS
  Boards,      \* names of the positions the screen may be told to show
  Position,    \* the position each of them names: [points, bar, off]
  Dice,        \* the rolls
  Scales,      \* screen units to a unit of length
  None,        \* no roll, no renderer, nothing pending
  MaxRenders,  \* how often the props change
  MaxToggles   \* how often the screen is turned

(* The checkers of a side: those on the points, laid out in a row, those on the
   bar and those borne off. *)
Checkers(b, side) ==
  Len(FlattenSeq([n \in Points |-> Times(sideAt(b, side, n), n)])) + b.bar[side] + b.off[side]

(* The positions of a match: no checker is made and none is lost. *)
Positions == [points : [Points -> Int], bar : [Sides -> Nat], off : [Sides -> Nat]]
PositionsOK ==
  /\ \A b \in Boards : Position[b] \in Positions
  /\ \A a, b \in Boards, side \in Sides : Checkers(Position[a], side) = Checkers(Position[b], side)

(* No position and no roll is None, and the screen has a size. *)
BoardConstantsOK ==
  None \notin Boards /\ None \notin Dice /\ Scales \subseteq Nat \ {0} /\ PositionsOK

VARIABLES
  props,     \* of GameBoard, as last rendered: [board, dice, activePlayer]
  pose,      \* of GameBoard: [rotated, flipped]
  creating,  \* BoardRenderer.create under way: [props, pose, disposed], oldest first
  renderer,  \* rendererRef.current
  renders, toggles,
  late,      \* history: the props have changed since the renderer's were captured
  returned   \* history: mid-glide, it was told to show what it glides away from

boardVars == <<props, pose, creating, renderer, renders, toggles, late, returned>>

AllProps == [board : Boards, dice : Dice \union {None}, activePlayer : Sides]

(* The effect on the orientation: create, with the props of this render. *)
Creation(of, at) == [props |-> of, pose |-> at, disposed |-> FALSE]

InitBoard ==
  /\ props \in {p \in AllProps : p.dice = None}
  /\ pose \in Poses
  /\ creating = <<Creation(props, pose)>>
  /\ renderer = None
  /\ renders = 0
  /\ toggles = 0
  /\ late = FALSE
  /\ returned = FALSE

(***************************************************************************)
(* BoardRenderer.render                                                    *)
(***************************************************************************)

NewRenderer(at) ==
  [stage |-> at,
   shownBoard |-> None, moveAnim |-> None, pendingBoard |-> None,
   diceOwner |-> "White", diceSig |-> None, diceAnim |-> None, painted |-> None]

(* Mutant of WithOwner: the dice of the last player are taken for this one's. *)
WithOwner_SameDice(r, player) == [r EXCEPT !.diceOwner = player]

(* The dice belong to whoever's turn it is. *)
WithOwner(r, player) ==
  IF player = r.diceOwner THEN r ELSE [r EXCEPT !.diceOwner = player, !.diceSig = None]

updateDice(r, d) ==
  IF d = r.diceSig THEN r
  ELSE IF d = None THEN [r EXCEPT !.diceSig = None, !.diceAnim = None, !.painted = None]
  ELSE [r EXCEPT !.diceSig = d, !.diceAnim = d]

(* The glides between any two positions, as one function. *)
Moves == [from \in Boards |-> [to \in Boards |-> diffMoves(Position[from], Position[to])]]

startMoveAnim(r, to) ==
  IF Moves[r.shownBoard][to] = <<>> THEN [r EXCEPT !.shownBoard = to]
  ELSE [r EXCEPT !.moveAnim = to]

updateCheckers(r, b) ==
  CASE r.shownBoard = b -> r
    [] r.shownBoard = None -> [r EXCEPT !.shownBoard = b]
    [] r.shownBoard \notin {None, b} /\ r.moveAnim # None -> [r EXCEPT !.pendingBoard = b]
    [] OTHER -> startMoveAnim(r, b)

render(r, p) == updateCheckers(updateDice(WithOwner(r, p.activePlayer), p.dice), p.board)

(* Mutant of landed: the position that came meanwhile stays pending. *)
landed_KeepsPending(r) == [r EXCEPT !.moveAnim = None, !.shownBoard = r.moveAnim]

(* stepMove, the frame in which the glide is over. *)
landed(r) ==
  LET down == [r EXCEPT !.moveAnim = None, !.shownBoard = r.moveAnim, !.pendingBoard = None]
  IN IF r.pendingBoard = None THEN down ELSE updateCheckers(down, r.pendingBoard)

(* stepDice, the frame in which the tumble is over. *)
settled(r) ==
  [r EXCEPT !.diceAnim = None, !.painted = [dice |-> r.diceAnim, side |-> r.diceOwner]]

(***************************************************************************)
(* GameBoard                                                               *)
(***************************************************************************)

(* GameScreen renders the board with other props: the second effect. *)
Render ==
  /\ renders < MaxRenders
  /\ renders' = renders + 1
  /\ props' \in AllProps \ {props}
  /\ late' = (renderer = None)
  /\ returned' = (renderer # None /\ renderer.moveAnim # None /\ renderer.shownBoard = props'.board)
  /\ renderer' = IF renderer = None THEN None ELSE render(renderer, props')
  /\ UNCHANGED <<pose, creating, toggles>>

(* Mutant of Toggle: a creation under way is not told that it is not wanted. *)
Toggle_NotDisposed ==
  /\ toggles < MaxToggles
  /\ toggles' = toggles + 1
  /\ pose' = [pose EXCEPT !.rotated = ~@]
  /\ creating' = Append(creating, Creation(props, pose'))
  /\ renderer' = None
  /\ late' = FALSE
  /\ returned' = FALSE
  /\ UNCHANGED <<props, renders>>

(* The screen is turned: the renderer is destroyed and another one is made. *)
Toggle ==
  /\ toggles < MaxToggles
  /\ toggles' = toggles + 1
  /\ pose' = [pose EXCEPT !.rotated = ~@]
  /\ creating' = Append([i \in DOMAIN creating |-> [creating[i] EXCEPT !.disposed = TRUE]],
                        Creation(props, pose'))
  /\ renderer' = None
  /\ late' = FALSE
  /\ returned' = FALSE
  /\ UNCHANGED <<props, renders>>

(* A create resolves, in whatever order the images arrive. *)
Created(i) ==
  /\ creating' = RemoveAt(creating, i)
  /\ renderer' = IF creating[i].disposed THEN renderer
                 ELSE render(NewRenderer(creating[i].pose), creating[i].props)
  /\ UNCHANGED <<props, pose, renders, toggles, late, returned>>

StepMove ==
  /\ renderer # None /\ renderer.moveAnim # None
  /\ renderer' = landed(renderer)
  /\ UNCHANGED <<props, pose, creating, renders, toggles, late, returned>>

StepDice ==
  /\ renderer # None /\ renderer.diceAnim # None
  /\ renderer' = settled(renderer)
  /\ UNCHANGED <<props, pose, creating, renders, toggles, late, returned>>

(* The screen is left. *)
Unmount ==
  /\ creating # <<>> \/ renderer # None
  /\ renders' = MaxRenders
  /\ toggles' = MaxToggles
  /\ creating' = [i \in DOMAIN creating |-> [creating[i] EXCEPT !.disposed = TRUE]]
  /\ renderer' = None
  /\ UNCHANGED <<props, pose, late, returned>>

NextBoard ==
  \/ Render \/ Toggle \/ StepMove \/ StepDice \/ Unmount
  \/ \E i \in DOMAIN creating : Created(i)

BoardSpec == InitBoard /\ [][NextBoard]_boardVars

(* The ticker runs and the images arrive. *)
Frame == StepMove \/ StepDice
Arrive == \E i \in DOMAIN creating : Created(i)
FairBoardSpec == BoardSpec /\ WF_boardVars(Frame) /\ WF_boardVars(Arrive)

(***************************************************************************)
(* Properties                                                              *)
(***************************************************************************)

OrNull(S) == S \union {None}
Renderers ==
  [stage : Poses, shownBoard : OrNull(Boards), moveAnim : OrNull(Boards),
   pendingBoard : OrNull(Boards), diceOwner : Sides, diceSig : OrNull(Dice),
   diceAnim : OrNull(Dice), painted : OrNull([dice : Dice, side : Sides])]

(* One creation at most will be used, and only while there is no renderer; the
   one there is stands as the screen does. *)
ScreenOK ==
  /\ props \in AllProps
  /\ creating \in Seq([props : AllProps, pose : Poses, disposed : BOOLEAN])
  /\ renderer \in OrNull(Renderers)
  /\ renderer # None => /\ \A i \in DOMAIN creating : creating[i].disposed
                        /\ renderer.stage = pose
  /\ \A i, j \in DOMAIN creating : ~creating[i].disposed /\ ~creating[j].disposed => i = j

(* At every size. *)
Hits(stage) ==
  LET hits(p, at, t) == pointAt(p, OnScreen(p, at)) = t
  IN \A p \in Fitted(stage, Scales) :
       /\ \A t \in Targets : hits(p, markerPosition(t), t)
       /\ \A t \in Points : \A disc \in Stack(colX(Col(t)), IsBottom(t), 15) : hits(p, disc, t)

AllHit == \A stage \in Poses : Hits(stage)

(* A tap on the middle of a target, or on any checker of a full stack,
   addresses that target: pointAt undoes what resize does to the stage. *)
TapHits == renderer # None => AllHit

LandsOn ==
  [from \in Boards |-> [to \in Boards |->
     (\A side \in Sides : Position[to].off[side] >= Position[from].off[side])
       => Landed(Lifted(Position[from], Moves[from][to]), Moves[from][to]) = Position[to]]]

(* The checkers that glide are those that make the next position out of the
   one that is shown, unless a borne-off checker is taken back. *)
GlideLands ==
  renderer # None /\ renderer.moveAnim # None => LandsOn[renderer.shownBoard][renderer.moveAnim]

Resting == /\ renderer # None
           /\ renderer.moveAnim = None /\ renderer.pendingBoard = None /\ renderer.diceAnim = None

(* When nothing moves, the board shown is the board the component was last
   given, whatever came while checkers were gliding; so are the dice, on the
   half of the player whose turn it is.  It is not promised for props that
   changed before the renderer was there, or for a board taken back mid-glide. *)
InSync ==
  Resting /\ ~late =>
    /\ ~returned => renderer.shownBoard = props.board
    /\ props.dice # None => renderer.painted = [dice |-> props.dice, side |-> props.activePlayer]

(* What is on the screen: one renderer, gliding and resting where it should. *)
BoardOK == ScreenOK /\ GlideLands /\ InSync

(* What GameBoard says: it keeps the renderer in sync with its props. *)
KeepsInSync == Resting => renderer.shownBoard = props.board

(* Glides and tumbles come to rest on the newest position: none is kept back. *)
ComesToRest == renderer # None ~> Resting \/ renderer = None
=============================================================================
