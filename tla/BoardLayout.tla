---------------------------- MODULE BoardLayout ----------------------------
(***************************************************************************)
(* The geometry of BoardRenderer.ts: where the points, the bar, the tray   *)
(* and the checkers are drawn, how the stage is turned and stretched, and  *)
(* which target a tap addresses.                                           *)
(*                                                                         *)
(* Lengths are integers, Unit to a design unit.  A target is a point,      *)
(* Bar or Off.                                                             *)
(***************************************************************************)
EXTENDS Integers, Sequences, FiniteSets, FiniteSetsExt, SequencesExt

Unit == 6000
Points == 1..24
Bar == 0
Off == 25
Targets == Points \union {Bar, Off}
NoTarget == -1

DESIGN_W == 1500 * Unit
DESIGN_H == 900 * Unit
Edge == (22 + 18) * Unit          \* MARGIN + BORDER
TRAY_W == 104 * Unit
TRAY_GAP == 14 * Unit
BAR_W == 64 * Unit

playH == DESIGN_H - 2 * Edge
playRegionW == DESIGN_W - 2 * Edge - TRAY_W - TRAY_GAP
halfW == (playRegionW - BAR_W) \div 2
pointW == halfW \div 6
pointH == (playH * 42) \div 100
checkerR == (pointW * 42) \div 100
barX == Edge + halfW
trayX == Edge + playRegionW + TRAY_GAP

(* pointGeom and colX. *)
IsBottom(n) == n <= 12
Col(n) == IF IsBottom(n) THEN 12 - n ELSE n - 13
colX(col) ==
  Edge + (IF col < 6 THEN 0 ELSE halfW + BAR_W) + (col % 6) * pointW + pointW \div 2

BaseY(bottom) == IF bottom THEN Edge + playH ELSE Edge
Inwards(bottom, d) == IF bottom THEN BaseY(bottom) - d ELSE BaseY(bottom) + d

(* The first checker of a stack, and the distance to the next one. *)
cRad == (checkerR * 95) \div 100
First == cRad + (pointW * 5) \div 100
Shown(count) == Min({count, 5})
StackStep(visible) ==
  IF visible > 1
  THEN Min({(cRad * 195) \div 100,
            (pointH - 2 * cRad - (pointW * 5) \div 100) \div (visible - 1)})
  ELSE 0

(* stackCheckers: at most five discs, the last with the number if it is more. *)
Stack(x, bottom, count) ==
  {[x |-> x, y |-> Inwards(bottom, First + i * StackStep(Shown(count))),
    label |-> IF i = Shown(count) - 1 /\ count > 5 THEN count ELSE 0] : i \in 0..(Shown(count) - 1)}

markerPosition(t) ==
  CASE t = Off -> [x |-> trayX + TRAY_W \div 2, y |-> Edge + playH \div 2]
    [] t = Bar -> [x |-> barX + BAR_W \div 2, y |-> Edge + playH \div 2]
    [] OTHER -> [x |-> colX(Col(t)), y |-> Inwards(IsBottom(t), First)]

(***************************************************************************)
(* The stage: rotated by a quarter turn in portrait, by half a turn for    *)
(* White, scaled per axis, moved back into the box.                        *)
(***************************************************************************)

Poses == [rotated : BOOLEAN, flipped : BOOLEAN]

(* A pose p with a scale for each axis of the design, as resize sets them: one
   scale in landscape, two in portrait, where the board is stretched. *)
Fitted(at, scales) ==
  {p \in [rotated : {at.rotated}, flipped : {at.flipped}, sx : scales, sy : scales] :
     p.rotated \/ p.sx = p.sy}

cssWidth(p) == IF p.rotated THEN DESIGN_H * p.sy ELSE DESIGN_W * p.sx
cssHeight(p) == IF p.rotated THEN DESIGN_W * p.sx ELSE DESIGN_H * p.sy

(* stage.rotation in quarter turns, clockwise on the screen. *)
stageRot(p) == (IF p.rotated THEN 1 ELSE 0) + (IF p.flipped THEN 2 ELSE 0)
Turned(quarters, x, y) ==
  CASE quarters = 0 -> [x |-> x, y |-> y]
    [] quarters = 1 -> [x |-> -y, y |-> x]
    [] quarters = 2 -> [x |-> -x, y |-> -y]
    [] quarters = 3 -> [x |-> y, y |-> -x]

(* Mutant of position: in portrait White's board is moved as Black's is. *)
position_OneCorner(p) ==
  CASE ~p.rotated /\ ~p.flipped -> [x |-> 0, y |-> 0]
    [] p.rotated -> [x |-> cssWidth(p), y |-> 0]
    [] ~p.rotated /\ p.flipped -> [x |-> cssWidth(p), y |-> cssHeight(p)]

position(p) ==
  CASE ~p.rotated /\ ~p.flipped -> [x |-> 0, y |-> 0]
    [] p.rotated /\ ~p.flipped -> [x |-> cssWidth(p), y |-> 0]
    [] ~p.rotated /\ p.flipped -> [x |-> cssWidth(p), y |-> cssHeight(p)]
    [] p.rotated /\ p.flipped -> [x |-> 0, y |-> cssHeight(p)]

(* Where Pixi draws a design position. *)
OnScreen(p, at) ==
  LET turned == Turned(stageRot(p), at.x * p.sx, at.y * p.sy)
  IN [x |-> position(p).x + turned.x, y |-> position(p).y + turned.y]

(* pointAt: the stage transform undone, then the target there. *)
Design(p, css) ==
  CASE ~p.rotated /\ ~p.flipped -> [x |-> css.x \div p.sx, y |-> css.y \div p.sy]
    [] p.rotated /\ ~p.flipped -> [x |-> css.y \div p.sx, y |-> (cssWidth(p) - css.x) \div p.sy]
    [] ~p.rotated /\ p.flipped -> [x |-> (cssWidth(p) - css.x) \div p.sx,
                                   y |-> (cssHeight(p) - css.y) \div p.sy]
    [] p.rotated /\ p.flipped -> [x |-> (cssHeight(p) - css.y) \div p.sx, y |-> css.x \div p.sy]

pointAt(p, css) ==
  LET at == Design(p, css)
      left == at.x < barX
      col == IF left THEN (at.x - Edge) \div pointW
             ELSE 6 + (at.x - (Edge + halfW + BAR_W)) \div pointW
  IN IF at.y < Edge \/ at.y > Edge + playH THEN NoTarget
     ELSE IF at.x >= trayX /\ at.x <= trayX + TRAY_W THEN Off
     ELSE IF at.x >= barX /\ at.x <= barX + BAR_W THEN Bar
     ELSE IF col \notin (IF left THEN 0..5 ELSE 6..11) THEN NoTarget
     ELSE IF at.y > Edge + playH \div 2 THEN 12 - col ELSE col + 13

(***************************************************************************)
(* diffMoves: the checkers that glide when one board follows another.      *)
(* A board has points (White positive), bar and off.                       *)
(***************************************************************************)

Sides == {"White", "Black"}
sideAt(b, side, n) ==
  LET value == IF side = "White" THEN b.points[n] ELSE -b.points[n]
  IN Max({0, value})

Times(n, target) == [k \in 1..Max({0, n}) |-> target]

Gain(from, to, side, n) == sideAt(to, side, n) - sideAt(from, side, n)

leaving(from, to, side) ==
  FlattenSeq([n \in 1..24 |-> Times(-Gain(from, to, side, n), n)])
    \o Times(from.bar[side] - to.bar[side], Bar)

(* Mutant of dests: a checker that is hit goes nowhere. *)
dests_NoBar(from, to, side) ==
  FlattenSeq([n \in 1..24 |-> Times(Gain(from, to, side, n), n)])
    \o Times(to.off[side] - from.off[side], Off)

dests(from, to, side) ==
  FlattenSeq([n \in 1..24 |-> Times(Gain(from, to, side, n), n)])
    \o Times(to.bar[side] - from.bar[side], Bar)
    \o Times(to.off[side] - from.off[side], Off)

movesOf(from, to, side) ==
  LET s == leaving(from, to, side)
      d == dests(from, to, side)
  IN [i \in 1..Min({Len(s), Len(d)}) |-> [from |-> s[i], to |-> d[i], side |-> side]]

diffMoves(from, to) == movesOf(from, to, "White") \o movesOf(from, to, "Black")

(* The position without the checkers that are in the air, and after they have
   landed. *)
Signed(side, n) == IF side = "White" THEN n ELSE -n

Lifted(b, moves) ==
  LET gone(side, t) == Cardinality({i \in DOMAIN moves : moves[i].from = t /\ moves[i].side = side})
  IN [points |-> [n \in Points |-> b.points[n] - Signed("White", gone("White", n))
                                                  - Signed("Black", gone("Black", n))],
      bar |-> [side \in Sides |-> Max({0, b.bar[side] - gone(side, Bar)})],
      off |-> b.off]

Landed(b, moves) ==
  LET come(side, t) == Cardinality({i \in DOMAIN moves : moves[i].to = t /\ moves[i].side = side})
  IN [points |-> [n \in Points |-> b.points[n] + Signed("White", come("White", n))
                                                  + Signed("Black", come("Black", n))],
      bar |-> [side \in Sides |-> b.bar[side] + come(side, Bar)],
      off |-> [side \in Sides |-> b.off[side] + come(side, Off)]]
=============================================================================
