------------------------------ MODULE MCClient ------------------------------
(***************************************************************************)
(* The sides of the client together: the turn that a player builds, the    *)
(* board on a screen, and the pages that follow a match.  They share no    *)
(* state, so a behaviour is one of one of them: part says of which, and    *)
(* the variables of the others stay as they are.                           *)
(***************************************************************************)
EXTENDS MCTurnBuilder, BoardView

CONSTANTS Clients, Owner, Seated, Final, NoView, MaxDrops   \* GameClient

VARIABLES
  part,
  version, unsent, online, sock, room, join, bye, page, drops, cut, overtaken \* GameClient

Pages == INSTANCE GameClient

(* What the proofs about the board and the pages assume of them. *)
ASSUME SidesAssumption == BoardConstantsOK /\ Pages!ConstantsOK

(***************************************************************************)
(* A small instance for TLC                                                *)
(***************************************************************************)

(* A hit, an entry and a bear-off lie between three positions. *)
Placed(white, black) ==
  [points |-> [n \in Points |-> CASE n = white -> 1 [] n = black -> -2 [] OTHER -> 0],
   bar |-> [White |-> IF white = Bar THEN 1 ELSE 0, Black |-> 0],
   off |-> [White |-> IF white = Off THEN 1 ELSE 0, Black |-> 0]]

MCPosition == [a |-> Placed(6, 12), b |-> Placed(Bar, 6), c |-> Placed(Off, 12)]
MCBoards == DOMAIN MCPosition
MCDice == {<<3, 1>>}
MCScales == {1, 2}

(* The two players of a match. *)
MCOwner == [p1 |-> "u1", p2 |-> "u2"]
MCClients == DOMAIN MCOwner
MCSeated == {"u1", "u2"}

(***************************************************************************)
(* One of them runs                                                        *)
(***************************************************************************)

turnVars == <<vars, ui>>
pageVars == <<version, unsent, online, sock, room, join, bye, page, drops, cut, overtaken>>

(* Whatever does not run starts in one way, with the turn of the opponent. *)
Begin ==
  /\ part \in {"turn", "board", "pages"}
  /\ InitClient /\ InitBoard /\ Pages!Init
  /\ part # "turn" => activePlayer = opponent(Me) /\ dice = (CHOOSE r \in Roll : TRUE)
  /\ part # "board" => /\ pose = [rotated |-> FALSE, flipped |-> FALSE]
                       /\ props = [board |-> CHOOSE b \in Boards : TRUE, dice |-> None,
                                   activePlayer |-> "White"]

Step ==
  /\ UNCHANGED part
  /\ \/ part = "turn" /\ NextClient /\ UNCHANGED <<boardVars, pageVars>>
     \/ part = "board" /\ NextBoard /\ UNCHANGED <<turnVars, pageVars>>
     \/ part = "pages" /\ Pages!Next /\ UNCHANGED <<turnVars, boardVars>>

(* The ticker runs and the images arrive; nothing is asked of the others. *)
BoardFair == WF_boardVars(part = "board" /\ Frame) /\ WF_boardVars(part = "board" /\ Arrive)

SidesSpec == Begin /\ [][Step]_<<part, turnVars, boardVars, pageVars>> /\ BoardFair

(* The properties of GameClient; those of TurnBuilder and BoardView come   *)
(* with them.                                                              *)
ShowsNewest == part = "pages" => Pages!ShowsNewest
RosterOK == part = "pages" => Pages!RosterOK
BackOnlyByJoin == Pages!BackOnlyByJoin
=============================================================================
