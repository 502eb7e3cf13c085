--------------------------- MODULE MatchLifecycle ---------------------------
(***************************************************************************)
(* What the game service promises about one match, with no lock, no clock, *)
(* no store and no processes: a table is open, turns are played on it, and *)
(* it closes exactly once, with at most one result, which is final.        *)
(*                                                                         *)
(* GameRoom.tla shows that apps/api/src/game/game.service.ts implements    *)
(* this under concurrent requests and aborted (non-final) writes.          *)
(***************************************************************************)
EXTENDS Naturals

CONSTANT Null

VARIABLES
  turn,      \* the seat to move, Null once the table is closed
  progress,  \* events played so far on the open table, 0 once closed
  open,      \* there is a live room to play in
  result     \* the recorded result, or Null

matchVars == <<turn, progress, open, result>>

Side == {"White", "Black"}
Opposite(p) == CHOOSE q \in Side : q # p

TypeOK ==
  /\ turn \in Side \cup {Null}
  /\ progress \in Nat
  /\ open \in BOOLEAN
  /\ open <=> turn # Null
  /\ result = Null \/ result \in [winner : Side,
                                  reason : {"SINGLE", "RESIGNATION", "FORFEIT"}]

Init ==
  /\ turn \in Side
  /\ progress = 1
  /\ open = TRUE
  /\ result = Null

(* The player to move takes one step (a roll keeps the turn, a move may    *)
(* pass it on). Nothing is played once a result is recorded.               *)
Play ==
  /\ open /\ result = Null
  /\ progress' = progress + 1
  /\ turn' \in Side
  /\ UNCHANGED <<open, result>>

(* The result: a win over the board by the player to move, a resignation   *)
(* of either player, or a forfeit of the player to move.                   *)
Conclude ==
  /\ open /\ result = Null
  /\ \/ result' = [winner |-> turn, reason |-> "SINGLE"]
     \/ \E p \in Side : result' = [winner |-> p, reason |-> "RESIGNATION"]
     \/ result' = [winner |-> Opposite(turn), reason |-> "FORFEIT"]
  /\ UNCHANGED <<turn, progress, open>>

ClearTable ==
  /\ turn' = Null
  /\ progress' = 0
  /\ open' = FALSE
  /\ UNCHANGED result

Close ==
  /\ open /\ result # Null
  /\ ClearTable

(* A table nobody ever sat at is dropped without a result.                 *)
Abandon ==
  /\ open /\ result = Null
  /\ progress = 1
  /\ ClearTable

Next == Play \/ Conclude \/ Close \/ Abandon

Spec == Init /\ [][Next]_matchVars
=============================================================================
