--------------------------- MODULE MCTurnBuilder ---------------------------
(* The client on a small board for TLC.                                    *)
EXTENDS TurnBuilder

MCNone == {}
MCHeadDoubles == {2}
MCNoPoints == [x \in Point |-> 0]
=============================================================================
