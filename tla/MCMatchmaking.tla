--------------------------- MODULE MCMatchmaking ---------------------------
(* Two players, both queues.                                               *)
EXTENDS Matchmaking

CONSTANTS r1, r2

MCUsers == {1, 2}
MCModes == <<"CASUAL", "RANKED">>
MCRanked == <<"RANKED">>
MCElo == [u \in MCUsers |-> u]
MCOnce == [u \in MCUsers |-> 1]
MCAgain == [u \in MCUsers |-> IF u = 1 THEN 2 ELSE 1]
MCTwo == {r1, r2}
=============================================================================
