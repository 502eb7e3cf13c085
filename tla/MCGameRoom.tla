----------------------------- MODULE MCGameRoom -----------------------------
(* Instances of GameRoom for TLC. *)
EXTENDS GameRoom, TLC

CONSTANTS r1, r2, s1

MCRequests == {r1, r2}
MCOneRequest == {r1}
MCSweeps == {s1}
MCNone == {}
MCBlack == {"Black"}
MCAbort == {"abort", "busy"}
MCFinal == {"final"}
MCAnyFault == {"abort", "busy", "final"}
MCExpiry == {"expiry"}

(* The request slots are interchangeable. *)
RequestSymmetry == Permutations(MCRequests)
=============================================================================
