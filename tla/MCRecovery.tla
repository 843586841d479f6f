----------------------------- MODULE MCRecovery -----------------------------
(* One agent per board for TLC. *)
EXTENDS Recovery

CONSTANTS a1, a2, b1, b2
OneBoard == [a \in {a1} |-> b1]
TwoBoards == [a \in {a1, a2} |-> IF a = a1 THEN b1 ELSE b2]
=============================================================================
