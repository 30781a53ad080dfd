--------------------------- MODULE MCTurnRotation ---------------------------
(* Three sessions, one of them of a provider with a longer burst. *)
EXTENDS TurnRotation, TLC

CONSTANTS p1, p2, p3

Bursts == [p \in Participants |-> IF p = p2 THEN 2 ELSE 1]
=============================================================================
