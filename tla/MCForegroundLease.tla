------------------------- MODULE MCForegroundLease -------------------------
(* Small instances of ForegroundLease: which process asks for what. *)
EXTENDS ForegroundLease

CONSTANTS p1, p2, p3, r1, r2, r3, r4

Homes == [r \in Requests |-> IF r \in {r1, r2} THEN p1 ELSE IF r = r3 THEN p2 ELSE p3]
=============================================================================
