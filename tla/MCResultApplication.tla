------------------------ MODULE MCResultApplication ------------------------
(* One worker and the result processor. *)
EXTENDS ResultApplication

CONSTANTS m1, w1
=============================================================================
