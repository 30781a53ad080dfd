------------------------- MODULE MCDispatchRuntime -------------------------
(* Two workers and one slot. *)
EXTENDS DispatchRuntime

CONSTANTS m1, w1, w2
=============================================================================
