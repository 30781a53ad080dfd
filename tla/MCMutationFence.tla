-------------------------- MODULE MCMutationFence --------------------------
(* Small instances of MutationFence: which operation targets what. *)
EXTENDS MutationFence, TLC

CONSTANTS o1, o2, o3, s1, s2, r1, r2, a1, a2

Sessions == [o \in Ops |-> IF o = o3 THEN a2 ELSE a1]
OneSurface == [o \in Ops |-> s1]
WholeAndRegions == [o \in Ops |-> CASE o = o1 -> Whole [] o = o2 -> r1 [] o = o3 -> r2]
=============================================================================
