-------------------------- MODULE MCOwnerDispatch --------------------------
(* Small instances of OwnerDispatch: which operation targets what. *)
EXTENDS OwnerDispatch, TLC

CONSTANTS w1, w2, w3, d1, d2, d3, tab, win, r1, r2, a1, a2

\* a surface-wide browser operation, one in a region, two desktop operations
Sessions == [o \in Ops |-> IF o \in {w3, d2} THEN a2 ELSE a1]
MixedSurface == [o \in Ops |-> IF o \in {d1, d2, d3} THEN win ELSE tab]
MixedRegion == [o \in Ops |-> IF o = w2 THEN r1 ELSE Whole]
RegionPair == [o \in Ops |-> IF o = w2 THEN r1 ELSE IF o = w3 THEN r2 ELSE Whole]
=============================================================================
