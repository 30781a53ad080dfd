---------------------------- MODULE SurfaceInput ----------------------------
(***************************************************************************)
(* What the owner broker promises about real input, without leases,        *)
(* receipts, revisions or clocks.                                          *)
(*                                                                         *)
(* An operation's input is sent to its surface at most once.  From then    *)
(* until its outcome is learnt, or somebody looks at the surface, the      *)
(* operation is open, and no operation that overlaps it may be sent.  The  *)
(* broker may give up on an operation it has waited too long for; only     *)
(* such an operation can reach the surface beside another.                 *)
(***************************************************************************)
CONSTANTS Ops, Surfaces, SurfaceOf, Overlaps(_, _)

VARIABLES
  sent,       \* operations whose input was handed to the surface
  open,       \* sent operations whose outcome nobody knows
  abandoned   \* operations the broker stopped waiting for

inputVars == <<sent, open, abandoned>>

OnSurface(s) == {o \in Ops : SurfaceOf[o] = s}

InputInit ==
  /\ sent = {}
  /\ open = {}
  /\ abandoned = {}

Send(o) ==
  /\ o \notin sent
  /\ o \in abandoned \/ \A p \in open \ abandoned : ~Overlaps(p, o)
  /\ sent' = sent \cup {o}
  /\ open' = open \cup {o}
  /\ UNCHANGED abandoned

Learn(o) ==
  /\ o \in open
  /\ open' = open \ {o}
  /\ UNCHANGED <<sent, abandoned>>

\* The broker stops waiting for some operations of a surface.
GiveUp(s) ==
  /\ \E given \in SUBSET OnSurface(s) : abandoned' = abandoned \cup given
  /\ UNCHANGED sent

\* Somebody looked at the surface, which settles the operations sent to it; a
\* look may fail to be recorded.
Look(s) ==
  /\ GiveUp(s)
  /\ open' \in {open, open \ OnSurface(s)}

InputNext ==
  \/ \E o \in Ops : Send(o) \/ Learn(o)
  \/ \E s \in Surfaces : Look(s)

InputSpec == InputInit /\ [][InputNext]_inputVars
=============================================================================
