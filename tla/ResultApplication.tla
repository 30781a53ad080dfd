------------------------- MODULE ResultApplication -------------------------
(***************************************************************************)
(* The result processor beside the workers: it takes the accepted results  *)
(* of the inbox and runs the lifecycle command of each on the mission.  A  *)
(* command that is refused is tried again later; one that has run is not   *)
(* run twice, because its idempotency key is the result's.                 *)
(***************************************************************************)
EXTENDS DispatchRuntime

VARIABLE applied  \* accepted results whose lifecycle command has run

appVars == <<vars, applied>>

AppInit == Init /\ applied = {}

\* A start enters the execution into the mission's projection, with the
\* fencing token it was reported under.  An end must match that entry.
CommandAccepts(r) ==
  \/ r.kind = "started"
  \/ \E b \in applied : b.job = r.job /\ b.kind = "started" /\ b.token = r.token

Apply(r) ==
  /\ r \in inbox \ applied
  /\ CommandAccepts(r)
  /\ applied' = applied \cup {r}
  /\ UNCHANGED vars

AppNext == (Next /\ UNCHANGED applied) \/ \E r \in inbox : Apply(r)

AppFairSpec ==
  /\ AppInit /\ [][AppNext]_appVars
  /\ \A w \in Workers : WF_appVars(Work(w) /\ UNCHANGED applied)
  /\ WF_appVars(\E r \in inbox : Apply(r))

----------------------------------------------------------------------------
(* What the documentation says and the code does not do *)

\* "A started result and a later terminal result are both valid": what the
\* inbox accepted is applied to the mission in the end.
AcceptedResultsApply == \A r \in Results : r \in inbox ~> r \in applied
=============================================================================
