----------------------------- MODULE FencedSlot -----------------------------
(***************************************************************************)
(* What dispatching under fenced leases promises to a mission: a slot      *)
(* passes from generation to generation, only the current one can report,  *)
(* and it reports one start and then one end.                              *)
(***************************************************************************)
EXTENDS Naturals

CONSTANT Slots

VARIABLES
  generation,  \* the generation each slot is in
  started,     \* slots and generations whose start was reported
  ended        \* slots and generations whose end was reported
fencedVars == <<generation, started, ended>>

FencedInit ==
  /\ generation = [s \in Slots |-> 0]
  /\ started = {}
  /\ ended = {}

\* One transaction may grant several slots.
Grant ==
  /\ \E batch \in SUBSET Slots :
       generation' = [s \in Slots |-> generation[s] + IF s \in batch THEN 1 ELSE 0]
  /\ UNCHANGED <<started, ended>>

ReportStart(s) ==
  /\ generation[s] > 0 /\ <<s, generation[s]>> \notin started
  /\ started' = started \cup {<<s, generation[s]>>}
  /\ UNCHANGED <<generation, ended>>

ReportEnd(s) ==
  /\ <<s, generation[s]>> \in started \ ended
  /\ ended' = ended \cup {<<s, generation[s]>>}
  /\ UNCHANGED <<generation, started>>

FencedNext == Grant \/ \E s \in Slots : ReportStart(s) \/ ReportEnd(s)
FencedSpec == FencedInit /\ [][FencedNext]_fencedVars
=============================================================================
