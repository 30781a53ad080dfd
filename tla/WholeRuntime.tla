---------------------------- MODULE WholeRuntime ----------------------------
(***************************************************************************)
(* What the transaction of a runtime update promises: the installed files  *)
(* change from one package to the next as a whole.  A file that is in no   *)
(* package may stay behind.                                                *)
(***************************************************************************)
CONSTANTS Files, Packages, Absent

VARIABLE runtime  \* the contents that stand for each file

WholeInit == runtime \in Packages

Switch(package) ==
  \E gone \in SUBSET Files :
    runtime' = [f \in Files |->
      IF package[f] # Absent \/ f \in gone THEN package[f] ELSE runtime[f]]

WholeSpec ==
  WholeInit /\ [][\E package \in Packages : Switch(package)]_runtime
=============================================================================
