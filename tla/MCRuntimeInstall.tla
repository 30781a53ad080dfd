-------------------------- MODULE MCRuntimeInstall --------------------------
(* A small instance of RuntimeInstall: two packages over three files. *)
EXTENDS RuntimeInstall

CONSTANTS engine, overlay, driver

\* The new package changes the engine, drops the overlay and adds a driver.
Before == [f \in Files |-> IF f = driver THEN Absent ELSE 1]
After == [f \in Files |-> IF f = overlay THEN Absent ELSE 2]
TwoPackages == {Before, After}
=============================================================================
