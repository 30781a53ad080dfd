--------------------------- MODULE MCTaskDelivery ---------------------------
(* Small instances of TaskDelivery: two tasks, two sessions. *)
EXTENDS TaskDelivery

CONSTANTS s1, s2

\* s1 is the managed session; the first task may be aimed at the other one.
Aimed == [t \in Tasks |-> IF t = 1 THEN {NoSession, s2} ELSE {NoSession}]

\* s1 reads by its hooks only, s2 calls m9r_inbox too.
Habits == [s \in Sessions |-> IF s = s1 THEN {"folder"} ELSE Scopes]
=============================================================================
