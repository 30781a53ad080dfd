--------------------------- MODULE TurnScheduler ---------------------------
(***************************************************************************)
(* One lane of turn-scheduler-core.ts: who may act next on a contended     *)
(* scope of a shared tab.  The holder takes up to its burst of actions,    *)
(* then the turn goes round to the next participant with pending work.     *)
(*                                                                         *)
(* A lane is a value and every method of the code an operator on it: the   *)
(* broker (WebTurns) keeps one such value per lane, TurnRotation runs one  *)
(* alone.  The count of actions is kept for the holder only: the code      *)
(* resets the others' when they next get the turn, before it reads them.   *)
(***************************************************************************)
EXTENDS Integers, Sequences, SequencesExt

CONSTANTS
  Participants,   \* one agent's provider session each
  Burst,          \* per participant, the actions of one turn
  Nobody          \* no holder

ASSUME TurnAssumption ==
  /\ Burst \in [Participants -> 1 .. 50]
  /\ Nobody \notin Participants

EmptyLane ==
  [order |-> <<>>, pending |-> {}, holder |-> Nobody, cursor |-> 0, taken |-> 0]

Registered(s) == {s.order[i] : i \in 1 .. Len(s.order)}

Register(s, p) ==
  IF p \in Registered(s) THEN s ELSE [s EXCEPT !.order = Append(@, p)]

SetPending(s, p, work) ==
  [s EXCEPT !.pending = IF work /\ p \in Registered(s) THEN @ \cup {p} ELSE @ \ {p}]

----------------------------------------------------------------------------
(* The rotation *)

\* The participant i places after the cursor.
FromCursor(s, i) == s.order[((s.cursor + i) % Len(s.order)) + 1]

\* Faulty variant: every search restarts from the front of the order.
FirstReadyFromFront(s) ==
  CHOOSE i \in 0 .. Len(s.order) - 1 :
    /\ FromCursor(s, i) \in s.pending
    /\ \A k \in 1 .. (s.cursor + i) % Len(s.order) : s.order[k] \notin s.pending

\* The place after the cursor of the first participant with work.
FirstReady(s) ==
  CHOOSE i \in 0 .. Len(s.order) - 1 :
    /\ FromCursor(s, i) \in s.pending
    /\ \A j \in 0 .. i - 1 : FromCursor(s, j) \notin s.pending

Vacate(s) == [s EXCEPT !.holder = Nobody, !.taken = 0]

EnsureHolder(s) ==
  IF s.holder \in s.pending THEN s
  ELSE IF s.pending = {} THEN Vacate(s)
  ELSE [s EXCEPT !.holder = FromCursor(s, FirstReady(s)),
                 !.cursor = (@ + FirstReady(s) + 1) % Len(s.order),
                 !.taken = 0]

RequestTurn(s, p) == IF p \in s.pending THEN EnsureHolder(s) ELSE s

RecordAction(s, p) ==
  IF s.holder # p THEN s
  ELSE IF s.taken + 1 < Burst[p] THEN [s EXCEPT !.taken = @ + 1]
  ELSE EnsureHolder(Vacate(s))

YieldTurn(s, p) == IF s.holder = p THEN EnsureHolder(Vacate(s)) ELSE s

\* What releaseIfStale does once the holder is past its hold time.
ReleaseStale(s) ==
  IF s.holder = Nobody THEN s
  ELSE EnsureHolder(Vacate(SetPending(s, s.holder, FALSE)))

Place(s, p) == CHOOSE i \in 1 .. Len(s.order) : s.order[i] = p

\* Faulty variant: the cursor is left behind the end of the order.
UnregisterOnly(s, p) ==
  LET gone == [s EXCEPT !.order = RemoveAt(@, Place(s, p)), !.pending = @ \ {p}]
  IN  IF p \notin Registered(s) THEN s
      ELSE IF s.holder = p THEN Vacate(gone) ELSE gone

Unregister(s, p) ==
  IF p \notin Registered(s) THEN s
  ELSE LET rest == RemoveAt(s.order, Place(s, p))
           gone == [s EXCEPT !.order = rest, !.pending = @ \ {p},
                             !.cursor = IF rest = <<>> THEN 0 ELSE @ % Len(rest)]
       IN  IF s.holder = p THEN Vacate(gone) ELSE gone
=============================================================================
