--------------------------- MODULE TurnRotation ---------------------------
(***************************************************************************)
(* One lane of the turn scheduler under any sequence of its methods.       *)
(* History counts, for everybody who waits, the actions the others take    *)
(* meanwhile.                                                              *)
(***************************************************************************)
EXTENDS TurnScheduler

CONSTANT MaxRounds   \* bound: nobody is unregistered once a waiter must grant so many

VARIABLES
  lane,
  acted,     \* acted[w][p]: actions p took since w began to wait
  rounds     \* rounds[w]: bursts w must grant each of the others

rotationVars == <<lane, acted, rounds>>

Waits(s, w) == w \in s.pending /\ s.holder # w

\* The rotation comes to the holder again before it comes to w: w registered
\* at the end after the cursor had wrapped to the front, or an unregistration
\* moved the order under the cursor.
HolderAgainBefore(s, w) ==
  \E i \in 0 .. Len(s.order) - 1 :
    /\ FromCursor(s, i) = s.holder
    /\ \A j \in 0 .. i : FromCursor(s, j) # w

RoundsAtFirst(s, w) == IF HolderAgainBefore(s, w) THEN 2 ELSE 1

\* The new lane, and what everybody still waiting has seen of it: the action
\* of actor, and whether somebody was unregistered.
Becomes(s, actor, drop) ==
  /\ lane' = s
  /\ LET still == {w \in Participants : Waits(lane, w) /\ Waits(s, w)} IN
     /\ acted' = [w \in Participants |-> [p \in Participants |->
          IF w \notin still THEN 0
          ELSE IF p = actor THEN acted[w][p] + 1 ELSE acted[w][p]]]
     /\ rounds' = [w \in Participants |->
          IF w \in still THEN rounds[w] + drop
          ELSE IF Waits(s, w) THEN RoundsAtFirst(s, w) ELSE 0]

RotationInit ==
  /\ lane = EmptyLane
  /\ acted = [w \in Participants |-> [p \in Participants |-> 0]]
  /\ rounds = [w \in Participants |-> 0]

Joins(p) == Becomes(Register(lane, p), Nobody, 0)

Offers(p, work) == Becomes(SetPending(lane, p, work), Nobody, 0)

Asks(p) == Becomes(RequestTurn(lane, p), Nobody, 0)

\* currentHolder and snapshot settle who holds the turn, too.
Looks == Becomes(EnsureHolder(lane), Nobody, 0)

\* An action of somebody else than the holder leaves the lane alone.
Acts(p) == Becomes(RecordAction(lane, p), IF lane.holder = p THEN p ELSE Nobody, 0)

Yields(p) == Becomes(YieldTurn(lane, p), Nobody, 0)

Stale == Becomes(ReleaseStale(lane), Nobody, 0)

Leaves(p) ==
  /\ \A w \in Participants : rounds[w] < MaxRounds
  /\ Becomes(Unregister(lane, p), Nobody, 1)

RotationNext ==
  \/ \E p \in Participants :
       \/ Joins(p) \/ Asks(p) \/ Acts(p) \/ Yields(p) \/ Leaves(p)
       \/ \E work \in BOOLEAN : Offers(p, work)
  \/ Looks
  \/ Stale

RotationSpec == RotationInit /\ [][RotationNext]_rotationVars

----------------------------------------------------------------------------
(* Properties *)

\* Type invariant: the cursor stays inside the order, nobody is listed twice,
\* and only the registered have work or the turn.
RotationTypeOK ==
  /\ lane.order \in Seq(Participants) /\ IsInjective(lane.order)
  /\ lane.pending \subseteq Registered(lane)
  /\ lane.holder \in Registered(lane) \cup {Nobody}
  /\ lane.cursor \in 0 .. Len(lane.order)
  /\ lane.cursor = 0 \/ lane.cursor < Len(lane.order)
  /\ lane.taken \in Nat
  /\ lane.holder # Nobody => lane.taken < Burst[lane.holder]

\* Round robin: while somebody waits with work to do, nobody else takes more
\* than one burst, however requests, early yields, stale holders and
\* newcomers interleave.  A second burst is left to the holder at the start
\* of the wait when the rotation reaches it before the waiter, and every
\* unregistration meanwhile may cost one more.
BoundedOvertaking ==
  \A w, p \in Participants : acted[w][p] <= Burst[p] * rounds[w]
=============================================================================
