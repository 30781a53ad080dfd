------------------------- MODULE TurnRotationProofs -------------------------
(***************************************************************************)
(* The rotation of one lane: its type invariant and the bound on how often *)
(* a waiting participant can be overtaken.                                 *)
(*                                                                         *)
(* The bound alone is not inductive: it does not say how many actions the  *)
(* others may still take.  Account adds them up: what p has taken since w  *)
(* began to wait, the rest of the turn p has, and one whole turn when p    *)
(* comes before w in the rotation or could come there by registering       *)
(* again.  Every step moves an amount from one place to another or drops   *)
(* it; only an unregistration adds a turn.                                 *)
(***************************************************************************)
EXTENDS TurnRotation, TurnSchedulerProofs

\* p comes before w when the rotation goes on from the cursor.
Precedes(s, p, w) ==
  \E i, j \in 1 .. Len(s.order) :
    s.order[i] = p /\ s.order[j] = w /\ Earlier(s.cursor, i, j)

\* p may still be given a whole turn before w gets its own.
Ahead(s, p, w) == p \notin Registered(s) \/ Precedes(s, p, w)

\* The actions that p may still take before w's turn.
Left(s, p, w) ==
  (IF s.holder = p THEN Burst[p] - s.taken ELSE 0)
    + (IF Ahead(s, p, w) THEN Burst[p] ELSE 0)

\* What p has taken and may still take while w waits.
Total(s, p, w) == acted[w][p] + (IF p = w THEN 0 ELSE Left(s, p, w))

Account ==
  \A w, p \in Participants :
    IF Waits(lane, w) THEN Total(lane, p, w) <= Burst[p] * rounds[w]
    ELSE acted[w][p] = 0 /\ rounds[w] = 0

RInv ==
  /\ LaneOK(lane)
  /\ acted \in [Participants -> [Participants -> Nat]]
  /\ rounds \in [Participants -> Nat]
  /\ Account

----------------------------------------------------------------------------
(* What may be left of the others' actions *)

LEMMA LeftType ==
  ASSUME TurnAssumption, NEW s, LaneOK(s), NEW p \in Participants, NEW w
  PROVE  Left(s, p, w) \in Nat
  <1>1. Burst[p] \in Nat
    BY BurstPositive
  <1>2. s.holder = p => s.taken \in Nat /\ s.taken < Burst[p]
    BY TurnAssumption DEF LaneOK, Schedulers, TurnAssumption
  <1> QED
    BY <1>1, <1>2 DEF Left

\* A newcomer goes behind everybody who is registered, or had a whole turn
\* counted already.
LEMMA LeftRegister ==
  ASSUME TurnAssumption, NEW s, LaneOK(s), NEW q \in Participants,
         NEW p \in Participants, NEW w \in s.pending
  PROVE  Left(Register(s, q), p, w) <= Left(s, p, w)
  <1> DEFINE t == Register(s, q)
  <1>1. CASE q \in Registered(s)
    BY <1>1, LeftType DEF Register
  <1>2. CASE q \notin Registered(s)
    <2>1. /\ t.order = Append(s.order, q)
          /\ t.holder = s.holder /\ t.cursor = s.cursor /\ t.taken = s.taken
          /\ Registered(t) = Registered(s) \cup {q}
      <3>1. t.order = Append(s.order, q)
        BY <1>2 DEF Register, LaneOK, Schedulers
      <3> QED
        BY <3>1, RegisterOK
    <2>2. /\ Len(s.order) \in Nat /\ Len(t.order) = Len(s.order) + 1
          /\ \A i \in 1 .. Len(s.order) : t.order[i] = s.order[i]
          /\ t.order[Len(s.order) + 1] = q
      BY <2>1, AppendProperties, LenProperties DEF LaneOK, Schedulers
    <2> HIDE DEF t
    <2>3. s.cursor \in Nat /\ w # q
      BY <1>2 DEF LaneOK, Schedulers
    <2>4. Ahead(t, p, w) => Ahead(s, p, w)
      <3> SUFFICES ASSUME p \in Registered(s), Precedes(t, p, w)
                   PROVE  Precedes(s, p, w)
        BY <2>1 DEF Ahead
      <3>1. PICK i, j \in 1 .. Len(t.order) :
              t.order[i] = p /\ t.order[j] = w /\ Earlier(t.cursor, i, j)
        BY DEF Precedes
      <3>2. i \in 1 .. Len(s.order) /\ j \in 1 .. Len(s.order)
        BY <1>2, <2>2, <2>3, <3>1
      <3> QED
        BY <2>1, <2>2, <3>1, <3>2 DEF Precedes
    <2>5. Burst[p] \in Nat
      BY BurstPositive
    <2>6. s.holder = p => s.taken \in Nat
      BY DEF LaneOK, Schedulers
    <2> QED
      BY <2>1, <2>4, <2>5, <2>6 DEF Left, t
  <1> QED
    BY <1>1, <1>2

LEMMA LeftSetPending ==
  ASSUME NEW s, LaneOK(s), NEW q, NEW work, NEW p, NEW w
  PROVE  Left(SetPending(s, q, work), p, w) = Left(s, p, w)
  <1>1. /\ SetPending(s, q, work).order = s.order /\ SetPending(s, q, work).holder = s.holder
        /\ SetPending(s, q, work).cursor = s.cursor /\ SetPending(s, q, work).taken = s.taken
    BY DEF SetPending, LaneOK, Schedulers
  <1> QED
    BY <1>1 DEF Left, Ahead, Precedes, Registered

LEMMA LeftVacate ==
  ASSUME TurnAssumption, NEW s, LaneOK(s), NEW p \in Participants, NEW w
  PROVE  /\ Left(Vacate(s), p, w) <= Left(s, p, w)
         /\ s.holder = p => Left(Vacate(s), p, w) + 1 <= Left(s, p, w)
  <1>1. /\ Vacate(s).order = s.order /\ Vacate(s).holder = Nobody
        /\ Vacate(s).cursor = s.cursor
    BY DEF Vacate, LaneOK, Schedulers
  <1>2. p # Nobody
    BY DEF TurnAssumption
  <1>3. Burst[p] \in Nat
    BY BurstPositive
  <1>4. s.holder = p => s.taken \in Nat /\ s.taken < Burst[p]
    BY <1>2 DEF LaneOK, Schedulers
  <1>5. Ahead(Vacate(s), p, w) <=> Ahead(s, p, w)
    BY <1>1 DEF Ahead, Precedes, Registered
  <1> QED
    BY <1>1, <1>2, <1>3, <1>4, <1>5 DEF Left

\* The new holder was ahead of w and is behind it now.
LEMMA LeftEnsureHolder ==
  ASSUME TurnAssumption, NEW s, LaneOK(s), NEW p \in Participants, NEW w \in Participants,
         p # w, w \in s.pending, EnsureHolder(s).holder # w
  PROVE  Left(EnsureHolder(s), p, w) <= Left(s, p, w)
  <1> DEFINE t == EnsureHolder(s)
             n == Len(s.order)
  <1>1. CASE s.holder \in s.pending
    <2>1. t = s
      BY <1>1 DEF EnsureHolder
    <2> QED
      BY <2>1, LeftType
  <1>2. CASE s.holder \notin s.pending
    <2>1. PICK k \in 1 .. n :
            /\ s.order[k] \in s.pending
            /\ \A m \in 1 .. n : Earlier(s.cursor, m, k) => s.order[m] \notin s.pending
            /\ t.order = s.order /\ t.pending = s.pending /\ t.holder = s.order[k]
            /\ t.cursor = (IF k = n THEN 0 ELSE k) /\ t.taken = 0
      BY <1>2, TurnGoesOn
    <2> HIDE DEF t
    <2>2. n \in Nat /\ s.cursor \in Nat /\ s.cursor < n
      BY <2>1, LenProperties DEF LaneOK, Schedulers
    <2>3. \A a, b \in 1 .. n : s.order[a] = s.order[b] => a = b
      BY LenProperties DEF LaneOK, Schedulers, IsInjective
    <2>4. PICK l \in 1 .. n : s.order[l] = w
      BY DEF LaneOK, Schedulers, Registered
    <2>5. k # l /\ ~Earlier(s.cursor, l, k)
      BY <2>1, <2>4 DEF t
    <2>6. Earlier(s.cursor, k, l)
      BY <2>2, <2>5 DEF Earlier
    <2>7. Registered(t) = Registered(s)
      BY <2>1 DEF Registered
    <2>8. Burst[p] \in Nat
      BY BurstPositive
    <2>9. Ahead(t, p, w) => Ahead(s, p, w)
      <3> SUFFICES ASSUME Precedes(t, p, w)
                   PROVE  Precedes(s, p, w)
        BY <2>7 DEF Ahead
      <3>1. PICK i \in 1 .. n : s.order[i] = p /\ Earlier(t.cursor, i, l)
        BY <2>1, <2>3, <2>4 DEF Precedes
      <3>2. Earlier(s.cursor, i, l)
        BY <2>1, <2>2, <2>6, <3>1 DEF Earlier
      <3> QED
        BY <2>4, <3>1, <3>2 DEF Precedes
    <2>10. CASE p = s.order[k]
      <3>1. p # s.holder /\ t.holder = p /\ t.taken = 0
        BY <1>2, <2>1, <2>10
      <3>2. Precedes(s, p, w)
        BY <2>4, <2>6, <2>10 DEF Precedes
      <3>3. ~Ahead(t, p, w)
        <4>1. p \in Registered(t)
          BY <2>7, <2>10 DEF Registered
        <4> SUFFICES ASSUME Precedes(t, p, w)
                     PROVE  FALSE
          BY <4>1 DEF Ahead
        <4>2. Earlier(t.cursor, k, l)
          BY <2>1, <2>3, <2>4, <2>10 DEF Precedes
        <4> QED
          BY <2>1, <2>2, <2>6, <4>2 DEF Earlier
      <3>4. Left(t, p, w) = Burst[p]
        BY <2>8, <3>1, <3>3 DEF Left
      <3>5. Left(s, p, w) = Burst[p]
        BY <2>8, <3>1, <3>2 DEF Left, Ahead
      <3> QED
        BY <2>8, <3>4, <3>5 DEF t
    <2>11. CASE p # s.order[k]
      <3>1. t.holder # p
        BY <2>1, <2>11
      <3>2. s.holder = p => s.taken \in Nat /\ s.taken < Burst[p]
        BY DEF LaneOK, Schedulers, TurnAssumption
      <3> QED
        BY <2>8, <2>9, <3>1, <3>2 DEF Left, t
    <2> QED
      BY <2>10, <2>11
  <1> QED
    BY <1>1, <1>2

LEMMA LeftRecordAction ==
  ASSUME TurnAssumption, NEW s, LaneOK(s), NEW q \in Participants, NEW p \in Participants,
         NEW w \in Participants, p # w, w \in s.pending, RecordAction(s, q).holder # w
  PROVE  /\ Left(RecordAction(s, q), p, w) <= Left(s, p, w)
         /\ s.holder = q /\ p = q => Left(RecordAction(s, q), p, w) + 1 <= Left(s, p, w)
  <1>1. Left(s, p, w) \in Nat /\ Burst[p] \in Nat
    BY LeftType, BurstPositive
  <1>2. CASE s.holder # q
    BY <1>1, <1>2 DEF RecordAction
  <1>3. CASE s.holder = q /\ s.taken + 1 < Burst[q]
    <2>1. /\ RecordAction(s, q).order = s.order /\ RecordAction(s, q).holder = s.holder
          /\ RecordAction(s, q).cursor = s.cursor
          /\ RecordAction(s, q).taken = s.taken + 1
      BY <1>3 DEF RecordAction, LaneOK, Schedulers
    <2>2. Ahead(RecordAction(s, q), p, w) <=> Ahead(s, p, w)
      BY <2>1 DEF Ahead, Precedes, Registered
    <2>3. s.taken \in Nat
      BY DEF LaneOK, Schedulers
    <2> QED
      BY <1>1, <1>3, <2>1, <2>2, <2>3 DEF Left
  <1>4. CASE s.holder = q /\ ~(s.taken + 1 < Burst[q])
    <2> DEFINE v == Vacate(s)
    <2>1. RecordAction(s, q) = EnsureHolder(v)
      BY <1>4 DEF RecordAction
    <2>2. /\ LaneOK(v) /\ v.pending = s.pending
          /\ Left(v, p, w) <= Left(s, p, w)
          /\ s.holder = p => Left(v, p, w) + 1 <= Left(s, p, w)
      BY VacateOK, LeftVacate
    <2> HIDE DEF v
    <2>3. Left(v, p, w) \in Nat /\ Left(EnsureHolder(v), p, w) \in Nat
      BY <2>2, LeftType, EnsureHolderOK
    <2>4. Left(EnsureHolder(v), p, w) <= Left(v, p, w)
      BY <2>1, <2>2, LeftEnsureHolder
    <2> QED
      BY <1>1, <1>4, <2>1, <2>2, <2>3, <2>4
  <1> QED
    BY <1>2, <1>3, <1>4

LEMMA LeftYieldTurn ==
  ASSUME TurnAssumption, NEW s, LaneOK(s), NEW q \in Participants, NEW p \in Participants,
         NEW w \in Participants, p # w, w \in s.pending, YieldTurn(s, q).holder # w
  PROVE  Left(YieldTurn(s, q), p, w) <= Left(s, p, w)
  <1>1. Left(s, p, w) \in Nat
    BY LeftType
  <1>2. CASE s.holder # q
    BY <1>1, <1>2 DEF YieldTurn
  <1>3. CASE s.holder = q
    <2> DEFINE v == Vacate(s)
    <2>1. YieldTurn(s, q) = EnsureHolder(v)
      BY <1>3 DEF YieldTurn
    <2>2. LaneOK(v) /\ v.pending = s.pending /\ Left(v, p, w) <= Left(s, p, w)
      BY VacateOK, LeftVacate
    <2> HIDE DEF v
    <2>3. Left(v, p, w) \in Nat /\ Left(EnsureHolder(v), p, w) \in Nat
      BY <2>2, LeftType, EnsureHolderOK
    <2>4. Left(EnsureHolder(v), p, w) <= Left(v, p, w)
      BY <2>1, <2>2, LeftEnsureHolder
    <2> QED
      BY <1>1, <2>1, <2>2, <2>3, <2>4
  <1> QED
    BY <1>2, <1>3

LEMMA LeftReleaseStale ==
  ASSUME TurnAssumption, NEW s, LaneOK(s), NEW p \in Participants,
         NEW w \in Participants, p # w, Waits(s, w), ReleaseStale(s).holder # w
  PROVE  Left(ReleaseStale(s), p, w) <= Left(s, p, w)
  <1>1. Left(s, p, w) \in Nat
    BY LeftType
  <1>2. CASE s.holder = Nobody
    BY <1>1, <1>2 DEF ReleaseStale
  <1>3. CASE s.holder # Nobody
    <2> DEFINE u == SetPending(s, s.holder, FALSE)
               v == Vacate(u)
    <2>1. ReleaseStale(s) = EnsureHolder(v)
      BY <1>3 DEF ReleaseStale
    <2>2. s.holder \in Participants
      BY <1>3 DEF LaneOK, Schedulers
    <2>3. LaneOK(u) /\ w \in u.pending /\ Left(u, p, w) = Left(s, p, w)
      <3>1. w \in s.pending /\ w # s.holder
        BY DEF Waits
      <3>2. LaneOK(u) /\ u.pending = s.pending \ {s.holder}
        BY <2>2, SetPendingOK
      <3>3. Left(u, p, w) = Left(s, p, w)
        <4>1. u.order = s.order /\ u.holder = s.holder /\ u.cursor = s.cursor /\ u.taken = s.taken
          BY DEF SetPending, LaneOK, Schedulers
        <4> QED
          BY <4>1 DEF Left, Ahead, Precedes, Registered
      <3> QED
        BY <3>1, <3>2, <3>3
    <2> HIDE DEF u
    <2>4. LaneOK(v) /\ v.pending = u.pending /\ Left(v, p, w) <= Left(u, p, w)
      BY <2>3, VacateOK, LeftVacate
    <2> HIDE DEF v
    <2>5. Left(v, p, w) \in Nat /\ Left(EnsureHolder(v), p, w) \in Nat
      BY <2>4, LeftType, EnsureHolderOK
    <2>6. Left(EnsureHolder(v), p, w) <= Left(v, p, w)
      BY <2>1, <2>3, <2>4, LeftEnsureHolder
    <2> QED
      BY <1>1, <2>1, <2>3, <2>4, <2>5, <2>6
  <1> QED
    BY <1>2, <1>3

\* An unregistration may cost a whole turn.
LEMMA LeftUnregister ==
  ASSUME TurnAssumption, NEW s, LaneOK(s), NEW q \in Participants, NEW p \in Participants,
         NEW w
  PROVE  Left(Unregister(s, q), p, w) <= Left(s, p, w) + Burst[p]
  <1> DEFINE t == Unregister(s, q)
  <1>1. Burst[p] \in Nat /\ p # Nobody /\ Left(s, p, w) \in Nat
    BY BurstPositive, LeftType DEF TurnAssumption
  <1>2. CASE q \notin Registered(s)
    BY <1>1, <1>2 DEF Unregister
  <1>3. CASE q \in Registered(s)
    <2>1. t.holder = p => s.holder = p /\ t.taken = s.taken
      BY <1>1, <1>3 DEF Unregister, Vacate, LaneOK, Schedulers
    <2>2. s.holder = p => s.taken \in Nat /\ s.taken < Burst[p]
      BY <1>1 DEF LaneOK, Schedulers
    <2> HIDE DEF t
    <2> QED
      BY <1>1, <2>1, <2>2 DEF Left, t
  <1> QED
    BY <1>2, <1>3

\* Somebody who begins to wait has counted what the others may take.
LEMMA LeftAtFirst ==
  ASSUME TurnAssumption, NEW s, LaneOK(s), NEW p \in Participants, NEW w \in Participants,
         p # w, Waits(s, w)
  PROVE  Left(s, p, w) <= Burst[p] * RoundsAtFirst(s, w)
  <1>1. Burst[p] \in Nat
    BY BurstPositive
  <1>2. s.holder = p => s.taken \in Nat /\ s.taken < Burst[p]
    BY DEF LaneOK, Schedulers, TurnAssumption
  <1>3. CASE ~(s.holder = p /\ Ahead(s, p, w))
    BY <1>1, <1>2, <1>3 DEF Left, RoundsAtFirst
  <1>4. CASE s.holder = p /\ Ahead(s, p, w)
    <2>1. p \in Registered(s)
      BY <1>4 DEF LaneOK, Schedulers, TurnAssumption
    <2>2. PICK i, j \in 1 .. Len(s.order) :
            s.order[i] = p /\ s.order[j] = w /\ Earlier(s.cursor, i, j)
      BY <1>4, <2>1 DEF Ahead, Precedes
    <2>3. Len(s.order) \in Nat /\ s.cursor \in Nat /\ s.cursor < Len(s.order)
      BY <2>2, LenProperties DEF LaneOK, Schedulers
    <2>4. /\ PlacesTo(s, i) \in 0 .. Len(s.order) - 1
          /\ FromCursor(s, PlacesTo(s, i)) = p
      BY <2>2, CursorReaches, FromCursorPlace
    <2>5. ASSUME NEW m \in 0 .. PlacesTo(s, i), FromCursor(s, m) = w
          PROVE  FALSE
      <3>1. m \in 0 .. Len(s.order) - 1
        BY <2>3, <2>4
      <3>2. s.order[PlaceAfter(s, m)] = w /\ PlaceAfter(s, m) \in 1 .. Len(s.order)
        BY <2>5, <3>1, FromCursorPlace
      <3>3. PlaceAfter(s, m) = j
        BY <2>2, <3>2, LenProperties DEF LaneOK, Schedulers, IsInjective
      <3>4. m <= PlacesTo(s, i)
        BY <2>3, <2>4
      <3>5. PlacesTo(s, j) = m
        <4>1. CASE s.cursor + m < Len(s.order)
          BY <2>3, <3>1, <3>3, <4>1 DEF PlaceAfter, PlacesTo
        <4>2. CASE ~(s.cursor + m < Len(s.order))
          <5>1. j = s.cursor + m + 1 - Len(s.order)
            BY <3>3, <4>2 DEF PlaceAfter
          <5>2. ~(s.cursor < j)
            BY <2>3, <3>1, <5>1
          <5> QED
            BY <2>3, <3>1, <5>1, <5>2 DEF PlacesTo
        <4> QED
          BY <4>1, <4>2
      <3>6. PlacesTo(s, i) < PlacesTo(s, j)
        BY <2>2, <2>3 DEF Earlier, PlacesTo
      <3> QED
        BY <2>3, <2>4, <3>1, <3>4, <3>5, <3>6
    <2>6. HolderAgainBefore(s, w)
      BY <1>4, <2>4, <2>5 DEF HolderAgainBefore
    <2> QED
      BY <1>1, <1>2, <1>4, <2>6 DEF Left, RoundsAtFirst
  <1> QED
    BY <1>3, <1>4

----------------------------------------------------------------------------
(* The steps *)

LEMMA Distributes ==
  ASSUME NEW b \in Nat, NEW r \in Nat, NEW d \in {0, 1}
  PROVE  b * (r + d) = b * r + d * b
  <1>1. CASE d = 0
    BY <1>1
  <1>2. CASE d = 1
    BY <1>2
  <1> QED
    BY <1>1, <1>2

\* A step keeps the account when it only moves what is in it.
LEMMA AccountKept ==
  ASSUME TurnAssumption, RInv, NEW t, LaneOK(t), NEW actor \in Participants \cup {Nobody},
         NEW drop \in {0, 1}, Becomes(t, actor, drop),
         \A w \in Participants : Waits(lane, w) /\ Waits(t, w) =>
           /\ w # actor
           /\ \A p \in Participants \ {w} :
                Left(t, p, w) + (IF p = actor THEN 1 ELSE 0)
                  <= Left(lane, p, w) + drop * Burst[p]
  PROVE  RInv'
  <1> DEFINE still == {w \in Participants : Waits(lane, w) /\ Waits(t, w)}
  <1>1. lane' = t
    BY DEF Becomes
  <1>2. \A w, p \in Participants :
          acted'[w][p] = IF w \notin still THEN 0
                         ELSE IF p = actor THEN acted[w][p] + 1 ELSE acted[w][p]
    BY DEF Becomes
  <1>3. \A w \in Participants :
          rounds'[w] = IF w \in still THEN rounds[w] + drop
                       ELSE IF Waits(t, w) THEN RoundsAtFirst(t, w) ELSE 0
    BY DEF Becomes
  <1>4. \A w, p \in Participants : acted[w][p] \in Nat /\ rounds[w] \in Nat
    BY DEF RInv
  <1>5. acted' \in [Participants -> [Participants -> Nat]]
    BY <1>4 DEF Becomes
  <1>6. rounds' \in [Participants -> Nat]
    BY <1>4 DEF Becomes, RoundsAtFirst
  <1>7. ASSUME NEW w \in Participants, NEW p \in Participants, Waits(t, w)
        PROVE  acted'[w][p] + (IF p = w THEN 0 ELSE Left(t, p, w)) <= Burst[p] * rounds'[w]
    <2>1. Burst[p] \in Nat /\ p # w => Left(t, p, w) \in Nat /\ Left(lane, p, w) \in Nat
      BY LeftType, BurstPositive DEF RInv
    <2>2. Burst[p] \in Nat
      BY BurstPositive
    <2>3. CASE w \in still
      <3>1. acted[w][p] + (IF p = w THEN 0 ELSE Left(lane, p, w)) <= Burst[p] * rounds[w]
        BY <2>3 DEF RInv, Account, Total
      <3>2. /\ w # actor
            /\ p # w => Left(t, p, w) + (IF p = actor THEN 1 ELSE 0)
                          <= Left(lane, p, w) + drop * Burst[p]
        BY <2>3
      <3>3. /\ acted'[w][p] = IF p = actor THEN acted[w][p] + 1 ELSE acted[w][p]
            /\ rounds'[w] = rounds[w] + drop
        BY <1>2, <1>3, <2>3
      <3>4. Burst[p] * (rounds[w] + drop) = Burst[p] * rounds[w] + drop * Burst[p]
        BY <1>4, <2>2, Distributes
      <3>5. Burst[p] * rounds[w] \in Nat /\ drop * Burst[p] \in Nat
        BY <1>4, <2>2
      <3>6. CASE p = w
        BY <1>4, <3>1, <3>2, <3>3, <3>4, <3>5, <3>6
      <3>7. CASE p # w
        BY <1>4, <2>1, <2>2, <3>1, <3>2, <3>3, <3>4, <3>5, <3>7
      <3> QED
        BY <3>6, <3>7
    <2>4. CASE w \notin still
      <3>1. acted'[w][p] = 0 /\ rounds'[w] = RoundsAtFirst(t, w)
        BY <1>2, <1>3, <1>7, <2>4
      <3>2. CASE p = w
        BY <2>2, <3>1, <3>2 DEF RoundsAtFirst
      <3>3. CASE p # w
        BY <1>7, <2>1, <2>2, <3>1, <3>3, LeftAtFirst
      <3> QED
        BY <3>2, <3>3
    <2> QED
      BY <2>3, <2>4
  <1>8. ASSUME NEW w \in Participants, NEW p \in Participants, ~Waits(t, w)
        PROVE  acted'[w][p] = 0 /\ rounds'[w] = 0
    BY <1>2, <1>3, <1>8
  <1>9. Account'
    BY <1>1, <1>7, <1>8 DEF Account, Total, Left, Ahead, Precedes, Registered, Waits
  <1> QED
    BY <1>1, <1>5, <1>6, <1>9 DEF RInv

LEMMA InitRInv ==
  ASSUME RotationInit
  PROVE  RInv
  <1>1. LaneOK(lane)
    BY EmptyLaneOK DEF RotationInit
  <1>2. \A w \in Participants : ~Waits(lane, w)
    BY DEF RotationInit, Waits, EmptyLane
  <1> QED
    BY <1>1, <1>2 DEF RotationInit, RInv, Account

LEMMA NextRInv ==
  ASSUME TurnAssumption, RInv, [RotationNext]_rotationVars
  PROVE  RInv'
  <1> USE DEF RInv
  <1>1. \A w, p \in Participants :
          Left(lane, p, w) \in Nat /\ Burst[p] \in Nat /\ 0 * Burst[p] = 0 /\ 1 * Burst[p] = Burst[p]
    BY LeftType, BurstPositive
  <1>2. Nobody \notin Participants
    BY DEF TurnAssumption
  <1>3. ASSUME NEW p \in Participants, Joins(p) PROVE RInv'
    <2>1. LaneOK(Register(lane, p))
      BY RegisterOK
    <2>2. \A w, q \in Participants : Waits(lane, w) => Left(Register(lane, p), q, w) <= Left(lane, q, w)
      BY LeftRegister DEF Waits
    <2>3. \A w, q \in Participants : Left(Register(lane, p), q, w) \in Nat
      BY <2>1, LeftType
    <2> QED
      BY <1>1, <1>2, <1>3, <2>1, <2>2, <2>3, AccountKept DEF Joins
  <1>4. ASSUME NEW p \in Participants, NEW work \in BOOLEAN, Offers(p, work) PROVE RInv'
    <2>1. LaneOK(SetPending(lane, p, work))
      BY SetPendingOK
    <2>2. \A w, q \in Participants : Left(SetPending(lane, p, work), q, w) = Left(lane, q, w)
      BY LeftSetPending
    <2> QED
      BY <1>1, <1>2, <1>4, <2>1, <2>2, AccountKept DEF Offers
  <1>5. ASSUME Becomes(EnsureHolder(lane), Nobody, 0) PROVE RInv'
    <2>1. LaneOK(EnsureHolder(lane))
      BY EnsureHolderOK
    <2>2. \A w, q \in Participants :
            Waits(lane, w) /\ Waits(EnsureHolder(lane), w) /\ q # w
              => Left(EnsureHolder(lane), q, w) <= Left(lane, q, w)
      BY LeftEnsureHolder DEF Waits
    <2>3. \A w, q \in Participants : Left(EnsureHolder(lane), q, w) \in Nat
      BY <2>1, LeftType
    <2> QED
      BY <1>1, <1>2, <1>5, <2>1, <2>2, <2>3, AccountKept
  <1>6. ASSUME Becomes(lane, Nobody, 0) PROVE RInv'
    BY <1>1, <1>2, <1>6, AccountKept
  <1>7. ASSUME NEW p \in Participants, Asks(p) PROVE RInv'
    BY <1>5, <1>6, <1>7 DEF Asks, RequestTurn
  <1>8. ASSUME NEW p \in Participants, Acts(p) PROVE RInv'
    <2> DEFINE actor == IF lane.holder = p THEN p ELSE Nobody
    <2>1. LaneOK(RecordAction(lane, p))
      BY RecordActionOK
    <2>2. \A w, q \in Participants :
            Waits(lane, w) /\ Waits(RecordAction(lane, p), w) /\ q # w
              => /\ Left(RecordAction(lane, p), q, w) <= Left(lane, q, w)
                 /\ lane.holder = p /\ q = p
                      => Left(RecordAction(lane, p), q, w) + 1 <= Left(lane, q, w)
      BY LeftRecordAction DEF Waits
    <2>3. \A w, q \in Participants : Left(RecordAction(lane, p), q, w) \in Nat
      BY <2>1, LeftType
    <2>4. \A w \in Participants : Waits(lane, w) => w # actor
      BY <1>2 DEF Waits
    <2>5. Becomes(RecordAction(lane, p), actor, 0) /\ actor \in Participants \cup {Nobody}
      BY <1>8 DEF Acts
    <2>6. \A w, q \in Participants :
            Waits(lane, w) /\ Waits(RecordAction(lane, p), w) /\ q # w
              => Left(RecordAction(lane, p), q, w) + (IF q = actor THEN 1 ELSE 0)
                   <= Left(lane, q, w) + 0 * Burst[q]
      BY <1>1, <1>2, <2>2, <2>3
    <2> HIDE DEF actor
    <2> QED
      BY <2>1, <2>4, <2>5, <2>6, AccountKept
  <1>9. ASSUME NEW p \in Participants, Yields(p) PROVE RInv'
    <2>1. LaneOK(YieldTurn(lane, p))
      BY YieldTurnOK
    <2>2. \A w, q \in Participants :
            Waits(lane, w) /\ Waits(YieldTurn(lane, p), w) /\ q # w
              => Left(YieldTurn(lane, p), q, w) <= Left(lane, q, w)
      BY LeftYieldTurn DEF Waits
    <2>3. \A w, q \in Participants : Left(YieldTurn(lane, p), q, w) \in Nat
      BY <2>1, LeftType
    <2> QED
      BY <1>1, <1>2, <1>9, <2>1, <2>2, <2>3, AccountKept DEF Yields
  <1>10. ASSUME Stale PROVE RInv'
    <2>1. LaneOK(ReleaseStale(lane))
      BY ReleaseStaleOK
    <2>2. \A w, q \in Participants :
            Waits(lane, w) /\ Waits(ReleaseStale(lane), w) /\ q # w
              => Left(ReleaseStale(lane), q, w) <= Left(lane, q, w)
      BY LeftReleaseStale DEF Waits
    <2>3. \A w, q \in Participants : Left(ReleaseStale(lane), q, w) \in Nat
      BY <2>1, LeftType
    <2> QED
      BY <1>1, <1>2, <1>10, <2>1, <2>2, <2>3, AccountKept DEF Stale
  <1>11. ASSUME NEW p \in Participants, Leaves(p) PROVE RInv'
    <2>1. LaneOK(Unregister(lane, p))
      BY UnregisterOK
    <2>2. \A w, q \in Participants : Left(Unregister(lane, p), q, w) <= Left(lane, q, w) + Burst[q]
      BY LeftUnregister
    <2>3. \A w, q \in Participants : Left(Unregister(lane, p), q, w) \in Nat
      BY <2>1, LeftType
    <2> QED
      BY <1>1, <1>2, <1>11, <2>1, <2>2, <2>3, AccountKept DEF Leaves
  <1>12. ASSUME UNCHANGED rotationVars PROVE RInv'
    BY <1>12 DEF rotationVars, Account, Total, Left, Ahead, Precedes, Registered, Waits
  <1> QED
    BY <1>3, <1>4, <1>5, <1>7, <1>8, <1>9, <1>10, <1>11, <1>12 DEF RotationNext, Looks

\* Through every registration, request, grant, action, stale release and
\* unregistration of the scheduler, the lane stays a lane and what the others
\* took and may still take stays within what the rotation owes the waiter.
THEOREM RotationInvariant == RotationSpec => []RInv
  <1>1. RotationInit => RInv
    BY InitRInv
  <1>2. RInv /\ [RotationNext]_rotationVars => RInv'
    BY TurnAssumption, NextRInv
  <1> QED
    BY <1>1, <1>2, PTL DEF RotationSpec

\* The scheduler's order lists each registered agent once; holder, cursor and
\* the actions of the turn stay within it; only registered agents have work.
THEOREM RotationTypeCorrect == RotationSpec => []RotationTypeOK
  <1>1. RInv => RotationTypeOK
    BY LenProperties DEF RInv, RotationTypeOK, LaneOK, Schedulers
  <1> QED
    BY <1>1, RotationInvariant, PTL

\* Nobody takes more actions while another waits than its burst for each round
\* the rotation owes the waiter: grants and bursts do not starve anyone.
THEOREM OvertakingBounded == RotationSpec => []BoundedOvertaking
  <1>1. RInv => BoundedOvertaking
    <2> SUFFICES ASSUME RInv, NEW w \in Participants, NEW p \in Participants
                 PROVE  acted[w][p] <= Burst[p] * rounds[w]
      BY DEF BoundedOvertaking
    <2>1. acted[w][p] \in Nat /\ rounds[w] \in Nat /\ Burst[p] \in Nat
      BY TurnAssumption, BurstPositive DEF RInv
    <2>2. Burst[p] * rounds[w] \in Nat
      BY <2>1
    <2>3. CASE ~Waits(lane, w)
      BY <2>1, <2>2, <2>3 DEF RInv, Account
    <2>4. CASE Waits(lane, w)
      <3>1. Left(lane, p, w) \in Nat
        BY TurnAssumption, LeftType DEF RInv
      <3>2. acted[w][p] + (IF p = w THEN 0 ELSE Left(lane, p, w)) <= Burst[p] * rounds[w]
        BY <2>4 DEF RInv, Account, Total
      <3> QED
        BY <2>1, <2>2, <3>1, <3>2
    <2> QED
      BY <2>3, <2>4
  <1> QED
    BY <1>1, RotationInvariant, PTL
=============================================================================
