------------------------ MODULE TurnSchedulerProofs ------------------------
(***************************************************************************)
(* What the methods of a lane of the turn scheduler preserve, whoever      *)
(* calls them: the lemmas that TurnRotationProofs and WebTurnsProofs share.*)
(***************************************************************************)
EXTENDS TurnScheduler, TLAPS, SequenceTheorems, WellFoundedInduction

Schedulers ==
  [order : Seq(Participants), pending : SUBSET Participants,
   holder : Participants \cup {Nobody}, cursor : Nat, taken : Nat]

\* A lane that any sequence of the methods can have left.
LaneOK(s) ==
  /\ s \in Schedulers
  /\ IsInjective(s.order)
  /\ s.pending \subseteq Registered(s)
  /\ s.holder \in Registered(s) \cup {Nobody}
  /\ s.cursor = 0 \/ s.cursor < Len(s.order)
  /\ s.holder # Nobody => s.taken < Burst[s.holder]

LEMMA BurstPositive ==
  ASSUME TurnAssumption, NEW p \in Participants
  PROVE  Burst[p] \in Nat /\ 0 < Burst[p]
  <1>1. Burst[p] \in 1 .. 50
    BY DEF TurnAssumption
  <1> QED
    BY <1>1

----------------------------------------------------------------------------
(* The rotation *)

\* The remainder of a sum of two places, the second up to the whole length.
LEMMA WrapOnce ==
  ASSUME NEW n \in Nat, NEW c \in 0 .. n - 1, NEW k \in 0 .. n
  PROVE  (c + k) % n = IF c + k < n THEN c + k ELSE c + k - n
  OBVIOUS

LEMMA NoWrap ==
  ASSUME NEW n \in Nat \ {0}, NEW c \in Nat
  PROVE  c % n \in 0 .. n - 1
  OBVIOUS

\* A nonempty set of naturals has a least element.
LEMMA LeastElement ==
  ASSUME NEW T, T \subseteq Nat, T # {}
  PROVE  \E i \in T : \A j \in T : i <= j
  <1>1. PICK i \in T : \A j \in T : ~(<<j, i>> \in OpToRel(<, Nat))
    BY WFMin, NatLessThanWellFounded
  <1>2. ASSUME NEW j \in T PROVE i <= j
    <2>1. ~(j < i) \/ ~(j \in Nat /\ i \in Nat)
      BY <1>1 DEF OpToRel
    <2> QED
      BY <2>1
  <1> QED
    BY <1>2

\* The place in the order that is i places after the cursor.
PlaceAfter(s, i) ==
  IF s.cursor + i < Len(s.order)
    THEN s.cursor + i + 1 ELSE s.cursor + i + 1 - Len(s.order)

LEMMA FromCursorPlace ==
  ASSUME NEW s, LaneOK(s), NEW i \in 0 .. Len(s.order) - 1
  PROVE  /\ FromCursor(s, i) = s.order[PlaceAfter(s, i)]
         /\ PlaceAfter(s, i) \in 1 .. Len(s.order)
         /\ (s.cursor + i + 1) % Len(s.order) =
              IF PlaceAfter(s, i) = Len(s.order) THEN 0 ELSE PlaceAfter(s, i)
  <1> DEFINE n == Len(s.order)
             c == s.cursor
  <1>1. n \in Nat /\ c \in 0 .. n - 1
    BY LenProperties DEF LaneOK, Schedulers
  <1> HIDE DEF n, c
  <1>2. i \in 0 .. n /\ i + 1 \in 0 .. n /\ c + (i + 1) = c + i + 1
    BY <1>1 DEF n
  <1>3. (c + i) % n = IF c + i < n THEN c + i ELSE c + i - n
    BY <1>1, <1>2, WrapOnce
  <1>4. (c + i + 1) % n = IF c + i + 1 < n THEN c + i + 1 ELSE c + i + 1 - n
    <2> DEFINE m == i + 1
    <2>1. m \in 0 .. n /\ c + m = c + i + 1
      BY <1>2
    <2> HIDE DEF m
    <2>2. (c + m) % n = IF c + m < n THEN c + m ELSE c + m - n
      BY <1>1, <2>1, WrapOnce
    <2> HIDE DEF n, c
    <2> QED
      BY <1>1, <2>1, <2>2
  <1> DEFINE k == IF c + i < n THEN c + i + 1 ELSE c + i + 1 - n
  <1>5. k \in 1 .. n
    BY <1>1, <1>2
  <1>6. ((c + i) % n) + 1 = k
    BY <1>1, <1>2, <1>3
  <1>7. (c + i + 1) % n = IF k = n THEN 0 ELSE k
    BY <1>1, <1>2, <1>4
  <1>8. k = PlaceAfter(s, i)
    BY DEF PlaceAfter, c, n
  <1>9. FromCursor(s, i) = s.order[((c + i) % n) + 1]
    BY DEF FromCursor, c, n
  <1> HIDE DEF k
  <1> QED
    BY <1>5, <1>6, <1>7, <1>8, <1>9 DEF c, n

\* Every place of the order is some places after the cursor.
PlacesTo(s, k) == IF s.cursor < k THEN k - 1 - s.cursor ELSE k - 1 - s.cursor + Len(s.order)

LEMMA CursorReaches ==
  ASSUME NEW s, LaneOK(s), NEW k \in 1 .. Len(s.order)
  PROVE  /\ PlacesTo(s, k) \in 0 .. Len(s.order) - 1
         /\ PlaceAfter(s, PlacesTo(s, k)) = k
  <1>1. Len(s.order) \in Nat /\ s.cursor \in Nat /\ s.cursor < Len(s.order)
    BY LenProperties DEF LaneOK, Schedulers
  <1> QED
    BY <1>1 DEF PlacesTo, PlaceAfter

\* advance finds somebody when somebody has work, and nobody with work is
\* passed over.
LEMMA FirstReadyFound ==
  ASSUME NEW s, LaneOK(s), s.pending # {}
  PROVE  /\ FirstReady(s) \in 0 .. Len(s.order) - 1
         /\ FromCursor(s, FirstReady(s)) \in s.pending
         /\ \A j \in 0 .. FirstReady(s) - 1 : FromCursor(s, j) \notin s.pending
  <1> DEFINE n == Len(s.order)
             T == {i \in 0 .. n - 1 : FromCursor(s, i) \in s.pending}
  <1>1. n \in Nat /\ s.cursor \in Nat
    BY LenProperties DEF LaneOK, Schedulers
  <1>2. PICK p \in s.pending : TRUE
    OBVIOUS
  <1>3. PICK k \in 1 .. n : s.order[k] = p
    BY <1>2 DEF LaneOK, Schedulers, Registered
  <1>4. PlacesTo(s, k) \in T
    BY <1>2, <1>3, CursorReaches, FromCursorPlace
  <1>5. T \subseteq Nat
    BY <1>1
  <1>6. PICK i \in T : \A j \in T : i <= j
    <2> HIDE DEF T
    <2> QED
      BY <1>4, <1>5, LeastElement
  <1>7. \A j \in 0 .. i - 1 : FromCursor(s, j) \notin s.pending
    BY <1>1, <1>6
  <1> QED
    BY <1>6, <1>7 DEF FirstReady

\* Going on from cursor c, place i comes before place j.
Earlier(c, i, j) ==
  \/ c < i /\ (i < j \/ j <= c)
  \/ i < j /\ j <= c

\* A new turn goes to the first place with work; the cursor goes past it.
LEMMA TurnGoesOn ==
  ASSUME NEW s, LaneOK(s), s.pending # {}, s.holder \notin s.pending
  PROVE  \E k \in 1 .. Len(s.order) :
           /\ s.order[k] \in s.pending
           /\ \A m \in 1 .. Len(s.order) :
                Earlier(s.cursor, m, k) => s.order[m] \notin s.pending
           /\ EnsureHolder(s).order = s.order
           /\ EnsureHolder(s).pending = s.pending
           /\ EnsureHolder(s).holder = s.order[k]
           /\ EnsureHolder(s).cursor = IF k = Len(s.order) THEN 0 ELSE k
           /\ EnsureHolder(s).taken = 0
           /\ EnsureHolder(s) =
                [order |-> s.order, pending |-> s.pending, holder |-> s.order[k],
                 cursor |-> IF k = Len(s.order) THEN 0 ELSE k, taken |-> 0]
  <1> DEFINE i == FirstReady(s)
             k == PlaceAfter(s, i)
             n == Len(s.order)
  <1>1. /\ i \in 0 .. n - 1 /\ FromCursor(s, i) \in s.pending
        /\ \A j \in 0 .. i - 1 : FromCursor(s, j) \notin s.pending
    BY FirstReadyFound
  <1>2. /\ FromCursor(s, i) = s.order[k] /\ k \in 1 .. n
        /\ (s.cursor + i + 1) % n = IF k = n THEN 0 ELSE k
    BY <1>1, FromCursorPlace
  <1>3. n \in Nat /\ s.cursor \in Nat /\ s.cursor < n
    BY <1>2, LenProperties DEF LaneOK, Schedulers
  <1>4. ASSUME NEW m \in 1 .. n, Earlier(s.cursor, m, k)
        PROVE  s.order[m] \notin s.pending
    <2>1. PlacesTo(s, m) \in 0 .. n - 1 /\ PlaceAfter(s, PlacesTo(s, m)) = m
      BY CursorReaches
    <2>2. PlacesTo(s, m) < i
      BY <1>1, <1>3, <1>4 DEF Earlier, PlacesTo, PlaceAfter
    <2>3. FromCursor(s, PlacesTo(s, m)) = s.order[m]
      BY <2>1, FromCursorPlace
    <2>4. PlacesTo(s, m) \in 0 .. i - 1
      BY <1>1, <2>1, <2>2
    <2> QED
      BY <1>1, <2>3, <2>4
  <1>5. EnsureHolder(s) = [s EXCEPT !.holder = s.order[k],
                                    !.cursor = IF k = n THEN 0 ELSE k, !.taken = 0]
    BY <1>2 DEF EnsureHolder
  <1>6. s = [order |-> s.order, pending |-> s.pending, holder |-> s.holder,
             cursor |-> s.cursor, taken |-> s.taken]
    BY DEF LaneOK, Schedulers
  <1> HIDE DEF i, k
  <1>7. EnsureHolder(s) = [order |-> s.order, pending |-> s.pending, holder |-> s.order[k],
                           cursor |-> IF k = n THEN 0 ELSE k, taken |-> 0]
    BY <1>5, <1>6
  <1> QED
    BY <1>1, <1>2, <1>4, <1>7

\* Whatever was the holder's, afterwards the turn is somebody's with work.
LEMMA EnsureHolderOK ==
  ASSUME NEW s, LaneOK(s), TurnAssumption
  PROVE  /\ LaneOK(EnsureHolder(s))
         /\ EnsureHolder(s).order = s.order
         /\ EnsureHolder(s).pending = s.pending
         /\ s.pending # {} => EnsureHolder(s).holder \in s.pending
         /\ s.pending = {} => EnsureHolder(s).holder = Nobody
  <1>1. CASE s.holder \in s.pending
    BY <1>1, TurnAssumption DEF EnsureHolder
  <1>2. CASE s.holder \notin s.pending /\ s.pending = {}
    BY <1>2 DEF EnsureHolder, Vacate, LaneOK, Schedulers, Registered
  <1>3. CASE s.holder \notin s.pending /\ s.pending # {}
    <2> DEFINE t == EnsureHolder(s)
    <2>1. PICK k \in 1 .. Len(s.order) :
            /\ s.order[k] \in s.pending
            /\ t.order = s.order /\ t.pending = s.pending /\ t.holder = s.order[k]
            /\ t.cursor = (IF k = Len(s.order) THEN 0 ELSE k) /\ t.taken = 0
            /\ t = [order |-> s.order, pending |-> s.pending, holder |-> s.order[k],
                    cursor |-> IF k = Len(s.order) THEN 0 ELSE k, taken |-> 0]
      BY <1>3, TurnGoesOn
    <2> HIDE DEF t
    <2>2. Len(s.order) \in Nat /\ s.order[k] \in Participants /\ s.order[k] # Nobody
      BY <2>1, LenProperties, TurnAssumption DEF LaneOK, Schedulers, TurnAssumption
    <2>3. 0 < Burst[s.order[k]]
      BY <2>2, BurstPositive
    <2>4. Registered(t) = Registered(s)
      BY <2>1 DEF Registered
    <2>5. t \in Schedulers
      BY <2>1, <2>2 DEF LaneOK, Schedulers
    <2>6. s.order[k] \in Registered(s)
      BY <2>1 DEF Registered
    <2>7. t.cursor = 0 \/ t.cursor < Len(t.order)
      BY <2>1, <2>2
    <2>8. LaneOK(t)
      BY <2>1, <2>2, <2>3, <2>4, <2>5, <2>6, <2>7 DEF LaneOK, Schedulers
    <2> QED
      BY <1>3, <2>1, <2>8 DEF t
  <1> QED
    BY <1>1, <1>2, <1>3

----------------------------------------------------------------------------
(* The methods *)

LEMMA EmptyLaneOK == LaneOK(EmptyLane)
  BY EmptySeq DEF LaneOK, Schedulers, EmptyLane, IsInjective, Registered

\* A newcomer goes to the end of the order.
LEMMA RegisterOK ==
  ASSUME NEW s, LaneOK(s), NEW p \in Participants
  PROVE  /\ LaneOK(Register(s, p))
         /\ Registered(Register(s, p)) = Registered(s) \cup {p}
         /\ Register(s, p).pending = s.pending
         /\ Register(s, p).holder = s.holder
         /\ Register(s, p).cursor = s.cursor
         /\ Register(s, p).taken = s.taken
  <1>1. CASE p \in Registered(s)
    BY <1>1 DEF Register
  <1>2. CASE p \notin Registered(s)
    <2> DEFINE t == Register(s, p)
               n == Len(s.order)
    <2>1. /\ t.order = Append(s.order, p) /\ t.pending = s.pending
          /\ t.holder = s.holder /\ t.cursor = s.cursor /\ t.taken = s.taken
          /\ t = [order |-> Append(s.order, p), pending |-> s.pending,
                  holder |-> s.holder, cursor |-> s.cursor, taken |-> s.taken]
      BY <1>2 DEF Register, LaneOK, Schedulers
    <2>2. /\ t.order \in Seq(Participants) /\ n \in Nat /\ Len(t.order) = n + 1
          /\ \A i \in 1 .. n : t.order[i] = s.order[i]
          /\ t.order[n + 1] = p /\ DOMAIN t.order = 1 .. n + 1 /\ DOMAIN s.order = 1 .. n
      BY <2>1, AppendProperties, LenProperties DEF LaneOK, Schedulers
    <2> HIDE DEF t
    <2>3. Registered(t) = Registered(s) \cup {p}
      BY <2>2 DEF Registered
    <2>4. IsInjective(t.order)
      BY <1>2, <2>2 DEF LaneOK, Schedulers, IsInjective, Registered
    <2>5. t.cursor = 0 \/ t.cursor < Len(t.order)
      BY <2>1, <2>2 DEF LaneOK, Schedulers
    <2>6. LaneOK(t)
      BY <2>1, <2>2, <2>3, <2>4, <2>5 DEF LaneOK, Schedulers
    <2> QED
      BY <2>1, <2>3, <2>6 DEF t
  <1> QED
    BY <1>1, <1>2

LEMMA SetPendingOK ==
  ASSUME NEW s, LaneOK(s), NEW p \in Participants, NEW work \in BOOLEAN
  PROVE  /\ LaneOK(SetPending(s, p, work))
         /\ SetPending(s, p, work).pending =
              IF work /\ p \in Registered(s) THEN s.pending \cup {p} ELSE s.pending \ {p}
         /\ Registered(SetPending(s, p, work)) = Registered(s)
         /\ SetPending(s, p, work).holder = s.holder
  BY DEF LaneOK, Schedulers, SetPending, Registered

LEMMA VacateOK ==
  ASSUME NEW s, LaneOK(s)
  PROVE  LaneOK(Vacate(s)) /\ Vacate(s).pending = s.pending
  BY DEF LaneOK, Schedulers, Vacate, Registered

LEMMA RequestTurnOK ==
  ASSUME NEW s, LaneOK(s), NEW p \in Participants, TurnAssumption
  PROVE  LaneOK(RequestTurn(s, p)) /\ RequestTurn(s, p).pending = s.pending
  BY EnsureHolderOK DEF RequestTurn

LEMMA RecordActionOK ==
  ASSUME NEW s, LaneOK(s), NEW p \in Participants, TurnAssumption
  PROVE  LaneOK(RecordAction(s, p)) /\ RecordAction(s, p).pending = s.pending
  <1>1. CASE s.holder # p
    BY <1>1 DEF RecordAction
  <1>2. CASE s.holder = p /\ s.taken + 1 < Burst[p]
    BY <1>2 DEF RecordAction, LaneOK, Schedulers, Registered
  <1>3. CASE s.holder = p /\ ~(s.taken + 1 < Burst[p])
    <2>1. RecordAction(s, p) = EnsureHolder(Vacate(s))
      BY <1>3 DEF RecordAction
    <2> QED
      BY <2>1, VacateOK, EnsureHolderOK
  <1> QED
    BY <1>1, <1>2, <1>3

LEMMA YieldTurnOK ==
  ASSUME NEW s, LaneOK(s), NEW p \in Participants, TurnAssumption
  PROVE  LaneOK(YieldTurn(s, p))
  BY VacateOK, EnsureHolderOK DEF YieldTurn

LEMMA ReleaseStaleOK ==
  ASSUME NEW s, LaneOK(s), TurnAssumption
  PROVE  LaneOK(ReleaseStale(s))
  <1>1. CASE s.holder = Nobody
    BY <1>1 DEF ReleaseStale
  <1>2. CASE s.holder # Nobody
    <2>1. s.holder \in Participants
      BY <1>2 DEF LaneOK, Schedulers
    <2>2. LaneOK(SetPending(s, s.holder, FALSE))
      BY <2>1, SetPendingOK
    <2> QED
      BY <1>2, <2>2, VacateOK, EnsureHolderOK DEF ReleaseStale
  <1> QED
    BY <1>1, <1>2

\* The order without one place: everybody else keeps the relative order.
LEMMA RemoveAtOK ==
  ASSUME NEW S, NEW q \in Seq(S), NEW k \in 1 .. Len(q)
  PROVE  /\ RemoveAt(q, k) \in Seq(S)
         /\ Len(RemoveAt(q, k)) = Len(q) - 1
         /\ \A i \in 1 .. Len(q) - 1 :
              RemoveAt(q, k)[i] = IF i < k THEN q[i] ELSE q[i + 1]
  <1> DEFINE n == Len(q)
             a == SubSeq(q, 1, k - 1)
             b == SubSeq(q, k + 1, n)
  <1>1. n \in Nat /\ \A i \in 1 .. n : q[i] \in S
    BY LenProperties
  <1>2. /\ a \in Seq(S) /\ Len(a) = k - 1
        /\ \A i \in 1 .. k - 1 : a[i] = q[i]
    <2>1. /\ SubSeq(q, 1, k - 1) \in Seq(S)
          /\ Len(SubSeq(q, 1, k - 1)) = IF 1 <= k - 1 THEN k - 1 - 1 + 1 ELSE 0
          /\ \A i \in 1 .. k - 1 - 1 + 1 : SubSeq(q, 1, k - 1)[i] = q[1 + i - 1]
      BY <1>1, SubSeqProperties
    <2> QED
      BY <2>1
  <1>3. /\ b \in Seq(S) /\ Len(b) = n - k
        /\ \A i \in 1 .. n - k : b[i] = q[k + i]
    <2>1. /\ SubSeq(q, k + 1, n) \in Seq(S)
          /\ Len(SubSeq(q, k + 1, n)) = IF k + 1 <= n THEN n - (k + 1) + 1 ELSE 0
          /\ \A i \in 1 .. n - (k + 1) + 1 : SubSeq(q, k + 1, n)[i] = q[k + 1 + i - 1]
      BY <1>1, SubSeqProperties
    <2> QED
      BY <1>1, <2>1
  <1> HIDE DEF a, b
  <1>4. /\ a \o b \in Seq(S) /\ Len(a \o b) = Len(a) + Len(b)
        /\ \A i \in 1 .. Len(a) + Len(b) :
             (a \o b)[i] = IF i <= Len(a) THEN a[i] ELSE b[i - Len(a)]
    BY <1>2, <1>3, ConcatProperties
  <1>5. ASSUME NEW i \in 1 .. n - 1
        PROVE  (a \o b)[i] = IF i < k THEN q[i] ELSE q[i + 1]
    <2>1. i \in 1 .. Len(a) + Len(b) /\ n \in Nat
      BY <1>1, <1>2, <1>3
    <2>2. CASE i < k
      BY <1>2, <1>4, <2>1, <2>2
    <2>3. CASE k <= i
      <3>1. i - Len(a) \in 1 .. n - k /\ k + (i - Len(a)) = i + 1 /\ ~(i <= Len(a))
        BY <1>1, <1>2, <2>3
      <3>2. (a \o b)[i] = b[i - Len(a)]
        BY <1>4, <2>1, <3>1
      <3>3. b[i - Len(a)] = q[k + (i - Len(a))]
        BY <1>3, <3>1
      <3>4. ~(i < k)
        BY <2>1, <2>3
      <3> QED
        BY <3>1, <3>2, <3>3, <3>4
    <2> QED
      BY <2>1, <2>2, <2>3
  <1>6. Len(a \o b) = n - 1
    BY <1>1, <1>2, <1>3, <1>4
  <1>7. RemoveAt(q, k) = a \o b
    BY DEF RemoveAt, a, b
  <1> QED
    BY <1>4, <1>5, <1>6, <1>7

LEMMA UnregisterOK ==
  ASSUME NEW s, LaneOK(s), NEW p \in Participants
  PROVE  LaneOK(Unregister(s, p))
  <1>1. CASE p \notin Registered(s)
    BY <1>1 DEF Unregister
  <1>2. CASE p \in Registered(s)
    <2> DEFINE n == Len(s.order)
               k == Place(s, p)
               rest == RemoveAt(s.order, k)
               c == IF rest = <<>> THEN 0 ELSE s.cursor % Len(rest)
               work == s.pending \ {p}
               gone == [s EXCEPT !.order = rest, !.pending = work, !.cursor = c]
    <2>1. k \in 1 .. n /\ s.order[k] = p
      BY <1>2 DEF Registered, Place
    <2>2. n \in Nat /\ DOMAIN s.order = 1 .. n /\ \A i \in 1 .. n : s.order[i] \in Participants
      BY LenProperties DEF LaneOK, Schedulers
    <2>3. /\ rest \in Seq(Participants) /\ Len(rest) = n - 1
          /\ \A i \in 1 .. n - 1 : rest[i] = IF i < k THEN s.order[i] ELSE s.order[i + 1]
      <3>1. s.order \in Seq(Participants)
        BY DEF LaneOK, Schedulers
      <3> HIDE DEF k
      <3> QED
        BY <2>1, <3>1, RemoveAtOK
    <2>4. DOMAIN rest = 1 .. n - 1
      BY <2>3, LenProperties
    <2> HIDE DEF k, rest
    <2>5. c \in Nat /\ (c = 0 \/ c < Len(rest))
      <3>1. CASE rest = <<>>
        BY <3>1
      <3>2. CASE rest # <<>>
        <4>1. Len(rest) \in Nat \ {0}
          BY <2>3, <3>2, EmptySeq
        <4>2. s.cursor \in Nat
          BY DEF LaneOK, Schedulers
        <4>3. s.cursor % Len(rest) \in 0 .. Len(rest) - 1
          BY <4>1, <4>2, NoWrap
        <4> QED
          BY <3>2, <4>1, <4>3
      <3> QED
        BY <3>1, <3>2
    <2> HIDE DEF c, work
    <2>6. \A a, b \in 1 .. n : s.order[a] = s.order[b] => a = b
      BY <2>2 DEF LaneOK, Schedulers, IsInjective
    <2>7. IsInjective(rest)
      <3> SUFFICES ASSUME NEW a \in 1 .. n - 1, NEW b \in 1 .. n - 1, rest[a] = rest[b]
                   PROVE  a = b
        BY <2>4 DEF IsInjective
      <3>1. CASE a < k /\ b < k
        BY <2>1, <2>2, <2>3, <2>6, <3>1
      <3>2. CASE ~(a < k) /\ ~(b < k)
        BY <2>1, <2>2, <2>3, <2>6, <3>2
      <3>3. CASE a < k /\ ~(b < k)
        BY <2>1, <2>2, <2>3, <2>6, <3>3
      <3>4. CASE ~(a < k) /\ b < k
        BY <2>1, <2>2, <2>3, <2>6, <3>4
      <3> QED
        BY <3>1, <3>2, <3>3, <3>4
    <2>8. \A q \in Registered(s) \ {p} : \E i \in 1 .. Len(rest) : rest[i] = q
      <3> SUFFICES ASSUME NEW i \in 1 .. n, s.order[i] # p
                   PROVE  \E j \in 1 .. Len(rest) : rest[j] = s.order[i]
        BY DEF Registered
      <3>1. CASE i < k
        BY <2>1, <2>2, <2>3, <3>1
      <3>2. CASE k < i
        <4>1. i - 1 \in 1 .. n - 1 /\ ~(i - 1 < k) /\ (i - 1) + 1 = i
          BY <2>1, <2>2, <3>2
        <4> QED
          BY <2>3, <4>1
      <3> QED
        BY <2>1, <2>2, <3>1, <3>2
    <2>9. s \in Schedulers /\ work \in SUBSET Participants
      BY DEF LaneOK, Schedulers, work
    <2>10. /\ gone.order = rest /\ gone.pending = work /\ gone.holder = s.holder
           /\ gone.cursor = c /\ gone.taken = s.taken
           /\ gone \in Schedulers
      BY <2>3, <2>5, <2>9 DEF Schedulers
    <2>11. Unregister(s, p) = IF s.holder = p THEN Vacate(gone) ELSE gone
      BY <1>2 DEF Unregister, rest, k, c, work
    <2> HIDE DEF gone
    <2>12. Registered(s) \ {p} \subseteq Registered(gone)
      BY <2>8, <2>10 DEF Registered
    <2>13. s.holder # p => LaneOK(gone)
      BY <2>3, <2>5, <2>7, <2>10, <2>12 DEF LaneOK, Schedulers, work
    <2>14. s.holder = p => LaneOK(Vacate(gone))
      <3> DEFINE v == Vacate(gone)
      <3>1. /\ v.order = rest /\ v.pending = work /\ v.cursor = c /\ v.holder = Nobody
            /\ v \in Schedulers
        BY <2>10 DEF Vacate, Schedulers
      <3> HIDE DEF v
      <3>2. Registered(s) \ {p} \subseteq Registered(v)
        BY <2>8, <3>1 DEF Registered
      <3>3. LaneOK(v)
        BY <2>3, <2>5, <2>7, <3>1, <3>2 DEF LaneOK, Schedulers, work
      <3> QED
        BY <3>3 DEF v
    <2> QED
      BY <2>11, <2>13, <2>14
  <1> QED
    BY <1>1, <1>2
=============================================================================
