--------------------------- MODULE WebTurnsProofs ---------------------------
(***************************************************************************)
(* The safety of the web broker's claims and turn lanes, for every number  *)
(* of requests, participants and scopes: every accepted request is in one  *)
(* place, every lane has a turn under way that somebody owes it, and the   *)
(* stop leaves nobody waiting.                                             *)
(*                                                                         *)
(* The inductive invariant follows each request with its path, the lanes   *)
(* whose turns wait for it (Held), through the queues, the dispatches, the *)
(* transport and the callbacks of the promises.                            *)
(***************************************************************************)
EXTENDS WebTurns, TurnSchedulerProofs, FiniteSetTheorems

Scopes == {Scope(r) : r \in Requests}
Keys == {Key(Scope(r)) : r \in Requests}
Entries == [request : Requests, path : Seq(Keys)]

ClaimRecords ==
  [scope : Scopes, agent : {AgentOf[p] : p \in Participants}, session : Participants,
   shared : SUBSET UNION {SharedBy[r] : r \in Requests}, left : 0 .. ClaimTtl]

LaneRecords ==
  [key : Keys, scope : Scopes, tokens : SUBSET Requests, sched : Schedulers,
   active : Participants \cup {None}, queued : Entries \cup {None},
   queues : [Participants -> Seq(Entries)]]

CommandRecords ==
  [path : Seq(Keys), lane : Keys \cup {None}, left : 0 .. CommandTimeout,
   timer : BOOLEAN, open : BOOLEAN]

Rests ==
  {Nothing}
    \cup [op : {"dispatch"}, request : Requests, path : Seq(Keys)]
    \cup [op : {"pump"}, lane : Keys]
    \cup [op : {"complete"}, lane : Keys, request : Requests]

----------------------------------------------------------------------------
(* Places in sequences *)

LEMMA MinOK ==
  ASSUME NEW I, I \subseteq Nat, I # {}
  PROVE  Min(I) \in I
  BY LeastElement DEF Min

\* The places of I up to i.
UpTo(I, i) == {j \in I : j <= i}

\* Every nonempty set of places has a k-th one, up to its cardinality.
LEMMA NthExists ==
  ASSUME NEW n \in Nat, NEW I \in SUBSET (1 .. n), NEW k \in 1 .. Cardinality(I)
  PROVE  \E i \in I : Cardinality(UpTo(I, i)) = k
  <1> DEFINE T == {i \in 0 .. n : k <= Cardinality(UpTo(I, i))}
  <1>1. IsFiniteSet(I) /\ Cardinality(I) \in Nat
    <2>1. IsFiniteSet(1 .. n)
      BY FS_Interval
    <2> QED
      BY <2>1, FS_Subset, FS_CardinalityType
  <1>2. \A i : IsFiniteSet(UpTo(I, i)) /\ Cardinality(UpTo(I, i)) \in Nat
    <2> TAKE i
    <2>1. UpTo(I, i) \in SUBSET I
      BY DEF UpTo
    <2> QED
      BY <1>1, <2>1, FS_Subset, FS_CardinalityType
  <1>3. UpTo(I, n) = I /\ UpTo(I, 0) = {}
    <2>1. \A j \in I : j <= n /\ ~(j <= 0)
      OBVIOUS
    <2> QED
      BY <2>1 DEF UpTo
  <1>4. n \in T /\ T \subseteq Nat /\ 0 \notin T
    BY <1>1, <1>3, FS_EmptySet
  <1>5. PICK m \in T : \A j \in T : m <= j
    <2> HIDE DEF T
    <2> QED
      BY <1>4, LeastElement
  <1>6. m - 1 \in 0 .. n /\ m - 1 \notin T /\ m \in 1 .. n
    BY <1>4, <1>5
  <1>7. Cardinality(UpTo(I, m - 1)) < k /\ k <= Cardinality(UpTo(I, m))
    BY <1>2, <1>5, <1>6
  <1>8. CASE m \notin I
    <2>1. UpTo(I, m) = UpTo(I, m - 1)
      <3>1. \A j \in I : j <= m <=> j <= m - 1
        BY <1>6, <1>8
      <3> QED
        BY <3>1 DEF UpTo
    <2> QED
      BY <1>2, <1>7, <2>1
  <1>9. CASE m \in I
    <2>1. UpTo(I, m) = UpTo(I, m - 1) \cup {m} /\ m \notin UpTo(I, m - 1)
      <3>1. /\ \A j \in I : j <= m <=> j <= m - 1 \/ j = m
            /\ ~(m <= m - 1)
        BY <1>6
      <3> QED
        BY <1>9, <3>1 DEF UpTo
    <2>2. Cardinality(UpTo(I, m)) = Cardinality(UpTo(I, m - 1)) + 1
      BY <1>2, <2>1, FS_AddElement
    <2>3. Cardinality(UpTo(I, m)) = k
      BY <1>2, <1>7, <2>2
    <2> QED
      BY <1>9, <2>3
  <1> QED
    BY <1>8, <1>9

\* Pick takes its elements from different places.
LEMMA PickOK ==
  ASSUME NEW S, NEW s \in Seq(S), NEW I \in SUBSET DOMAIN s
  PROVE  /\ Pick(s, I) \in Seq(S)
         /\ \E at \in [DOMAIN Pick(s, I) -> I] :
              /\ \A k \in DOMAIN Pick(s, I) : Pick(s, I)[k] = s[at[k]]
              /\ \A k, l \in DOMAIN Pick(s, I) : at[k] = at[l] => k = l
  <1> DEFINE c == Cardinality(I)
             Nth(k) == CHOOSE i \in I : Cardinality({j \in I : j <= i}) = k
             at == [k \in 1 .. c |-> Nth(k)]
  <1>1. DOMAIN s = 1 .. Len(s) /\ Len(s) \in Nat /\ \A i \in DOMAIN s : s[i] \in S
    BY LenProperties
  <1>2. c \in Nat
    <2>1. IsFiniteSet(DOMAIN s)
      BY <1>1, FS_Interval
    <2> QED
      BY <2>1, FS_Subset, FS_CardinalityType
  <1>3. ASSUME NEW k \in 1 .. c
        PROVE  Nth(k) \in I /\ Cardinality(UpTo(I, Nth(k))) = k
    <2>1. I \in SUBSET (1 .. Len(s))
      BY <1>1
    <2>2. \E i \in I : Cardinality(UpTo(I, i)) = k
      BY <1>1, <2>1, NthExists
    <2> QED
      BY <2>2 DEF UpTo
  <1> HIDE DEF Nth, c
  <1>4. Pick(s, I) = [k \in 1 .. c |-> s[Nth(k)]]
    BY DEF Pick, Nth, c
  <1>5. \A k \in 1 .. c : s[Nth(k)] \in S
    BY <1>1, <1>3
  <1>6. Pick(s, I) \in Seq(S)
    <2> DEFINE e(k) == s[Nth(k)]
    <2>1. \A k \in 1 .. c : e(k) \in S
      BY <1>5
    <2> HIDE DEF e
    <2>2. [k \in 1 .. c |-> e(k)] \in Seq(S)
      BY <1>2, <2>1, IsASeq
    <2> QED
      BY <1>4, <2>2 DEF e
  <1>7. DOMAIN Pick(s, I) = 1 .. c
    BY <1>4
  <1>8. at \in [1 .. c -> I] /\ \A k \in 1 .. c : at[k] = Nth(k)
    BY <1>3
  <1> HIDE DEF at
  <1>9. \A k, l \in 1 .. c : at[k] = at[l] => k = l
    BY <1>3, <1>8
  <1>10. \A k \in 1 .. c : Pick(s, I)[k] = s[at[k]]
    BY <1>4, <1>8
  <1> QED
    BY <1>6, <1>7, <1>8, <1>9, <1>10

----------------------------------------------------------------------------
(* Claims *)

\* One claim per key, each its agent's.
ClaimsFine(cs) ==
  /\ cs \in Seq(ClaimRecords)
  /\ \A i, j \in DOMAIN cs : Key(cs[i].scope) = Key(cs[j].scope) => i = j
  /\ \A i \in DOMAIN cs : cs[i].agent = AgentOf[cs[i].session]

LEMMA LiveOK ==
  ASSUME NEW cs, ClaimsFine(cs)
  PROVE  /\ ClaimsFine(Live(cs))
         /\ \A k \in DOMAIN Live(cs) :
              \E i \in DOMAIN cs : Live(cs)[k] = cs[i] /\ cs[i].left > 0
  <1> DEFINE I == {i \in DOMAIN cs : cs[i].left > 0}
  <1>1. cs \in Seq(ClaimRecords)
    BY DEF ClaimsFine
  <1>2. I \in SUBSET DOMAIN cs /\ \A i \in I : cs[i].left > 0
    OBVIOUS
  <1>3. Live(cs) = Pick(cs, I)
    BY DEF Live
  <1> HIDE DEF I
  <1>4. /\ Live(cs) \in Seq(ClaimRecords)
        /\ \E at \in [DOMAIN Live(cs) -> I] :
              /\ \A k \in DOMAIN Live(cs) : Live(cs)[k] = cs[at[k]]
              /\ \A k, l \in DOMAIN Live(cs) : at[k] = at[l] => k = l
    BY <1>1, <1>2, <1>3, PickOK
  <1>5. PICK at \in [DOMAIN Live(cs) -> I] :
              /\ \A k \in DOMAIN Live(cs) : Live(cs)[k] = cs[at[k]]
              /\ \A k, l \in DOMAIN Live(cs) : at[k] = at[l] => k = l
    BY <1>4
  <1>6. \A k \in DOMAIN Live(cs) : at[k] \in DOMAIN cs /\ cs[at[k]].left > 0
    BY <1>2, <1>5
  <1> HIDE DEF Live
  <1>7. ClaimsFine(Live(cs))
    BY <1>4, <1>5, <1>6 DEF ClaimsFine
  <1> QED
    BY <1>5, <1>6, <1>7

LEMMA ClaimAtOK ==
  ASSUME NEW cs, NEW key, HasClaim(cs, key)
  PROVE  \E i \in DOMAIN cs : ClaimAt(cs, key) = cs[i] /\ Key(cs[i].scope) = key
  BY DEF HasClaim, ClaimAt

\* A claim replaces the one with its key, or is the newest.
LEMMA WithClaimOK ==
  ASSUME NEW cs, ClaimsFine(cs), NEW c \in ClaimRecords, c.agent = AgentOf[c.session]
  PROVE  /\ ClaimsFine(WithClaim(cs, c))
         /\ \A i \in DOMAIN WithClaim(cs, c) :
              \/ WithClaim(cs, c)[i] = c
              \/ \E j \in DOMAIN cs :
                   WithClaim(cs, c)[i] = cs[j] /\ Key(cs[j].scope) # Key(c.scope)
  <1> DEFINE w == WithClaim(cs, c)
             n == Len(cs)
  <1>1. n \in Nat /\ DOMAIN cs = 1 .. n /\ \A i \in 1 .. n : cs[i] \in ClaimRecords
    BY LenProperties DEF ClaimsFine
  <1>2. CASE HasClaim(cs, Key(c.scope))
    <2> DEFINE e(i) == IF Key(cs[i].scope) = Key(c.scope) THEN c ELSE cs[i]
    <2>1. \A i \in 1 .. n : e(i) \in ClaimRecords
      BY <1>1
    <2>2. w = [i \in 1 .. n |-> e(i)]
      BY <1>1, <1>2 DEF WithClaim
    <2>3. \A i \in 1 .. n :
            /\ e(i).agent = AgentOf[e(i).session]
            /\ Key(e(i).scope) = Key(cs[i].scope)
            /\ e(i) = c \/ (e(i) = cs[i] /\ Key(cs[i].scope) # Key(c.scope))
      BY <1>1 DEF ClaimsFine
    <2> HIDE DEF e, w
    <2>4. w \in Seq(ClaimRecords)
      BY <1>1, <2>1, <2>2, IsASeq
    <2>5. DOMAIN w = 1 .. n /\ \A i \in 1 .. n : w[i] = e(i)
      BY <2>2
    <2>6. ClaimsFine(w)
      BY <1>1, <2>3, <2>4, <2>5 DEF ClaimsFine
    <2> QED
      BY <1>1, <2>3, <2>5, <2>6 DEF w
  <1>3. CASE ~HasClaim(cs, Key(c.scope))
    <2>1. w = Append(cs, c)
      BY <1>3 DEF WithClaim
    <2>2. cs \in Seq(ClaimRecords)
      BY DEF ClaimsFine
    <2> HIDE DEF w
    <2>3. /\ w \in Seq(ClaimRecords) /\ DOMAIN w = 1 .. n + 1
          /\ \A i \in 1 .. n : w[i] = cs[i] /\ w[n + 1] = c
      BY <1>1, <2>1, <2>2, AppendProperties, LenProperties
    <2>4. \A i \in 1 .. n + 1 : i \in 1 .. n \/ i = n + 1
      BY <1>1
    <2>5. w[n + 1] = c
      BY <1>1, <2>1, <2>2, AppendProperties
    <2>6. \A i \in 1 .. n : Key(cs[i].scope) # Key(c.scope)
      BY <1>1, <1>3 DEF HasClaim
    <2>7. ClaimsFine(w)
      BY <1>1, <2>3, <2>4, <2>5, <2>6 DEF ClaimsFine
    <2> QED
      BY <1>1, <2>3, <2>4, <2>5, <2>6, <2>7 DEF w
  <1> QED
    BY <1>2, <1>3

\* What a dispatch leaves behind is its agent's claim, renewed.
LEMMA ClaimOfOK ==
  ASSUME TurnsAssumption, ClaimsFine(claims), NEW r \in Requests
  PROVE  /\ ClaimOf(r) \in ClaimRecords
         /\ ClaimOf(r).agent = AgentOf[ClaimOf(r).session]
         /\ Key(ClaimOf(r).scope) = Key(Scope(r))
         /\ ClaimOf(r).left = ClaimTtl
  <1> DEFINE cs == Live(claims)
             found == ClaimAt(cs, Key(Scope(r)))
             mine == [scope |-> Scope(r), agent |-> Agent(r), session |-> SessionOf[r],
                      shared |-> SharedBy[r], left |-> ClaimTtl]
             all == UNION {SharedBy[q] : q \in Requests}
  <1>1. /\ ClaimTtl \in 0 .. ClaimTtl /\ SessionOf[r] \in Participants
        /\ Scope(r) \in Scopes /\ SharedBy[r] \in SUBSET all
    BY DEF TurnsAssumption, Scopes
  <1>2. mine \in ClaimRecords /\ mine.agent = AgentOf[mine.session]
    BY <1>1 DEF ClaimRecords, Agent
  <1>3. CASE ~HasClaim(cs, Key(Scope(r)))
    <2>1. ClaimOf(r) = mine
      BY <1>3 DEF ClaimOf
    <2> QED
      BY <1>2, <2>1
  <1>4. CASE HasClaim(cs, Key(Scope(r)))
    <2>1. ClaimsFine(cs)
      BY LiveOK
    <2>2. PICK i \in DOMAIN cs : found = cs[i] /\ Key(cs[i].scope) = Key(Scope(r))
      BY <1>4, ClaimAtOK
    <2>3. cs[i] \in ClaimRecords /\ cs[i].agent = AgentOf[cs[i].session]
      BY <2>1, <2>2, LenProperties DEF ClaimsFine
    <2>4. /\ found \in ClaimRecords /\ found.agent = AgentOf[found.session]
          /\ Key(found.scope) = Key(Scope(r))
      BY <2>2, <2>3
    <2>5. ClaimOf(r) = IF found.agent # Agent(r) THEN [found EXCEPT !.left = ClaimTtl]
                       ELSE [mine EXCEPT !.shared = @ \cup found.shared]
      BY <1>4 DEF ClaimOf
    <2> HIDE DEF found, cs, mine
    <2>6. CASE found.agent # Agent(r)
      BY <1>1, <2>4, <2>5, <2>6 DEF ClaimRecords
    <2>7. CASE found.agent = Agent(r)
      <3>1. /\ ClaimOf(r) = [mine EXCEPT !.shared = @ \cup found.shared]
            /\ mine.shared \cup found.shared \in SUBSET all
        BY <1>1, <2>4, <2>5, <2>7 DEF ClaimRecords, mine
      <3>2. mine.scope = Scope(r) /\ mine.left = ClaimTtl
        BY DEF mine
      <3> QED
        BY <1>1, <1>2, <3>1, <3>2 DEF ClaimRecords
    <2> QED
      BY <2>6, <2>7
  <1> QED
    BY <1>3, <1>4

----------------------------------------------------------------------------
(* Lanes *)

\* A lane has a turn exactly when it waits for a command, and its scheduler
\* has work for whoever is queued, and for nobody else but the one on turn.
LaneGood(l) ==
  /\ LaneOK(l.sched)
  /\ (l.tokens = {}) <=> (l.active = None)
  /\ Queued(l) \subseteq l.sched.pending
  /\ l.sched.pending \subseteq Queued(l) \cup {l.active}
  /\ \A p \in Participants : \A k \in DOMAIN l.queues[p] : SessionOf[l.queues[p][k].request] = p

LanesFine(ls) ==
  /\ ls \in Seq(LaneRecords)
  /\ \A i, j \in DOMAIN ls : ls[i].key = ls[j].key => i = j
  /\ \A i \in DOMAIN ls : LaneGood(ls[i])

QueuedIn(ls, e) ==
  \E i \in DOMAIN ls, p \in Participants :
    \E k \in DOMAIN ls[i].queues[p] : ls[i].queues[p][k] = e

\* No request is twice in the queues.
QueuedOnce(ls) ==
  \A i, j \in DOMAIN ls, p \in Participants :
    \A k \in DOMAIN ls[i].queues[p], l \in DOMAIN ls[j].queues[p] :
      ls[i].queues[p][k].request = ls[j].queues[p][l].request => i = j /\ k = l

\* The lanes of ls, with the same queues, and idle ones.
SameQueues(ls, ls2) ==
  /\ DOMAIN ls \subseteq DOMAIN ls2
  /\ \A i \in DOMAIN ls : ls2[i].queues = ls[i].queues
  /\ \A i \in DOMAIN ls2 \ DOMAIN ls : \A p \in Participants : ls2[i].queues[p] = <<>>

LEMMA SameQueuesOK ==
  ASSUME NEW ls, NEW ls2, SameQueues(ls, ls2)
  PROVE  /\ \A e : QueuedIn(ls2, e) <=> QueuedIn(ls, e)
         /\ QueuedOnce(ls) => QueuedOnce(ls2)
  <1>1. \A i \in DOMAIN ls2, p \in Participants :
          DOMAIN ls2[i].queues[p] # {} => i \in DOMAIN ls /\ ls2[i].queues = ls[i].queues
    <2>1. DOMAIN <<>> = {}
      OBVIOUS
    <2> QED
      BY <2>1 DEF SameQueues
  <1>2. ASSUME NEW e PROVE QueuedIn(ls2, e) <=> QueuedIn(ls, e)
    BY <1>1 DEF QueuedIn, SameQueues
  <1>3. QueuedOnce(ls) => QueuedOnce(ls2)
    BY <1>1 DEF QueuedOnce
  <1> QED
    BY <1>2, <1>3

LEMMA IndexOfOK ==
  ASSUME NEW ls, LanesFine(ls), NEW key, HasLane(ls, key)
  PROVE  /\ IndexOf(ls, key) \in DOMAIN ls
         /\ ls[IndexOf(ls, key)].key = key
         /\ ls[IndexOf(ls, key)] \in LaneRecords
         /\ LaneGood(ls[IndexOf(ls, key)])
         /\ \A j \in DOMAIN ls : ls[j].key = key => j = IndexOf(ls, key)
  <1>1. IndexOf(ls, key) \in DOMAIN ls /\ ls[IndexOf(ls, key)].key = key
    BY DEF HasLane, IndexOf
  <1>2. DOMAIN ls = 1 .. Len(ls) /\ ls \in [1 .. Len(ls) -> LaneRecords]
    BY LenProperties DEF LanesFine
  <1> QED
    BY <1>1, <1>2 DEF LanesFine

LEMMA WithLaneOK ==
  ASSUME NEW ls, LanesFine(ls), NEW lane \in LaneRecords, LaneGood(lane),
         HasLane(ls, lane.key)
  PROVE  /\ LanesFine(WithLane(ls, lane))
         /\ DOMAIN WithLane(ls, lane) = DOMAIN ls
         /\ WithLane(ls, lane)[IndexOf(ls, lane.key)] = lane
         /\ \A j \in DOMAIN ls : j # IndexOf(ls, lane.key) => WithLane(ls, lane)[j] = ls[j]
         /\ \A j \in DOMAIN ls : WithLane(ls, lane)[j].key = ls[j].key
  <1> DEFINE i == IndexOf(ls, lane.key)
             w == WithLane(ls, lane)
  <1>1. i \in DOMAIN ls /\ ls[i].key = lane.key
    BY IndexOfOK
  <1>2. ls \in Seq(LaneRecords) /\ DOMAIN ls = 1 .. Len(ls)
    BY LenProperties DEF LanesFine
  <1>3. w = [ls EXCEPT ![i] = lane]
    BY DEF WithLane
  <1> HIDE DEF i, w
  <1>4. /\ w \in Seq(LaneRecords) /\ Len(w) = Len(ls)
        /\ \A j \in 1 .. Len(ls) : w[j] = IF j = i THEN lane ELSE ls[j]
    BY <1>1, <1>2, <1>3, ExceptSeq
  <1>5. DOMAIN w = DOMAIN ls
    BY <1>2, <1>4, LenProperties
  <1>6. \A j \in DOMAIN ls : w[j].key = ls[j].key
    BY <1>1, <1>2, <1>4
  <1>7. LanesFine(w)
    BY <1>2, <1>4, <1>5, <1>6 DEF LanesFine
  <1> QED
    BY <1>1, <1>2, <1>4, <1>5, <1>6, <1>7 DEF i, w

LEMMA AppendLaneOK ==
  ASSUME NEW ls, LanesFine(ls), NEW lane \in LaneRecords, LaneGood(lane),
         ~HasLane(ls, lane.key), \A p \in Participants : lane.queues[p] = <<>>
  PROVE  /\ LanesFine(Append(ls, lane))
         /\ SameQueues(ls, Append(ls, lane))
         /\ HasLane(Append(ls, lane), lane.key)
         /\ \A i \in DOMAIN ls : Append(ls, lane)[i] = ls[i]
         /\ \A i \in DOMAIN Append(ls, lane) \ DOMAIN ls : Append(ls, lane)[i] = lane
  <1> DEFINE w == Append(ls, lane)
             n == Len(ls)
  <1>1. ls \in Seq(LaneRecords)
    BY DEF LanesFine
  <1>2. /\ n \in Nat /\ DOMAIN ls = 1 .. n /\ w \in Seq(LaneRecords)
        /\ DOMAIN w = 1 .. n + 1 /\ \A i \in 1 .. n : w[i] = ls[i]
    BY <1>1, AppendProperties, LenProperties
  <1>3. w[n + 1] = lane
    BY <1>1, AppendProperties
  <1>4. \A i \in 1 .. n + 1 : i \in 1 .. n \/ i = n + 1
    BY <1>2
  <1> HIDE DEF w, n
  <1>5. \A i \in 1 .. n : ls[i].key # lane.key
    BY <1>2 DEF HasLane
  <1>6. n + 1 \in 1 .. n + 1 /\ 1 .. n \subseteq 1 .. n + 1 /\ n + 1 \notin 1 .. n
    BY <1>2
  <1>7. LanesFine(w)
    <2>1. \A i, j \in 1 .. n + 1 : w[i].key = w[j].key => i = j
      BY <1>2, <1>3, <1>4, <1>5 DEF LanesFine
    <2>2. \A i \in 1 .. n + 1 : LaneGood(w[i])
      BY <1>2, <1>3, <1>4 DEF LanesFine
    <2> QED
      BY <1>2, <2>1, <2>2 DEF LanesFine
  <1>8. SameQueues(ls, w)
    BY <1>2, <1>3, <1>4, <1>6 DEF SameQueues
  <1>9. HasLane(w, lane.key)
    BY <1>2, <1>3, <1>6 DEF HasLane
  <1> QED
    BY <1>2, <1>3, <1>4, <1>7, <1>8, <1>9 DEF w

\* The first contention makes a lane that waits for what is in flight.
LEMMA NewLaneOK ==
  ASSUME TurnAssumption, TurnsAssumption, NEW c \in ClaimRecords,
         NEW commands, DOMAIN commands \subseteq Requests
  PROVE  /\ NewLane(c, commands) \in LaneRecords
         /\ LaneGood(NewLane(c, commands))
         /\ NewLane(c, commands).key = Key(c.scope)
         /\ NewLane(c, commands).tokens = InFlightUnder(Key(c.scope), commands)
         /\ NewLane(c, commands).queued = None
         /\ \A p \in Participants : NewLane(c, commands).queues[p] = <<>>
  <1> DEFINE p == c.session
             flight == InFlightUnder(Key(c.scope), commands)
             idle == Register(EmptyLane, p)
             asks == SetPending(idle, p, TRUE)
             sched == IF flight = {} THEN idle ELSE RequestTurn(asks, p)
             lane == NewLane(c, commands)
  <1>1. p \in Participants /\ p # None /\ c.scope \in Scopes
    BY DEF ClaimRecords, TurnsAssumption
  <1>2. Key(c.scope) \in Keys
    BY <1>1 DEF Scopes, Keys
  <1>3. flight \in SUBSET Requests
    BY DEF InFlightUnder
  <1>4. LaneOK(idle) /\ idle.pending = {} /\ p \in Registered(idle)
    <2>1. LaneOK(EmptyLane) /\ EmptyLane.pending = {}
      BY EmptyLaneOK DEF EmptyLane
    <2> HIDE DEF p
    <2>2. /\ LaneOK(Register(EmptyLane, p))
          /\ Registered(Register(EmptyLane, p)) = Registered(EmptyLane) \cup {p}
          /\ Register(EmptyLane, p).pending = EmptyLane.pending
      BY <1>1, <2>1, RegisterOK
    <2> QED
      BY <2>1, <2>2
  <1>5. LaneOK(asks) /\ asks.pending = {p}
    BY <1>1, <1>4, SetPendingOK
  <1>6. LaneOK(RequestTurn(asks, p)) /\ RequestTurn(asks, p).pending = {p}
    BY <1>1, <1>5, RequestTurnOK
  <1> HIDE DEF p, flight, idle, asks
  <1>7. LaneOK(sched) /\ sched.pending = (IF flight = {} THEN {} ELSE {p})
    BY <1>4, <1>6
  <1> DEFINE none == [q \in Participants |-> <<>>]
             turn == IF flight = {} THEN None ELSE p
  <1>8. lane = [key |-> Key(c.scope), scope |-> c.scope, tokens |-> flight, sched |-> sched,
                active |-> turn, queued |-> None, queues |-> none]
    BY DEF NewLane, idle, asks, flight, p
  <1>9. none \in [Participants -> Seq(Entries)] /\ \A q \in Participants : none[q] = <<>>
    BY EmptySeq
  <1>10. turn \in Participants \cup {None} /\ (flight = {} <=> turn = None)
    BY <1>1
  <1>11. sched \in Schedulers
    BY <1>7 DEF LaneOK
  <1> HIDE DEF sched, lane, none, turn
  <1>12. lane \in LaneRecords
    BY <1>1, <1>2, <1>3, <1>8, <1>9, <1>10, <1>11 DEF LaneRecords
  <1>13. Queued(lane) = {}
    BY <1>8, <1>9 DEF Queued
  <1>14. \A q \in Participants : DOMAIN lane.queues[q] = {}
    BY <1>8, <1>9
  <1>15. LaneGood(lane)
    BY <1>7, <1>8, <1>10, <1>13, <1>14 DEF LaneGood, turn
  <1> QED
    BY <1>8, <1>9, <1>12, <1>15 DEF lane, flight

LEMMA LanesWithOK ==
  ASSUME TurnAssumption, TurnsAssumption, LanesFine(lanes), NEW c \in ClaimRecords,
         NEW commands, DOMAIN commands \subseteq Requests
  PROVE  /\ LanesFine(LanesWith(c, commands))
         /\ SameQueues(lanes, LanesWith(c, commands))
         /\ HasLane(LanesWith(c, commands), Key(c.scope))
         /\ \A i \in DOMAIN lanes : LanesWith(c, commands)[i] = lanes[i]
         /\ \A i \in DOMAIN LanesWith(c, commands) \ DOMAIN lanes :
              /\ LanesWith(c, commands)[i] = NewLane(c, commands)
              /\ ~HasLane(lanes, Key(c.scope))
  <1>1. CASE HasLane(lanes, Key(c.scope))
    <2>1. LanesWith(c, commands) = lanes
      BY <1>1 DEF LanesWith
    <2> QED
      BY <1>1, <2>1 DEF SameQueues
  <1>2. CASE ~HasLane(lanes, Key(c.scope))
    <2> DEFINE lane == NewLane(c, commands)
    <2>1. LanesWith(c, commands) = Append(lanes, lane)
      BY <1>2 DEF LanesWith
    <2>2. /\ lane \in LaneRecords /\ LaneGood(lane) /\ lane.key = Key(c.scope)
          /\ \A p \in Participants : lane.queues[p] = <<>>
      BY NewLaneOK
    <2> HIDE DEF lane
    <2> QED
      BY <1>2, <2>1, <2>2, AppendLaneOK DEF lane
  <1> QED
    BY <1>1, <1>2

----------------------------------------------------------------------------
(* What the steps make of a lane *)

\* queueTurnRequest.
Joined(lane, e) ==
  [lane EXCEPT !.queues[SessionOf[e.request]] = Append(@, e),
               !.sched = EnsureHolder(
                  SetPending(Register(@, SessionOf[e.request]), SessionOf[e.request], TRUE))]

LEMMA JoinedOK ==
  ASSUME TurnAssumption, TurnsAssumption, NEW lane \in LaneRecords, LaneGood(lane),
         NEW e \in Entries
  PROVE  /\ Joined(lane, e) \in LaneRecords
         /\ LaneGood(Joined(lane, e))
         /\ Joined(lane, e).key = lane.key
         /\ Joined(lane, e).tokens = lane.tokens
         /\ Joined(lane, e).queued = lane.queued
         /\ \A q \in Participants :
              Joined(lane, e).queues[q] =
                IF q = SessionOf[e.request] THEN Append(lane.queues[q], e) ELSE lane.queues[q]
         /\ Queued(Joined(lane, e)) # {}
  <1> DEFINE p == SessionOf[e.request]
             t == EnsureHolder(SetPending(Register(lane.sched, p), p, TRUE))
             j == Joined(lane, e)
             qs == [lane.queues EXCEPT ![p] = Append(@, e)]
  <1>1. p \in Participants
    BY DEF Entries, TurnsAssumption
  <1>2. /\ LaneOK(t) /\ t.pending = lane.sched.pending \cup {p}
    <2> DEFINE a == Register(lane.sched, p)
               b == SetPending(a, p, TRUE)
    <2>1. LaneOK(lane.sched)
      BY DEF LaneGood
    <2> HIDE DEF p
    <2>2. LaneOK(a) /\ Registered(a) = Registered(lane.sched) \cup {p} /\ a.pending = lane.sched.pending
      BY <1>1, <2>1, RegisterOK
    <2> HIDE DEF a
    <2>3. LaneOK(b) /\ b.pending = IF TRUE /\ p \in Registered(a) THEN a.pending \cup {p} ELSE a.pending \ {p}
      BY <1>1, <2>2, SetPendingOK
    <2> HIDE DEF b
    <2>4. LaneOK(EnsureHolder(b)) /\ EnsureHolder(b).pending = b.pending
      BY <2>3, EnsureHolderOK
    <2> QED
      BY <2>2, <2>3, <2>4 DEF a, b
  <1>3. /\ lane.queues \in [Participants -> Seq(Entries)] /\ lane.queues[p] \in Seq(Entries)
    BY <1>1 DEF LaneRecords
  <1>4. Append(lane.queues[p], e) \in Seq(Entries)
    BY <1>3, AppendProperties
  <1>5. /\ qs \in [Participants -> Seq(Entries)]
        /\ \A q \in Participants :
             qs[q] = IF q = p THEN Append(lane.queues[q], e) ELSE lane.queues[q]
    BY <1>1, <1>3, <1>4
  <1>6. t \in Schedulers
    BY <1>2 DEF LaneOK
  <1>7. j = [lane EXCEPT !.queues = qs, !.sched = t]
    <2> HIDE DEF t
    <2>1. j = [lane EXCEPT !.queues[p] = Append(@, e), !.sched = t]
      BY DEF Joined, t
    <2> QED
      BY <2>1 DEF LaneRecords
  <1> HIDE DEF t, j, qs, p
  <1>8. /\ j.queues = qs /\ j.sched = t /\ j.key = lane.key /\ j.tokens = lane.tokens
        /\ j.queued = lane.queued /\ j.active = lane.active
        /\ j \in LaneRecords
    BY <1>5, <1>6, <1>7 DEF LaneRecords
  <1>9. Append(lane.queues[p], e) # <<>>
    <2> DEFINE s == lane.queues[p]
    <2> HIDE DEF s
    <2>1. Len(Append(s, e)) = Len(s) + 1 /\ Len(s) \in Nat
      BY <1>3, AppendProperties, LenProperties DEF s
    <2>2. Len(<<>>) = 0
      OBVIOUS
    <2>3. Append(s, e) # <<>>
      BY <2>1, <2>2
    <2> QED
      BY <2>3 DEF s
  <1>10. Queued(j) = Queued(lane) \cup {p}
    BY <1>1, <1>5, <1>8, <1>9 DEF Queued
  <1>11. ASSUME NEW q \in Participants, NEW k \in DOMAIN j.queues[q]
         PROVE  SessionOf[j.queues[q][k].request] = q
    <2>1. CASE q # p
      BY <1>5, <1>8, <1>11, <2>1 DEF LaneGood
    <2>2. CASE q = p
      <3> DEFINE s == lane.queues[p]
      <3>1. j.queues[q] = Append(s, e)
        BY <1>1, <1>5, <1>8, <2>2
      <3>2. s \in Seq(Entries)
        BY <1>3
      <3>3. \A l \in DOMAIN s : SessionOf[s[l].request] = p
        BY <1>1 DEF LaneGood
      <3> HIDE DEF s
      <3>4. k \in 1 .. Len(s) + 1 /\ Len(s) \in Nat /\ DOMAIN s = 1 .. Len(s)
        BY <1>11, <3>1, <3>2, AppendProperties, LenProperties
      <3>5. CASE k = Len(s) + 1
        <4>1. j.queues[q][k] = e
          BY <3>1, <3>2, <3>5, AppendProperties
        <4> QED
          BY <2>2, <4>1 DEF p
      <3>6. CASE k \in 1 .. Len(s)
        <4>1. j.queues[q][k] = s[k]
          BY <3>1, <3>2, <3>6, AppendProperties
        <4> QED
          BY <2>2, <3>3, <3>4, <3>6, <4>1
      <3> QED
        BY <3>4, <3>5, <3>6
    <2> QED
      BY <2>1, <2>2
  <1>12. LaneGood(j)
    <2>1. LaneOK(j.sched) /\ ((j.tokens = {}) <=> (j.active = None))
      BY <1>2, <1>8 DEF LaneGood
    <2>2. Queued(j) \subseteq j.sched.pending /\ j.sched.pending \subseteq Queued(j) \cup {j.active}
      BY <1>2, <1>8, <1>10 DEF LaneGood
    <2> QED
      BY <1>11, <2>1, <2>2 DEF LaneGood
  <1> QED
    BY <1>5, <1>8, <1>10, <1>12 DEF j, p

\* pumpTurnLane's dispatch of the first request in the queue of p.
Taken(lane, p) ==
  [lane EXCEPT !.sched = EnsureHolder(lane.sched), !.queues[p] = Tail(@), !.active = p,
               !.queued = Head(lane.queues[p]), !.tokens = {Head(lane.queues[p]).request}]

LEMMA TakenOK ==
  ASSUME TurnAssumption, TurnsAssumption, NEW lane \in LaneRecords, LaneGood(lane),
         NEW p \in Queued(lane), lane.tokens = {}
  PROVE  /\ Taken(lane, p) \in LaneRecords
         /\ LaneGood(Taken(lane, p))
         /\ Taken(lane, p).key = lane.key
         /\ Head(lane.queues[p]) \in Entries
         /\ Taken(lane, p).tokens = {Head(lane.queues[p]).request}
         /\ Taken(lane, p).queued = Head(lane.queues[p])
         /\ \A q \in Participants :
              Taken(lane, p).queues[q] =
                IF q = p THEN Tail(lane.queues[q]) ELSE lane.queues[q]
  <1> DEFINE s == lane.queues[p]
             t == EnsureHolder(lane.sched)
             qs == [lane.queues EXCEPT ![p] = Tail(@)]
             l == Taken(lane, p)
  <1>1. p \in Participants /\ s # <<>> /\ p # None
    BY DEF Queued, TurnsAssumption
  <1>2. lane.queues \in [Participants -> Seq(Entries)] /\ s \in Seq(Entries)
    BY <1>1 DEF LaneRecords
  <1>3. /\ Head(s) \in Entries /\ Tail(s) \in Seq(Entries)
        /\ Len(Tail(s)) = Len(s) - 1 /\ \A k \in 1 .. Len(Tail(s)) : Tail(s)[k] = s[k + 1]
    BY <1>1, <1>2, HeadTailProperties
  <1>4. LaneOK(t) /\ t.pending = lane.sched.pending /\ t \in Schedulers
    <2>1. LaneOK(lane.sched)
      BY DEF LaneGood
    <2>2. LaneOK(t) /\ t.pending = lane.sched.pending
      BY <2>1, EnsureHolderOK
    <2> QED
      BY <2>2 DEF LaneOK
  <1>5. /\ qs \in [Participants -> Seq(Entries)]
        /\ \A q \in Participants : qs[q] = IF q = p THEN Tail(lane.queues[q]) ELSE lane.queues[q]
    BY <1>1, <1>2, <1>3
  <1>6. l = [lane EXCEPT !.sched = t, !.queues = qs, !.active = p,
                         !.queued = Head(s), !.tokens = {Head(s).request}]
    BY DEF Taken, LaneRecords
  <1>7. Head(s).request \in Requests
    BY <1>3 DEF Entries
  <1> DEFINE h == Head(s)
  <1>8. DOMAIN Tail(s) = 1 .. Len(s) - 1 /\ DOMAIN s = 1 .. Len(s) /\ Len(s) \in Nat
    BY <1>2, <1>3, LenProperties
  <1> HIDE DEF l, t, qs, h
  <1>9. /\ l.queues = qs /\ l.sched = t /\ l.key = lane.key /\ l.tokens = {h.request}
        /\ l.queued = h /\ l.active = p
        /\ l \in LaneRecords
    BY <1>1, <1>3, <1>4, <1>5, <1>6, <1>7 DEF LaneRecords, h
  <1>10. Queued(l) \subseteq Queued(lane) /\ Queued(lane) \subseteq Queued(l) \cup {p}
    BY <1>1, <1>5, <1>9 DEF Queued
  <1>11. ASSUME NEW q \in Participants, NEW k \in DOMAIN l.queues[q]
         PROVE  SessionOf[l.queues[q][k].request] = q
    <2>1. CASE q # p
      BY <1>5, <1>9, <1>11, <2>1 DEF LaneGood
    <2>2. CASE q = p
      <3>1. l.queues[q] = Tail(s)
        BY <1>1, <1>5, <1>9, <2>2
      <3>2. k \in 1 .. Len(s) - 1 /\ l.queues[q][k] = s[k + 1] /\ k + 1 \in DOMAIN s
        BY <1>3, <1>8, <1>11, <3>1
      <3>3. \A i \in DOMAIN s : SessionOf[s[i].request] = p
        BY <1>1 DEF LaneGood
      <3> QED
        BY <2>2, <3>2, <3>3
    <2> QED
      BY <2>1, <2>2
  <1>12. LaneGood(l)
    <2>1. lane.active = None
      BY DEF LaneGood
    <2>2. lane.sched.pending = Queued(lane)
      <3>1. None \notin lane.sched.pending
        BY DEF LaneRecords, Schedulers, TurnsAssumption
      <3> QED
        BY <2>1, <3>1 DEF LaneGood
    <2>3. Queued(l) \subseteq l.sched.pending /\ l.sched.pending \subseteq Queued(l) \cup {l.active}
      BY <1>4, <1>9, <1>10, <2>2
    <2>4. LaneOK(l.sched) /\ ((l.tokens = {}) <=> (l.active = None))
      BY <1>1, <1>4, <1>9
    <2> QED
      BY <1>11, <2>3, <2>4 DEF LaneGood
  <1> QED
    BY <1>3, <1>5, <1>9, <1>12 DEF l, h

\* completeTurnLane of the last command the turn waits for.
Released(lane) ==
  [lane EXCEPT !.tokens = {}, !.active = None, !.queued = None,
               !.sched = EnsureHolder(RecordAction(
                           SetPending(@, lane.active, lane.active \in Queued(lane)),
                           lane.active))]

LEMMA ReleasedOK ==
  ASSUME TurnAssumption, TurnsAssumption, NEW lane \in LaneRecords, LaneGood(lane),
         lane.tokens # {}
  PROVE  /\ Released(lane) \in LaneRecords
         /\ LaneGood(Released(lane))
         /\ Released(lane).key = lane.key
         /\ Released(lane).tokens = {}
         /\ Released(lane).queued = None
         /\ Released(lane).queues = lane.queues
  <1> DEFINE p == lane.active
             more == p \in Queued(lane)
             a == SetPending(lane.sched, p, more)
             b == RecordAction(a, p)
             t == EnsureHolder(b)
             l == Released(lane)
  <1>1. p \in Participants
    BY DEF LaneRecords, LaneGood
  <1>2. LaneOK(lane.sched)
    BY DEF LaneGood
  <1>3. more \in BOOLEAN
    OBVIOUS
  <1> HIDE DEF p, more
  <1>4. /\ LaneOK(a)
        /\ a.pending = IF more /\ p \in Registered(lane.sched)
                         THEN lane.sched.pending \cup {p} ELSE lane.sched.pending \ {p}
    BY <1>1, <1>2, <1>3, SetPendingOK
  <1>5. a.pending = Queued(lane)
    <2>1. /\ Queued(lane) \subseteq lane.sched.pending
          /\ lane.sched.pending \subseteq Queued(lane) \cup {p}
      BY DEF LaneGood, p
    <2>2. more => p \in Registered(lane.sched)
      BY <1>2, <2>1 DEF LaneOK, more
    <2>3. CASE more
      BY <1>4, <2>1, <2>2, <2>3 DEF more
    <2>4. CASE ~more
      BY <1>4, <2>1, <2>4 DEF more
    <2> QED
      BY <2>3, <2>4
  <1> HIDE DEF a
  <1>6. LaneOK(b) /\ b.pending = a.pending
    BY <1>1, <1>4, RecordActionOK
  <1> HIDE DEF b
  <1>7. LaneOK(t) /\ t.pending = b.pending
    BY <1>6, EnsureHolderOK
  <1>8. t \in Schedulers
    BY <1>7 DEF LaneOK
  <1>9. l = [lane EXCEPT !.tokens = {}, !.active = None, !.queued = None, !.sched = t]
    BY DEF Released, t, b, a, p, more, LaneRecords
  <1> HIDE DEF t, l
  <1>10. /\ l.tokens = {} /\ l.active = None /\ l.queued = None /\ l.sched = t
         /\ l.key = lane.key /\ l.queues = lane.queues
         /\ l \in LaneRecords
    BY <1>8, <1>9 DEF LaneRecords
  <1>11. Queued(l) = Queued(lane)
    BY <1>10 DEF Queued
  <1>12. LaneGood(l)
    BY <1>5, <1>6, <1>7, <1>10, <1>11 DEF LaneGood
  <1> QED
    BY <1>10, <1>12 DEF l

\* EnsureHolder alone, with nobody to give the turn to.
Idle(lane) == [lane EXCEPT !.sched = EnsureHolder(lane.sched)]

LEMMA IdleOK ==
  ASSUME TurnAssumption, TurnsAssumption, NEW lane \in LaneRecords, LaneGood(lane),
         lane.tokens = {}, EnsureHolder(lane.sched).holder = Nobody
  PROVE  /\ Idle(lane) \in LaneRecords
         /\ LaneGood(Idle(lane))
         /\ Idle(lane).key = lane.key
         /\ Idle(lane).tokens = {}
         /\ Idle(lane).queued = lane.queued
         /\ Idle(lane).queues = lane.queues
         /\ Queued(lane) = {}
  <1> DEFINE t == EnsureHolder(lane.sched)
             l == Idle(lane)
  <1>1. LaneOK(lane.sched)
    BY DEF LaneGood
  <1>2. /\ LaneOK(t) /\ t.pending = lane.sched.pending
        /\ lane.sched.pending # {} => t.holder \in lane.sched.pending
    BY <1>1, EnsureHolderOK
  <1>3. t \in Schedulers /\ lane.sched.pending \subseteq Participants
    BY <1>1, <1>2 DEF LaneOK, Schedulers
  <1>4. lane.sched.pending = {} /\ Queued(lane) = {}
    BY <1>2, <1>3 DEF TurnAssumption, LaneGood
  <1>5. l = [lane EXCEPT !.sched = t]
    BY DEF Idle
  <1> HIDE DEF t, l
  <1>6. /\ l.tokens = {} /\ l.active = lane.active /\ l.queued = lane.queued /\ l.sched = t
        /\ l.key = lane.key /\ l.queues = lane.queues
        /\ l \in LaneRecords
    BY <1>3, <1>5 DEF LaneRecords
  <1>7. Queued(l) = {}
    BY <1>4, <1>6 DEF Queued
  <1>8. LaneGood(l)
    BY <1>2, <1>4, <1>6, <1>7 DEF LaneGood
  <1> QED
    BY <1>4, <1>6, <1>8 DEF l

----------------------------------------------------------------------------
(* What they make of the queues *)

\* A new request joins the end of a queue.
LEMMA JoinedQueues ==
  ASSUME TurnAssumption, TurnsAssumption, NEW ls, LanesFine(ls), QueuedOnce(ls),
         NEW key, HasLane(ls, key), NEW e \in Entries,
         \A f \in Entries : QueuedIn(ls, f) => f.request # e.request,
         NEW ls2, ls2 = WithLane(ls, Joined(ls[IndexOf(ls, key)], e))
  PROVE  /\ LanesFine(ls2) /\ QueuedOnce(ls2)
         /\ DOMAIN ls2 = DOMAIN ls
         /\ \A i \in DOMAIN ls :
              /\ ls2[i].key = ls[i].key /\ ls2[i].tokens = ls[i].tokens
              /\ ls2[i].queued = ls[i].queued
              /\ ls[i].key # key => ls2[i] = ls[i]
         /\ \A f : QueuedIn(ls2, f) <=> QueuedIn(ls, f) \/ f = e
  <1> DEFINE i == IndexOf(ls, key)
             lane == ls[i]
             j == Joined(lane, e)
             p == SessionOf[e.request]
             s == lane.queues[p]
  <1>1. /\ i \in DOMAIN ls /\ lane.key = key /\ lane \in LaneRecords /\ LaneGood(lane)
        /\ \A k \in DOMAIN ls : ls[k].key = key => k = i
    BY IndexOfOK
  <1> HIDE DEF i, lane
  <1>2. /\ j \in LaneRecords /\ LaneGood(j) /\ j.key = key /\ j.tokens = lane.tokens
        /\ j.queued = lane.queued
        /\ \A q \in Participants :
             j.queues[q] = IF q = p THEN Append(lane.queues[q], e) ELSE lane.queues[q]
    BY <1>1, JoinedOK
  <1>3. p \in Participants /\ s \in Seq(Entries)
    BY <1>1 DEF Entries, TurnsAssumption, LaneRecords
  <1> HIDE DEF j, p, s
  <1>4. ls2 = WithLane(ls, j)
    BY DEF j, lane, i
  <1>5. /\ LanesFine(ls2) /\ DOMAIN ls2 = DOMAIN ls
        /\ ls2[i] = j /\ lane = ls[i]
        /\ \A k \in DOMAIN ls : k # i => ls2[k] = ls[k]
    BY <1>1, <1>2, <1>4, WithLaneOK DEF i, lane
  <1>6. /\ DOMAIN s = 1 .. Len(s) /\ Len(s) \in Nat
        /\ DOMAIN Append(s, e) = 1 .. Len(s) + 1
        /\ \A k \in 1 .. Len(s) : Append(s, e)[k] = s[k]
        /\ Append(s, e)[Len(s) + 1] = e
    BY <1>3, AppendProperties, LenProperties
  <1> DEFINE last == Len(s) + 1
  <1>7. /\ DOMAIN j.queues[p] = DOMAIN s \cup {last} /\ last \notin DOMAIN s
        /\ \A k \in DOMAIN s : j.queues[p][k] = s[k]
        /\ j.queues[p][last] = e
        /\ lane.queues[p] = s
    <2>1. j.queues[p] = Append(s, e) /\ lane.queues[p] = s
      BY <1>2, <1>3 DEF s
    <2>2. DOMAIN Append(s, e) = DOMAIN s \cup {last} /\ last \notin DOMAIN s
      BY <1>6
    <2> QED
      BY <1>6, <2>1, <2>2
  <1> HIDE DEF last
  \* An entry of the new queues is an old one, or the new one.
  <1>8. ASSUME NEW k \in DOMAIN ls, NEW q \in Participants, NEW m \in DOMAIN ls2[k].queues[q]
        PROVE  \/ m \in DOMAIN ls[k].queues[q] /\ ls2[k].queues[q][m] = ls[k].queues[q][m]
               \/ k = i /\ q = p /\ m = last /\ ls2[k].queues[q][m] = e
    <2>1. CASE k # i
      BY <1>5, <1>8, <2>1
    <2>2. CASE k = i /\ q # p
      BY <1>2, <1>5, <1>8, <2>2
    <2>3. CASE k = i /\ q = p
      BY <1>5, <1>7, <1>8, <2>3
    <2> QED
      BY <2>1, <2>2, <2>3
  <1>9. ASSUME NEW k \in DOMAIN ls, NEW q \in Participants, NEW m \in DOMAIN ls[k].queues[q]
        PROVE  m \in DOMAIN ls2[k].queues[q] /\ ls2[k].queues[q][m] = ls[k].queues[q][m]
    <2>1. CASE k # i
      BY <1>5, <1>9, <2>1
    <2>2. CASE k = i /\ q # p
      BY <1>2, <1>5, <1>9, <2>2
    <2>3. CASE k = i /\ q = p
      BY <1>5, <1>7, <1>9, <2>3
    <2> QED
      BY <2>1, <2>2, <2>3
  <1>10. QueuedIn(ls2, e)
    BY <1>1, <1>3, <1>5, <1>7 DEF QueuedIn
  <1>11. ASSUME NEW f PROVE QueuedIn(ls2, f) <=> QueuedIn(ls, f) \/ f = e
    <2>1. QueuedIn(ls2, f) => QueuedIn(ls, f) \/ f = e
      BY <1>5, <1>8 DEF QueuedIn
    <2>2. QueuedIn(ls, f) => QueuedIn(ls2, f)
      BY <1>5, <1>9 DEF QueuedIn
    <2> QED
      BY <1>10, <2>1, <2>2
  <1>12. ASSUME NEW k \in DOMAIN ls, NEW q \in Participants, NEW m \in DOMAIN ls[k].queues[q]
         PROVE  ls[k].queues[q][m].request # e.request
    <2>1. ls[k].queues[q] \in Seq(Entries)
      <3>1. ls[k] \in LaneRecords
        BY LenProperties DEF LanesFine
      <3> QED
        BY <3>1 DEF LaneRecords
    <2>2. ls[k].queues[q][m] \in Entries
      BY <1>12, <2>1, LenProperties
    <2> QED
      BY <1>12, <2>2 DEF QueuedIn
  <1>13. QueuedOnce(ls2)
    <2> SUFFICES ASSUME NEW k \in DOMAIN ls, NEW l \in DOMAIN ls, NEW q \in Participants,
                        NEW m \in DOMAIN ls2[k].queues[q], NEW n \in DOMAIN ls2[l].queues[q],
                        ls2[k].queues[q][m].request = ls2[l].queues[q][n].request
                 PROVE  k = l /\ m = n
      BY <1>5 DEF QueuedOnce
    <2>1. \/ m \in DOMAIN ls[k].queues[q] /\ ls2[k].queues[q][m] = ls[k].queues[q][m]
          \/ k = i /\ q = p /\ m = last /\ ls2[k].queues[q][m] = e
      BY <1>8
    <2>2. \/ n \in DOMAIN ls[l].queues[q] /\ ls2[l].queues[q][n] = ls[l].queues[q][n]
          \/ l = i /\ q = p /\ n = last /\ ls2[l].queues[q][n] = e
      BY <1>8
    <2> QED
      BY <1>12, <2>1, <2>2 DEF QueuedOnce
  <1> QED
    BY <1>1, <1>2, <1>5, <1>11, <1>13

\* The first of a queue leaves, for good: the lane of key waits for it.
TookFrom(ls, ls2, key, h) ==
  /\ LanesFine(ls2) /\ QueuedOnce(ls2)
  /\ DOMAIN ls2 = DOMAIN ls
  /\ \A i \in DOMAIN ls :
       /\ ls2[i].key = ls[i].key
       /\ ls[i].key # key => ls2[i] = ls[i]
       /\ ls[i].key = key => ls2[i].tokens = {h.request} /\ ls2[i].queued = h
  /\ h \in Entries
  /\ QueuedIn(ls, h)
  /\ \A f : QueuedIn(ls2, f) => QueuedIn(ls, f) /\ f.request # h.request
  /\ \A f : QueuedIn(ls, f) => QueuedIn(ls2, f) \/ f = h

LEMMA TakenQueues ==
  ASSUME TurnAssumption, TurnsAssumption, NEW ls, LanesFine(ls), QueuedOnce(ls),
         NEW key, HasLane(ls, key), NEW lane, lane = ls[IndexOf(ls, key)],
         NEW p \in Queued(lane), lane.tokens = {},
         NEW ls2, ls2 = WithLane(ls, Taken(lane, p))
  PROVE  TookFrom(ls, ls2, key, Head(lane.queues[p]))
  <1> DEFINE i == IndexOf(ls, key)
             t == Taken(lane, p)
             s == lane.queues[p]
             h == Head(s)
  <1>1. /\ i \in DOMAIN ls /\ lane.key = key /\ lane \in LaneRecords /\ LaneGood(lane)
        /\ \A k \in DOMAIN ls : ls[k].key = key => k = i
    BY IndexOfOK
  <1>2. /\ t \in LaneRecords /\ LaneGood(t) /\ t.key = key /\ t.tokens = {h.request}
        /\ t.queued = h /\ h \in Entries
        /\ \A q \in Participants :
             t.queues[q] = IF q = p THEN Tail(lane.queues[q]) ELSE lane.queues[q]
    BY <1>1, TakenOK
  <1>3. p \in Participants /\ s \in Seq(Entries) /\ s # <<>>
    BY <1>1 DEF LaneRecords, Queued
  <1>4. /\ Tail(s) \in Seq(Entries) /\ Len(Tail(s)) = Len(s) - 1
        /\ \A k \in 1 .. Len(Tail(s)) : Tail(s)[k] = s[k + 1]
        /\ Len(s) \in Nat \ {0} /\ DOMAIN s = 1 .. Len(s)
        /\ h = s[1]
    BY <1>3, HeadTailProperties, EmptySeq, LenProperties
  <1>5. DOMAIN Tail(s) = 1 .. Len(s) - 1
    BY <1>4, LenProperties
  <1>6. lane.queues[p] = s /\ t.queues[p] = Tail(s)
    BY <1>2, <1>3
  <1> HIDE DEF i, t, s, h
  <1>7. ls2 = WithLane(ls, t)
    BY DEF t
  <1>8. /\ LanesFine(ls2) /\ DOMAIN ls2 = DOMAIN ls
        /\ ls2[i] = t /\ lane = ls[i]
        /\ \A k \in DOMAIN ls : k # i => ls2[k] = ls[k]
    BY <1>1, <1>2, <1>7, WithLaneOK DEF i
  \* Place m of the new queue of p was place m + 1.
  <1>9. ASSUME NEW m \in DOMAIN Tail(s)
        PROVE  m + 1 \in DOMAIN s /\ Tail(s)[m] = s[m + 1] /\ m + 1 # 1
    BY <1>4, <1>5
  <1>10. ASSUME NEW m \in DOMAIN s, m # 1
         PROVE  m - 1 \in DOMAIN Tail(s) /\ Tail(s)[m - 1] = s[m]
    <2>1. m \in 1 .. Len(s)
      BY <1>4
    <2>2. m - 1 \in 1 .. Len(s) - 1 /\ (m - 1) + 1 = m
      BY <1>4, <1>10, <2>1
    <2> QED
      BY <1>4, <1>5, <2>2
  <1> DEFINE Was(k, q, m) == IF k = i /\ q = p THEN m + 1 ELSE m
  <1>11. ASSUME NEW k \in DOMAIN ls, NEW q \in Participants, NEW m \in DOMAIN ls2[k].queues[q]
         PROVE  /\ Was(k, q, m) \in DOMAIN ls[k].queues[q]
                /\ ls2[k].queues[q][m] = ls[k].queues[q][Was(k, q, m)]
                /\ ~(k = i /\ q = p /\ Was(k, q, m) = 1)
    <2>1. CASE k # i
      BY <1>8, <1>11, <2>1
    <2>2. CASE k = i /\ q # p
      BY <1>2, <1>8, <1>11, <2>2
    <2>3. CASE k = i /\ q = p
      BY <1>6, <1>8, <1>9, <1>11, <2>3
    <2> QED
      BY <2>1, <2>2, <2>3
  <1>12. ASSUME NEW k \in DOMAIN ls, NEW q \in Participants, NEW m \in DOMAIN ls[k].queues[q],
                ~(k = i /\ q = p /\ m = 1)
         PROVE  \E n \in DOMAIN ls2[k].queues[q] : ls2[k].queues[q][n] = ls[k].queues[q][m]
    <2>1. CASE k # i
      BY <1>8, <1>12, <2>1
    <2>2. CASE k = i /\ q # p
      BY <1>2, <1>8, <1>12, <2>2
    <2>3. CASE k = i /\ q = p
      <3>1. /\ ls[k].queues[q] = s /\ ls2[k].queues[q] = Tail(s)
            /\ m \in DOMAIN s /\ m # 1
        BY <1>6, <1>8, <1>12, <2>3
      <3>2. m - 1 \in DOMAIN Tail(s) /\ Tail(s)[m - 1] = s[m]
        BY <1>10, <3>1
      <3> QED
        BY <3>1, <3>2
    <2> QED
      BY <2>1, <2>2, <2>3
  <1>13. 1 \in DOMAIN s
    BY <1>4
  <1>14. QueuedIn(ls, h)
    BY <1>1, <1>3, <1>4, <1>6, <1>8, <1>13 DEF QueuedIn
  <1>15. ASSUME NEW f, QueuedIn(ls2, f) PROVE QueuedIn(ls, f) /\ f.request # h.request
    <2>0. PICK k \in DOMAIN ls, q \in Participants :
            \E m \in DOMAIN ls2[k].queues[q] : ls2[k].queues[q][m] = f
      BY <1>8, <1>15 DEF QueuedIn
    <2>1. PICK m \in DOMAIN ls2[k].queues[q] : ls2[k].queues[q][m] = f
      BY <2>0
    <2> DEFINE w == Was(k, q, m)
    <2>2. /\ w \in DOMAIN ls[k].queues[q] /\ f = ls[k].queues[q][w]
          /\ ~(k = i /\ q = p /\ w = 1)
      BY <1>11, <2>1
    <2> HIDE DEF w, Was
    <2>3. QueuedIn(ls, f)
      BY <2>2 DEF QueuedIn
    <2>4. ASSUME f.request = h.request PROVE FALSE
      <3>1. q = SessionOf[f.request]
        BY <2>2 DEF LanesFine, LaneGood
      <3>2. p = SessionOf[h.request]
        BY <1>1, <1>3, <1>4, <1>6, <1>13 DEF LaneGood
      <3>3. q = p
        BY <2>4, <3>1, <3>2
      <3>4. ls[k].queues[p][w].request = ls[i].queues[p][1].request
        BY <1>4, <1>6, <1>8, <2>2, <2>4, <3>3
      <3>5. 1 \in DOMAIN ls[i].queues[p] /\ w \in DOMAIN ls[k].queues[p]
        BY <1>6, <1>8, <1>13, <2>2, <3>3
      <3>6. k = i /\ w = 1
        BY <1>1, <1>3, <3>4, <3>5 DEF QueuedOnce
      <3> QED
        BY <2>2, <3>3, <3>6
    <2> QED
      BY <2>3, <2>4
  <1>16. ASSUME NEW f, QueuedIn(ls, f) PROVE QueuedIn(ls2, f) \/ f = h
    <2>0. PICK k \in DOMAIN ls, q \in Participants :
            \E m \in DOMAIN ls[k].queues[q] : ls[k].queues[q][m] = f
      BY <1>16 DEF QueuedIn
    <2>1. PICK m \in DOMAIN ls[k].queues[q] : ls[k].queues[q][m] = f
      BY <2>0
    <2>2. CASE k = i /\ q = p /\ m = 1
      BY <1>4, <1>6, <1>8, <2>1, <2>2
    <2>3. CASE ~(k = i /\ q = p /\ m = 1)
      BY <1>8, <1>12, <2>1, <2>3 DEF QueuedIn
    <2> QED
      BY <2>2, <2>3
  <1>17. QueuedOnce(ls2)
    <2> SUFFICES ASSUME NEW k \in DOMAIN ls, NEW l \in DOMAIN ls, NEW q \in Participants,
                        NEW m \in DOMAIN ls2[k].queues[q], NEW n \in DOMAIN ls2[l].queues[q],
                        ls2[k].queues[q][m].request = ls2[l].queues[q][n].request
                 PROVE  k = l /\ m = n
      BY <1>8 DEF QueuedOnce
    <2>1. /\ Was(k, q, m) \in DOMAIN ls[k].queues[q]
          /\ ls2[k].queues[q][m] = ls[k].queues[q][Was(k, q, m)]
      BY <1>11
    <2>2. /\ Was(l, q, n) \in DOMAIN ls[l].queues[q]
          /\ ls2[l].queues[q][n] = ls[l].queues[q][Was(l, q, n)]
      BY <1>11
    <2>3. k = l /\ Was(k, q, m) = Was(l, q, n)
      <3> HIDE DEF Was
      <3> QED
        BY <2>1, <2>2 DEF QueuedOnce
    <2>4. CASE k = i /\ q = p
      <3>1. m \in DOMAIN Tail(s) /\ n \in DOMAIN Tail(s)
        BY <1>6, <1>8, <2>3, <2>4
      <3>2. m + 1 = n + 1 /\ m \in Nat /\ n \in Nat
        BY <1>5, <2>3, <2>4, <3>1
      <3> QED
        BY <2>3, <3>2
    <2>5. CASE ~(k = i /\ q = p)
      BY <2>3, <2>5
    <2> QED
      BY <2>4, <2>5
  <1> QED
    BY <1>1, <1>2, <1>8, <1>14, <1>15, <1>16, <1>17 DEF h, s, TookFrom

----------------------------------------------------------------------------
(* The inductive invariant *)

ClaimsOK == ClaimsFine(claims)

LanesOK == LanesFine(lanes) /\ QueuedOnce(lanes)

Shape ==
  /\ fresh \cup approvals \cup answered \subseteq Requests
  /\ pending \in [DOMAIN pending -> CommandRecords] /\ DOMAIN pending \subseteq Requests
  /\ stopped \in BOOLEAN /\ connected \in BOOLEAN
  /\ rest \in Rests
  /\ rest.op = "pump" => HasLane(lanes, rest.lane)
  /\ micro \in Seq(Entries) /\ \A e \in ToSet(micro) : e.path # <<>>

New == fresh \cup approvals

\* A request is new, answered or under way, and what is under way is in one
\* of: a queue, the transport, the running call.
OnePlace ==
  /\ fresh \cap approvals = {} /\ answered \cap New = {} /\ DOMAIN pending \cap New = {}
  /\ \A e \in Entries : QueuedIn(lanes, e) => e.request \notin New \cup DOMAIN pending
  /\ rest.op = "dispatch" =>
       /\ rest.request \notin New \cup DOMAIN pending
       /\ \A e \in Entries : QueuedIn(lanes, e) => e.request # rest.request
  /\ \A e \in ToSet(micro) : e.request \notin New
  /\ \A i \in DOMAIN lanes : lanes[i].queued # None => lanes[i].queued.request \notin New

\* Request and path are kept: by the transport, a queue, the running call or
\* a callback that is due.
Held(e) ==
  \/ e.request \in Open /\ pending[e.request].path = e.path
  \/ QueuedIn(lanes, e)
  \/ rest.op = "dispatch" /\ rest.request = e.request /\ rest.path = e.path
  \/ e \in ToSet(micro)

Accounted == \A r \in Waiting : \E e \in Entries : e.request = r /\ Held(e)

StopSettled ==
  stopped =>
    /\ approvals = {} /\ Waiting = {} /\ lanes = <<>> /\ micro = <<>> /\ Open = {}
    /\ rest.op \in {"none", "complete"}

\* Somebody will release the lane of key from its wait for r.
OwesByTimer(key, r) ==
  r \in DOMAIN pending /\ pending[r].lane = key /\ pending[r].timer /\ key = Key(Scope(r))

OwesByPath(key, r) == \E e \in Entries : e.request = r /\ key \in ToSet(e.path) /\ Held(e)

OwesNow(key, r) == rest.op = "complete" /\ rest.lane = key /\ rest.request = r

Owes(key, r) == OwesByTimer(key, r) \/ OwesByPath(key, r) \/ OwesNow(key, r)

Moving ==
  \A i \in DOMAIN lanes :
    /\ Queued(lanes[i]) # {} /\ lanes[i].tokens = {} => rest = Pumping(lanes[i].key)
    /\ \A r \in lanes[i].tokens : Owes(lanes[i].key, r)

\* A claim that is alive and has no lane ends before the command that it was
\* last renewed for: the timer of what a new lane adopts is still to come.
TimersRun ==
  /\ ~Fenced => \A r \in DOMAIN pending : pending[r].timer
  /\ Fenced /\ ~stopped => \A r \in DOMAIN pending :
       /\ ~pending[r].timer => pending[r].left = 0
       /\ \A i \in DOMAIN claims : Key(claims[i].scope) = Key(Scope(r)) =>
            HasLane(lanes, Key(Scope(r))) \/ claims[i].left <= pending[r].left

IInv ==
  /\ ClaimsOK /\ LanesOK /\ Shape /\ OnePlace
  /\ Accounted /\ StopSettled /\ Moving /\ TimersRun

LEMMA InitIInv == ASSUME TurnsAssumption, Init PROVE IInv
  <1>1. ClaimsOK
    BY EmptySeq DEF Init, ClaimsOK, ClaimsFine
  <1>2. DOMAIN <<>> = {}
    OBVIOUS
  <1>3. LanesOK
    BY <1>2, EmptySeq DEF Init, LanesOK, LanesFine, QueuedOnce
  <1>4. ToSet(<<>>) = {}
    BY <1>2 DEF ToSet
  <1>5. Shape
    <2>1. micro \in Seq(Entries) /\ \A e \in ToSet(micro) : e.path # <<>>
      BY <1>4, EmptySeq DEF Init
    <2>2. pending \in [DOMAIN pending -> CommandRecords] /\ DOMAIN pending \subseteq Requests
      BY <1>2 DEF Init
    <2>3. rest \in Rests /\ rest.op # "pump"
      BY DEF Init, Rests, Nothing
    <2> QED
      BY <2>1, <2>2, <2>3 DEF Init, Shape
  <1>6. OnePlace
    <2>1. \A e : ~QueuedIn(lanes, e)
      BY <1>2 DEF Init, QueuedIn
    <2>2. rest.op # "dispatch"
      BY DEF Init, Nothing
    <2> QED
      BY <1>2, <1>4, <2>1, <2>2 DEF Init, OnePlace, New
  <1>7. Waiting = {}
    BY DEF Init, Waiting
  <1>8. Accounted /\ StopSettled /\ Moving /\ TimersRun
    BY <1>2, <1>7 DEF Init, Accounted, StopSettled, Moving, TimersRun
  <1> QED
    BY <1>1, <1>3, <1>5, <1>6, <1>8 DEF IInv

\* What the properties say follows.
LEMMA IInvTypeOK == ASSUME TurnsAssumption, IInv PROVE TurnsTypeOK
  <1>1. \A i \in DOMAIN claims : claims[i] \in ClaimRecords
    BY LenProperties DEF IInv, ClaimsOK, ClaimsFine
  <1>2. IsInjective([i \in DOMAIN claims |-> Key(claims[i].scope)])
    BY DEF IInv, ClaimsOK, ClaimsFine, IsInjective
  <1>3. \A i \in DOMAIN claims :
          claims[i].left \in 0 .. ClaimTtl /\ claims[i].agent = AgentOf[claims[i].session]
    BY <1>1 DEF IInv, ClaimsOK, ClaimsFine, ClaimRecords
  <1>4. IsInjective([i \in DOMAIN lanes |-> lanes[i].key])
    BY DEF IInv, LanesOK, LanesFine, IsInjective
  <1>5. ASSUME NEW i \in DOMAIN lanes
        PROVE  /\ lanes[i].tokens \subseteq Requests
               /\ (lanes[i].tokens = {}) <=> (lanes[i].active = None)
               /\ Queued(lanes[i]) \subseteq lanes[i].sched.pending
               /\ lanes[i].tokens = {} => Queued(lanes[i]) = lanes[i].sched.pending
    <2>1. lanes[i] \in LaneRecords /\ LaneGood(lanes[i])
      BY LenProperties DEF IInv, LanesOK, LanesFine
    <2>2. None \notin lanes[i].sched.pending
      BY <2>1 DEF LaneRecords, Schedulers, TurnsAssumption
    <2>3. lanes[i].tokens \subseteq Requests
      BY <2>1 DEF LaneRecords
    <2>4. /\ (lanes[i].tokens = {}) <=> (lanes[i].active = None)
          /\ Queued(lanes[i]) \subseteq lanes[i].sched.pending
          /\ lanes[i].sched.pending \subseteq Queued(lanes[i]) \cup {lanes[i].active}
      BY <2>1 DEF LaneGood
    <2>5. lanes[i].active = None => Queued(lanes[i]) = lanes[i].sched.pending
      BY <2>2, <2>4
    <2> QED
      BY <2>3, <2>4, <2>5
  <1>6. \A r \in DOMAIN pending :
          /\ pending[r].left \in 0 .. CommandTimeout
          /\ {pending[r].open, pending[r].timer} \subseteq BOOLEAN
    BY DEF IInv, Shape, CommandRecords
  <1>7. /\ fresh \cup approvals \cup answered \subseteq Requests
        /\ fresh \cap (approvals \cup answered) = {}
        /\ DOMAIN pending \subseteq Requests
        /\ {stopped, connected} \subseteq BOOLEAN
    BY DEF IInv, Shape, OnePlace, New
  <1> QED
    BY <1>2, <1>3, <1>4, <1>5, <1>6, <1>7 DEF TurnsTypeOK

\* Between turns, what is held is pending with its promise open, or queued.
LEMMA HeldBetweenTurns ==
  ASSUME TurnFree, NEW e, Held(e)
  PROVE  (e.request \in Open /\ pending[e.request].path = e.path) \/ QueuedIn(lanes, e)
  <1>1. rest.op # "dispatch"
    BY DEF TurnFree
  <1>2. ToSet(micro) = {}
    BY DEF TurnFree, ToSet
  <1> QED
    BY <1>1, <1>2 DEF Held

LEMMA IInvNoRequestLost == ASSUME IInv PROVE NoRequestLost
  <1> SUFFICES ASSUME TurnFree, NEW r \in Waiting
               PROVE  r \in Open \/ \E i \in DOMAIN lanes, p \in Participants :
                        \E k \in DOMAIN lanes[i].queues[p] :
                          lanes[i].queues[p][k].request = r
    BY DEF NoRequestLost
  <1>1. PICK e \in Entries : e.request = r /\ Held(e)
    BY DEF IInv, Accounted
  <1> QED
    BY <1>1, HeldBetweenTurns DEF QueuedIn

LEMMA IInvLaneKeepsMoving == ASSUME IInv PROVE LaneKeepsMoving
  <1> SUFFICES ASSUME TurnFree, NEW i \in DOMAIN lanes
               PROVE  /\ Queued(lanes[i]) # {} => lanes[i].tokens # {}
                      /\ \A r \in lanes[i].tokens : Owed(lanes[i].key, r)
    BY DEF LaneKeepsMoving
  <1>1. rest.op = "none"
    BY DEF TurnFree
  <1>2. Queued(lanes[i]) # {} => lanes[i].tokens # {}
    BY <1>1 DEF IInv, Moving, Pumping
  <1>3. ASSUME NEW r \in lanes[i].tokens PROVE Owed(lanes[i].key, r)
    <2> DEFINE key == lanes[i].key
    <2>1. OwesByTimer(key, r) \/ OwesByPath(key, r)
      BY <1>1 DEF IInv, Moving, Owes, OwesNow
    <2> HIDE DEF key
    <2>2. CASE OwesByTimer(key, r)
      BY <2>2 DEF OwesByTimer, Owed, key
    <2>3. CASE OwesByPath(key, r)
      <3>1. PICK e \in Entries : e.request = r /\ key \in ToSet(e.path) /\ Held(e)
        BY <2>3 DEF OwesByPath
      <3>2. (e.request \in Open /\ pending[e.request].path = e.path) \/ QueuedIn(lanes, e)
        BY <3>1, HeldBetweenTurns
      <3> QED
        BY <3>1, <3>2 DEF Owed, QueuedIn, key
    <2> QED
      BY <2>1, <2>2, <2>3
  <1> QED
    BY <1>2, <1>3

LEMMA IInvStopAnswersAll == ASSUME IInv PROVE StopAnswersAll
  BY DEF IInv, StopSettled, StopAnswersAll

----------------------------------------------------------------------------
(* What every step keeps *)

\* Who is held stays held, but for who is answered with no lane behind.
Carried == \A e \in Entries : Held(e) => Held(e)' \/ (e.path = <<>> /\ e.request \in answered')

LEMMA AccountedKept ==
  ASSUME Accounted, Carried,
         \A r \in Waiting' : r \in Waiting \/ \E e \in Entries : e.request = r /\ Held(e)'
  PROVE  Accounted'
  <1> SUFFICES ASSUME NEW r \in Waiting' PROVE \E e \in Entries : e.request = r /\ Held(e)'
    BY DEF Accounted
  <1>1. CASE r \in Waiting
    <2>1. PICK e \in Entries : e.request = r /\ Held(e)
      BY <1>1 DEF Accounted
    <2>2. Held(e)' \/ e.request \in answered'
      BY <2>1 DEF Carried
    <2>3. r \notin answered'
      BY DEF Waiting
    <2> QED
      BY <2>1, <2>2, <2>3
  <1> QED
    BY <1>1

LEMMA PathKept ==
  ASSUME Carried, NEW key, NEW r, OwesByPath(key, r)
  PROVE  OwesByPath(key, r)'
  <1>1. PICK e \in Entries : e.request = r /\ key \in ToSet(e.path) /\ Held(e)
    BY DEF OwesByPath
  <1>2. ToSet(<<>>) = {}
    BY DEF ToSet
  <1>3. Held(e)'
    BY <1>1, <1>2 DEF Carried
  <1> QED
    BY <1>1, <1>3 DEF OwesByPath

\* The commands stay; a lane adopts the ones in flight under its key.
CommandsKept ==
  \A q \in DOMAIN pending :
    /\ q \in DOMAIN pending'
    /\ pending'[q].path = pending[q].path
    /\ pending'[q].open = pending[q].open
    /\ pending'[q].timer = pending[q].timer
    /\ \/ pending'[q].lane = pending[q].lane
       \/ ~HasLane(lanes, Key(Scope(q)))

LEMMA TimerKept ==
  ASSUME CommandsKept, NEW key, NEW r, OwesByTimer(key, r), HasLane(lanes, key)
  PROVE  OwesByTimer(key, r)'
  BY DEF CommandsKept, OwesByTimer

LEMMA SameEntry ==
  ASSUME NEW e \in Entries, NEW f \in Entries, e.request = f.request, e.path = f.path
  PROVE  e = f
  <1>1. /\ e = [request |-> e.request, path |-> e.path]
        /\ f = [request |-> f.request, path |-> f.path]
    BY DEF Entries
  <1> QED
    BY <1>1

LEMMA AppendToSet ==
  ASSUME NEW S, NEW s \in Seq(S), NEW e \in S
  PROVE  ToSet(Append(s, e)) = ToSet(s) \cup {e}
  <1>1. /\ DOMAIN s = 1 .. Len(s) /\ Len(s) \in Nat
        /\ DOMAIN Append(s, e) = 1 .. Len(s) + 1
        /\ \A i \in 1 .. Len(s) : Append(s, e)[i] = s[i]
        /\ Append(s, e)[Len(s) + 1] = e
    BY AppendProperties, LenProperties
  <1>2. 1 .. Len(s) + 1 = (1 .. Len(s)) \cup {Len(s) + 1}
    BY <1>1
  <1> QED
    BY <1>1, <1>2 DEF ToSet

\* A promise settles: its caller is answered, or a callback is due.
LEMMA ResolvesOK ==
  ASSUME NEW e \in Entries, NEW callbacks \in Seq(Entries),
         \A f \in ToSet(callbacks) : f.path # <<>>,
         Resolves(e.request, e.path, callbacks)
  PROVE  /\ micro' \in Seq(Entries)
         /\ \A f \in ToSet(micro') : f.path # <<>>
         /\ ToSet(callbacks) \subseteq ToSet(micro')
         /\ ToSet(micro') \subseteq ToSet(callbacks) \cup {e}
         /\ answered' = answered \/ answered' = answered \cup {e.request}
         /\ e \in ToSet(micro') \/ (e.path = <<>> /\ e.request \in answered')
  <1>1. CASE e.path = <<>>
    BY <1>1 DEF Resolves
  <1>2. CASE e.path # <<>>
    <2>1. [request |-> e.request, path |-> e.path] = e
      BY DEF Entries
    <2>2. micro' = Append(callbacks, e) /\ answered' = answered
      BY <1>2, <2>1 DEF Resolves
    <2>3. ToSet(micro') = ToSet(callbacks) \cup {e} /\ micro' \in Seq(Entries)
      BY <2>2, AppendToSet, AppendProperties
    <2> QED
      BY <1>2, <2>2, <2>3
  <1> QED
    BY <1>1, <1>2

----------------------------------------------------------------------------
(* What a dispatch keeps, however it ends *)

\* The queues stay, but for e that may join one.
QueuesGrow(e) ==
  /\ \A f \in Entries : QueuedIn(lanes, f) => QueuedIn(lanes', f)
  /\ \A f \in Entries : QueuedIn(lanes', f) => QueuedIn(lanes, f) \/ f = e

CallbacksGrow(e) ==
  ToSet(micro) \subseteq ToSet(micro') /\ ToSet(micro') \subseteq ToSet(micro) \cup {e}

LanesKept ==
  \A i \in DOMAIN lanes :
    /\ i \in DOMAIN lanes'
    /\ lanes'[i].key = lanes[i].key
    /\ lanes'[i].tokens = lanes[i].tokens
    /\ lanes'[i].queued = lanes[i].queued
    /\ lanes'[i] = lanes[i] \/ rest' = Pumping(lanes[i].key)

LanesAdded ==
  \A i \in DOMAIN lanes' \ DOMAIN lanes :
    /\ lanes'[i].queued = None
    /\ Queued(lanes'[i]) = {} \/ rest' = Pumping(lanes'[i].key)
    /\ \A q \in lanes'[i].tokens : Owes(lanes[i].key, q)'

\* e leaves the running call for one place.
Moves(e) ==
  /\ Held(e)' \/ (e.path = <<>> /\ e.request \in answered')
  /\ answered' = answered \/ answered' = answered \cup {e.request}
  /\ DOMAIN pending' \subseteq DOMAIN pending \cup {e.request}
  /\ e.request \in DOMAIN pending' => \A f \in Entries : QueuedIn(lanes', f) => f.request # e.request
  /\ rest'.op # "dispatch"

LEMMA DispatchKeeps ==
  ASSUME TurnsAssumption, IInv, NEW e \in Entries, rest = Dispatching(e.request, e.path),
         UNCHANGED <<fresh, approvals, stopped, connected>>,
         Shape', QueuesGrow(e), CallbacksGrow(e), CommandsKept, LanesKept, LanesAdded, Moves(e)
  PROVE  OnePlace' /\ Accounted' /\ StopSettled' /\ Moving'
  <1>1. /\ rest.op = "dispatch" /\ rest.request = e.request /\ rest.path = e.path
        /\ e.request \in Requests
    BY DEF Dispatching, Entries
  <1>2. e.request \notin New /\ New' = New
    BY <1>1 DEF IInv, OnePlace, New
  <1>3. OnePlace'
    <2>1. (fresh \cap approvals = {} /\ answered \cap New = {} /\ DOMAIN pending \cap New = {})'
      BY <1>2 DEF IInv, OnePlace, Moves
    <2>2. ASSUME NEW f \in Entries, QueuedIn(lanes', f)
          PROVE  f.request \notin New' \cup DOMAIN pending'
      <3>1. CASE f = e
        BY <1>2, <2>2, <3>1 DEF Moves
      <3>2. CASE QueuedIn(lanes, f)
        BY <1>2, <2>2, <3>2 DEF IInv, OnePlace, Moves
      <3> QED
        BY <2>2, <3>1, <3>2 DEF QueuesGrow
    <2>3. \A f \in ToSet(micro') : f.request \notin New'
      BY <1>2 DEF CallbacksGrow, IInv, OnePlace
    <2>4. ASSUME NEW i \in DOMAIN lanes', lanes'[i].queued # None
          PROVE  lanes'[i].queued.request \notin New'
      BY <1>2, <2>4 DEF LanesKept, LanesAdded, IInv, OnePlace
    <2>5. rest'.op # "dispatch"
      BY DEF Moves
    <2> QED
      BY <2>1, <2>2, <2>3, <2>4, <2>5 DEF OnePlace
  <1>4. Carried
    <2> SUFFICES ASSUME NEW f \in Entries, Held(f)
                 PROVE  Held(f)' \/ (f.path = <<>> /\ f.request \in answered')
      BY DEF Carried
    <2>1. CASE f.request \in Open /\ pending[f.request].path = f.path
      BY <2>1 DEF Held, Open, CommandsKept
    <2>2. CASE QueuedIn(lanes, f)
      BY <2>2 DEF Held, QueuesGrow
    <2>3. CASE rest.op = "dispatch" /\ rest.request = f.request /\ rest.path = f.path
      <3>1. f = e
        BY <1>1, <2>3, SameEntry
      <3> QED
        BY <3>1 DEF Moves
    <2>4. CASE f \in ToSet(micro)
      BY <2>4 DEF Held, CallbacksGrow
    <2> QED
      BY <2>1, <2>2, <2>3, <2>4 DEF Held
  <1>5. Accounted'
    <2>1. Waiting' \subseteq Waiting
      BY DEF Waiting, Moves
    <2> QED
      BY <1>4, <2>1, AccountedKept DEF IInv
  <1>6. StopSettled'
    BY <1>1 DEF IInv, StopSettled
  <1>7. Moving'
    <2> SUFFICES ASSUME NEW i \in DOMAIN lanes'
                 PROVE  /\ Queued(lanes'[i]) # {} /\ lanes'[i].tokens = {} =>
                             rest' = Pumping(lanes'[i].key)
                        /\ \A r \in lanes'[i].tokens : Owes(lanes[i].key, r)'
      BY DEF Moving
    <2>1. CASE i \in DOMAIN lanes
      <3>1. rest # Pumping(lanes[i].key)
        BY <1>1 DEF Pumping
      <3>2. Queued(lanes[i]) # {} => lanes[i].tokens # {}
        BY <2>1, <3>1 DEF IInv, Moving
      <3>3. /\ lanes'[i].key = lanes[i].key /\ lanes'[i].tokens = lanes[i].tokens
            /\ lanes'[i] = lanes[i] \/ rest' = Pumping(lanes[i].key)
        BY <2>1 DEF LanesKept
      <3>4. ASSUME NEW r \in lanes[i].tokens PROVE Owes(lanes[i].key, r)'
        <4> DEFINE key == lanes[i].key
        <4>1. Owes(key, r) /\ HasLane(lanes, key)
          BY <2>1, <3>4 DEF IInv, Moving, HasLane
        <4>2. key' = key
          BY <3>3
        <4>3. ~OwesNow(key, r)
          BY <1>1 DEF OwesNow
        <4>4. ASSUME NEW k, HasLane(lanes, k), OwesByTimer(k, r) \/ OwesByPath(k, r)
              PROVE  Owes(k, r)'
          BY <1>4, <4>4, TimerKept, PathKept DEF Owes
        <4>5. ASSUME NEW k, k = lanes[i].key, k = lanes'[i].key, Owes(k, r)'
              PROVE  Owes(lanes[i].key, r)'
          BY <4>5
        <4> QED
          BY <4>1, <4>2, <4>3, <4>4, <4>5 DEF Owes
      <3> QED
        BY <3>2, <3>3, <3>4
    <2>2. CASE i \notin DOMAIN lanes
      BY <2>2 DEF LanesAdded
    <2> QED
      BY <2>1, <2>2
  <1> QED
    BY <1>3, <1>5, <1>6, <1>7

----------------------------------------------------------------------------
(* Dispatches that end, and dispatches that wait *)

\* The caller is answered, or its callback is due; nothing else changes but
\* that the claims that have lapsed may be forgotten.
LEMMA AnswersKeep ==
  ASSUME TurnsAssumption, IInv, NEW e \in Entries, rest = Dispatching(e.request, e.path),
         UNCHANGED <<fresh, approvals, stopped, connected>>,
         Resolves(e.request, e.path, micro), rest' = Nothing,
         claims' = claims \/ claims' = Live(claims), UNCHANGED <<lanes, pending>>
  PROVE  IInv'
  <1>1. /\ micro' \in Seq(Entries) /\ \A f \in ToSet(micro') : f.path # <<>>
        /\ ToSet(micro) \subseteq ToSet(micro') /\ ToSet(micro') \subseteq ToSet(micro) \cup {e}
        /\ answered' = answered \/ answered' = answered \cup {e.request}
        /\ e \in ToSet(micro') \/ (e.path = <<>> /\ e.request \in answered')
    BY ResolvesOK DEF IInv, Shape
  <1>2. e.request \in Requests /\ rest'.op = "none"
    BY DEF Entries, Nothing
  <1>3. ClaimsOK'
    BY LiveOK DEF IInv, ClaimsOK
  <1>4. LanesOK'
    BY DEF IInv, LanesOK
  <1>5. Shape'
    BY <1>1, <1>2 DEF IInv, Shape, Rests
  <1>6. /\ rest.op = "dispatch" /\ rest.request = e.request
    BY DEF Dispatching
  <1>7. QueuesGrow(e) /\ CallbacksGrow(e) /\ CommandsKept /\ LanesKept /\ LanesAdded
    BY <1>1 DEF QueuesGrow, CallbacksGrow, CommandsKept, LanesKept, LanesAdded
  <1>8. Moves(e)
    BY <1>1, <1>2, <1>6 DEF Moves, Held, IInv, OnePlace
  <1>9. OnePlace' /\ Accounted' /\ StopSettled' /\ Moving'
    BY <1>5, <1>7, <1>8, DispatchKeeps
  <1>10. TimersRun'
    <2>1. \A k \in DOMAIN claims' : \E i \in DOMAIN claims : claims'[k] = claims[i]
      BY LiveOK DEF IInv, ClaimsOK
    <2> QED
      BY <2>1 DEF IInv, TimersRun
  <1> QED
    BY <1>3, <1>4, <1>5, <1>9, <1>10 DEF IInv

\* A request joins a queue of ls: the lanes, and maybe one more that waits
\* for commands whose timers are still to come.
LEMMA JoinsKeep ==
  ASSUME TurnAssumption, TurnsAssumption, IInv, NEW e \in Entries,
         rest = Dispatching(e.request, e.path),
         UNCHANGED <<fresh, approvals, answered, stopped, connected, micro>>,
         NEW ls, LanesFine(ls), SameQueues(lanes, ls),
         \A i \in DOMAIN lanes : ls[i] = lanes[i],
         \A i \in DOMAIN ls \ DOMAIN lanes :
           ls[i].queued = None /\ \A q \in ls[i].tokens : OwesByTimer(ls[i].key, q)',
         NEW key \in Keys, HasLane(ls, key),
         \A i \in DOMAIN ls \ DOMAIN lanes : ls[i].key = key,
         lanes' = WithLane(ls, Joined(ls[IndexOf(ls, key)], e)), rest' = Pumping(key),
         CommandsKept, DOMAIN pending' = DOMAIN pending,
         pending' \in [DOMAIN pending -> CommandRecords],
         ClaimsOK', TimersRun'
  PROVE  IInv'
  <1>1. /\ rest.op = "dispatch" /\ rest.request = e.request /\ rest.path = e.path
        /\ e.request \in Requests
    BY DEF Dispatching, Entries
  <1>2. QueuedOnce(ls) /\ \A f : QueuedIn(ls, f) <=> QueuedIn(lanes, f)
    BY SameQueuesOK DEF IInv, LanesOK
  <1>3. \A f \in Entries : QueuedIn(ls, f) => f.request # e.request
    BY <1>1, <1>2 DEF IInv, OnePlace
  <1>4. /\ LanesFine(lanes') /\ QueuedOnce(lanes')
        /\ DOMAIN lanes' = DOMAIN ls
        /\ \A i \in DOMAIN ls :
              /\ lanes'[i].key = ls[i].key /\ lanes'[i].tokens = ls[i].tokens
              /\ lanes'[i].queued = ls[i].queued
              /\ ls[i].key # key => lanes'[i] = ls[i]
        /\ \A f : QueuedIn(lanes', f) <=> QueuedIn(ls, f) \/ f = e
    <2> DEFINE ls2 == WithLane(ls, Joined(ls[IndexOf(ls, key)], e))
    <2>1. /\ LanesFine(ls2) /\ QueuedOnce(ls2)
          /\ DOMAIN ls2 = DOMAIN ls
          /\ \A i \in DOMAIN ls :
                /\ ls2[i].key = ls[i].key /\ ls2[i].tokens = ls[i].tokens
                /\ ls2[i].queued = ls[i].queued
                /\ ls[i].key # key => ls2[i] = ls[i]
          /\ \A f : QueuedIn(ls2, f) <=> QueuedIn(ls, f) \/ f = e
      <3> DEFINE l2 == ls2
      <3>1. l2 = WithLane(ls, Joined(ls[IndexOf(ls, key)], e))
        OBVIOUS
      <3> HIDE DEF l2
      <3>2. /\ LanesFine(l2) /\ QueuedOnce(l2)
            /\ DOMAIN l2 = DOMAIN ls
            /\ \A i \in DOMAIN ls :
                  /\ l2[i].key = ls[i].key /\ l2[i].tokens = ls[i].tokens
                  /\ l2[i].queued = ls[i].queued
                  /\ ls[i].key # key => l2[i] = ls[i]
            /\ \A f : QueuedIn(l2, f) <=> QueuedIn(ls, f) \/ f = e
        BY <1>2, <1>3, <3>1, JoinedQueues
      <3> QED
        BY <3>2 DEF l2
    <2> QED
      BY <2>1
  <1>5. HasLane(lanes', key)
    BY <1>4 DEF HasLane
  <1>6. Shape'
    <2>1. rest' \in Rests /\ rest'.op = "pump" /\ rest'.lane = key
      BY DEF Rests, Pumping
    <2> QED
      BY <1>5, <2>1 DEF IInv, Shape
  <1>7. QueuesGrow(e) /\ CallbacksGrow(e)
    BY <1>2, <1>4 DEF QueuesGrow, CallbacksGrow
  <1>8. LanesKept
    <2> SUFFICES ASSUME NEW i \in DOMAIN lanes
                 PROVE  /\ i \in DOMAIN lanes'
                        /\ lanes'[i].key = lanes[i].key
                        /\ lanes'[i].tokens = lanes[i].tokens
                        /\ lanes'[i].queued = lanes[i].queued
                        /\ lanes'[i] = lanes[i] \/ rest' = Pumping(lanes[i].key)
      BY DEF LanesKept
    <2>1. i \in DOMAIN ls /\ ls[i] = lanes[i]
      BY DEF SameQueues
    <2> QED
      BY <1>4, <2>1
  <1>9. LanesAdded
    <2> SUFFICES ASSUME NEW i \in DOMAIN lanes' \ DOMAIN lanes
                 PROVE  /\ lanes'[i].queued = None
                        /\ rest' = Pumping(lanes'[i].key)
                        /\ \A q \in lanes'[i].tokens : Owes(lanes[i].key, q)'
      BY DEF LanesAdded
    <2>1. i \in DOMAIN ls \ DOMAIN lanes /\ ls[i].key = key /\ lanes'[i].key = key
      BY <1>4
    <2>2. ASSUME NEW q \in lanes'[i].tokens PROVE Owes(lanes[i].key, q)'
      <3>1. OwesByTimer(key, q)'
        BY <1>4, <2>1, <2>2
      <3>2. Owes(key, q)'
        BY <3>1 DEF Owes
      <3> QED
        BY <2>1, <3>2
    <2> QED
      BY <1>4, <2>1, <2>2
  <1>10. Moves(e)
    <2>1. Held(e)'
      BY <1>4 DEF Held
    <2>2. e.request \notin DOMAIN pending'
      BY <1>1 DEF IInv, OnePlace
    <2>3. rest'.op # "dispatch"
      BY DEF Pumping
    <2> QED
      BY <2>1, <2>2, <2>3 DEF Moves
  <1>11. OnePlace' /\ Accounted' /\ StopSettled' /\ Moving'
    BY <1>6, <1>7, <1>8, <1>9, <1>10, DispatchKeeps
  <1>12. LanesOK'
    BY <1>4 DEF LanesOK
  <1> QED
    BY <1>6, <1>11, <1>12 DEF IInv

LEMMA EnqueueIs ==
  ASSUME NEW ls, NEW key, NEW e \in Entries
  PROVE  Enqueue(ls, key, e.request, e.path) <=>
           /\ lanes' = WithLane(ls, Joined(ls[IndexOf(ls, key)], e))
           /\ rest' = Pumping(key)
  <1>1. [request |-> e.request, path |-> e.path] = e
    BY DEF Entries
  <1> QED
    BY <1>1 DEF Enqueue, Joined

LEMMA JoinsLaneKeeps ==
  ASSUME TurnAssumption, TurnsAssumption, IInv, NEW e \in Entries,
         rest = Dispatching(e.request, e.path),
         UNCHANGED <<fresh, approvals, stopped, connected>>,
         DispatchJoinsLane(e.request, e.path)
  PROVE  IInv'
  <1>1. /\ BusyLanes(e.request, e.path) # {}
        /\ Enqueue(lanes, BusyLane(e.request, e.path).key, e.request, e.path)
        /\ UNCHANGED <<answered, claims, pending, micro>>
    BY DEF DispatchJoinsLane, MustQueue
  <1>2. lanes \in Seq(LaneRecords) /\ DOMAIN lanes = 1 .. Len(lanes)
    BY LenProperties DEF IInv, LanesOK, LanesFine
  <1>3. PICK i \in DOMAIN lanes : BusyLane(e.request, e.path) = lanes[i]
    <2> DEFINE I == BusyLanes(e.request, e.path)
    <2>1. I \subseteq DOMAIN lanes /\ I \subseteq Nat
      BY <1>2 DEF BusyLanes
    <2> HIDE DEF I
    <2>2. Min(I) \in I
      BY <1>1, <2>1, MinOK DEF I
    <2> QED
      BY <2>1, <2>2 DEF BusyLane, I
  <1>4. PICK key : key = lanes[i].key
    OBVIOUS
  <1>5. key \in Keys /\ HasLane(lanes, key)
    <2>1. lanes[i] \in LaneRecords
      BY <1>2, LenProperties
    <2> QED
      BY <1>4, <2>1 DEF LaneRecords, HasLane
  <1>6. PICK ls : ls = lanes
    OBVIOUS
  <1>7. LanesFine(ls) /\ SameQueues(lanes, ls)
    BY <1>6 DEF SameQueues, IInv, LanesOK
  <1>8. lanes' = WithLane(ls, Joined(ls[IndexOf(ls, key)], e)) /\ rest' = Pumping(key)
    BY <1>1, <1>3, <1>4, <1>6, EnqueueIs
  <1>9. CommandsKept /\ pending' \in [DOMAIN pending -> CommandRecords] /\ DOMAIN pending' = DOMAIN pending
    BY <1>1 DEF CommandsKept, IInv, Shape
  <1>10. ClaimsOK'
    BY <1>1 DEF IInv, ClaimsOK
  <1>11. TimersRun'
    <2>1. HasLane(ls, key)
      BY <1>5, <1>6
    <2>2. IndexOf(ls, key) \in DOMAIN ls /\ DOMAIN lanes' = DOMAIN lanes
      BY <1>6, <1>7, <1>8, <2>1, IndexOfOK DEF WithLane
    <2>3. \A j \in DOMAIN lanes : lanes'[j].key = lanes[j].key
      <3>1. /\ ls[IndexOf(ls, key)] \in LaneRecords /\ LaneGood(ls[IndexOf(ls, key)])
            /\ ls[IndexOf(ls, key)].key = key
        BY <1>7, <2>1, IndexOfOK
      <3>2. Joined(ls[IndexOf(ls, key)], e).key = key
        BY <3>1, JoinedOK
      <3> QED
        BY <1>6, <1>8, <2>2, <3>1, <3>2 DEF WithLane
    <2>4. \A k : HasLane(lanes, k) => HasLane(lanes', k)
      BY <2>2, <2>3 DEF HasLane
    <2> QED
      BY <1>1, <2>4 DEF IInv, TimersRun
  <1>12. \A j \in DOMAIN ls \ DOMAIN lanes :
           /\ ls[j].queued = None /\ \A q \in ls[j].tokens : OwesByTimer(ls[j].key, q)'
           /\ ls[j].key = key
    BY <1>6
  <1>13. HasLane(ls, key) /\ \A j \in DOMAIN lanes : ls[j] = lanes[j]
    BY <1>5, <1>6
  <1>14. UNCHANGED <<fresh, approvals, answered, stopped, connected, micro>>
    BY <1>1
  <1> QED
    BY <1>5, <1>7, <1>8, <1>9, <1>10, <1>11, <1>12, <1>13, <1>14, JoinsKeep

\* The commands in flight under the key of a claim, with their lane.
LEMMA AdoptedOK ==
  ASSUME NEW c \in ClaimRecords, NEW D, NEW commands \in [D -> CommandRecords]
  PROVE  /\ Adopted(c, commands) \in [D -> CommandRecords]
         /\ \A q \in D :
              /\ Adopted(c, commands)[q].path = commands[q].path
              /\ Adopted(c, commands)[q].left = commands[q].left
              /\ Adopted(c, commands)[q].timer = commands[q].timer
              /\ Adopted(c, commands)[q].open = commands[q].open
              /\ Adopted(c, commands)[q].lane =
                   IF ~HasLane(lanes, Key(c.scope)) /\ Key(Scope(q)) = Key(c.scope)
                     THEN Key(c.scope) ELSE commands[q].lane
  <1>1. CASE HasLane(lanes, Key(c.scope))
    BY <1>1 DEF Adopted
  <1>2. CASE ~HasLane(lanes, Key(c.scope))
    <2> DEFINE key == Key(c.scope)
               a == Adopted(c, commands)
    <2>1. key \in Keys
      BY DEF ClaimRecords, Scopes, Keys
    <2>2. \A q \in D : q \in InFlightUnder(key, commands) <=> Key(Scope(q)) = key
      BY DEF InFlightUnder
    <2>3. a = [q \in D |-> IF q \in InFlightUnder(key, commands)
                            THEN [commands[q] EXCEPT !.lane = key] ELSE commands[q]]
      BY <1>2 DEF Adopted
    <2> HIDE DEF key, a
    <2>4. ASSUME NEW q \in D
          PROVE  /\ a[q] \in CommandRecords
                 /\ a[q].path = commands[q].path /\ a[q].left = commands[q].left
                 /\ a[q].timer = commands[q].timer /\ a[q].open = commands[q].open
                 /\ a[q].lane = IF Key(Scope(q)) = key THEN key ELSE commands[q].lane
      <3>1. commands[q] \in CommandRecords
        OBVIOUS
      <3>2. CASE Key(Scope(q)) = key
        <4>1. a[q] = [commands[q] EXCEPT !.lane = key]
          BY <2>2, <2>3, <3>2
        <4> QED
          BY <2>1, <3>1, <3>2, <4>1 DEF CommandRecords
      <3>3. CASE Key(Scope(q)) # key
        <4>1. a[q] = commands[q]
          BY <2>2, <2>3, <3>3
        <4> QED
          BY <3>1, <3>3, <4>1
      <3> QED
        BY <3>2, <3>3
    <2>5. a \in [D -> CommandRecords]
      BY <2>3, <2>4
    <2> QED
      BY <1>2, <2>4, <2>5 DEF a, key
  <1> QED
    BY <1>1, <1>2

LEMMA JoinsClaimKeeps ==
  ASSUME TurnAssumption, TurnsAssumption, IInv, NEW e \in Entries,
         rest = Dispatching(e.request, e.path),
         UNCHANGED <<fresh, approvals, stopped, connected>>,
         DispatchJoinsClaim(e.request, e.path)
  PROVE  IInv'
  <1>1. PICK c : c = Conflicting(e.request)
    OBVIOUS
  <1>2. /\ ~stopped /\ Conflicts(e.request) # {}
        /\ Enqueue(LanesWith(c, pending), Key(c.scope), e.request, e.path)
        /\ pending' = Adopted(c, pending)
        /\ claims' = Live(claims)
        /\ UNCHANGED <<answered, micro>>
    BY <1>1 DEF DispatchJoinsClaim
  <1>3. ClaimsFine(claims) /\ ClaimsFine(Live(claims))
    BY LiveOK DEF IInv, ClaimsOK
  <1>4. /\ c \in ClaimRecords
        /\ \E i \in DOMAIN claims : c = claims[i] /\ claims[i].left > 0
    <2> DEFINE I == Conflicts(e.request)
    <2>1. I \subseteq DOMAIN Live(claims)
      BY DEF Conflicts
    <2>2. /\ DOMAIN Live(claims) = 1 .. Len(Live(claims))
          /\ \A k \in DOMAIN Live(claims) : Live(claims)[k] \in ClaimRecords
      BY <1>3, LenProperties DEF ClaimsFine
    <2> HIDE DEF I
    <2>3. Min(I) \in I
      BY <1>2, <2>1, <2>2, MinOK DEF I
    <2>4. c = Live(claims)[Min(I)] /\ Min(I) \in DOMAIN Live(claims)
      BY <1>1, <2>1, <2>3 DEF Conflicting, I
    <2> QED
      BY <1>3, <2>2, <2>4, LiveOK
  <1>5. pending \in [DOMAIN pending -> CommandRecords] /\ DOMAIN pending \subseteq Requests
    BY DEF IInv, Shape
  <1>6. PICK key : key = Key(c.scope)
    OBVIOUS
  <1>7. key \in Keys
    BY <1>4, <1>6 DEF ClaimRecords, Scopes, Keys
  <1>8. PICK ls : ls = LanesWith(c, pending)
    OBVIOUS
  <1>9. /\ LanesFine(ls) /\ SameQueues(lanes, ls) /\ HasLane(ls, key)
        /\ \A i \in DOMAIN lanes : ls[i] = lanes[i]
        /\ \A i \in DOMAIN ls \ DOMAIN lanes :
             ls[i] = NewLane(c, pending) /\ ~HasLane(lanes, key)
    <2>1. LanesFine(lanes)
      BY DEF IInv, LanesOK
    <2> QED
      BY <1>4, <1>5, <1>6, <1>8, <2>1, LanesWithOK
  <1>10. /\ pending' \in [DOMAIN pending -> CommandRecords]
         /\ \A q \in DOMAIN pending :
              /\ pending'[q].path = pending[q].path /\ pending'[q].left = pending[q].left
              /\ pending'[q].timer = pending[q].timer /\ pending'[q].open = pending[q].open
              /\ pending'[q].lane =
                   IF ~HasLane(lanes, key) /\ Key(Scope(q)) = key THEN key ELSE pending[q].lane
    BY <1>2, <1>4, <1>5, <1>6, AdoptedOK
  <1>11. CommandsKept /\ DOMAIN pending' = DOMAIN pending
    BY <1>10 DEF CommandsKept
  <1>12. lanes' = WithLane(ls, Joined(ls[IndexOf(ls, key)], e)) /\ rest' = Pumping(key)
    BY <1>2, <1>6, <1>8, EnqueueIs
  <1>13. ASSUME NEW i \in DOMAIN ls \ DOMAIN lanes
         PROVE  /\ ls[i].queued = None /\ ls[i].key = key
                /\ \A q \in ls[i].tokens : OwesByTimer(ls[i].key, q)'
    <2>1. ls[i] = NewLane(c, pending) /\ ~HasLane(lanes, key)
      BY <1>9
    <2>2. /\ ls[i].queued = None /\ ls[i].key = key
          /\ ls[i].tokens = InFlightUnder(key, pending)
      BY <1>4, <1>5, <1>6, <2>1, NewLaneOK
    <2>3. ASSUME NEW q \in ls[i].tokens PROVE OwesByTimer(key, q)'
      <3>1. q \in DOMAIN pending /\ Key(Scope(q)) = key
        BY <2>2 DEF InFlightUnder
      <3>2. pending[q].timer
        <4>1. PICK j \in DOMAIN claims : c = claims[j] /\ claims[j].left > 0
          BY <1>4
        <4>2. pending[q].left \in Nat /\ claims[j].left \in Nat /\ pending[q].timer \in BOOLEAN
          <5>1. claims[j] \in ClaimRecords
            BY <1>3, LenProperties DEF ClaimsFine
          <5> QED
            BY <1>5, <3>1, <5>1 DEF CommandRecords, ClaimRecords, TurnsAssumption
        <4>3. Fenced \in BOOLEAN
          BY DEF TurnsAssumption
        <4>4. CASE ~Fenced
          BY <3>1, <4>4 DEF IInv, TimersRun
        <4>5. CASE Fenced
          <5>1. claims[j].left <= pending[q].left
            BY <1>2, <1>6, <2>1, <3>1, <4>1, <4>5 DEF IInv, TimersRun
          <5>2. pending[q].left # 0
            BY <4>1, <4>2, <5>1
          <5> QED
            BY <1>2, <3>1, <4>5, <5>2 DEF IInv, TimersRun
        <4> QED
          BY <4>3, <4>4, <4>5
      <3>3. pending'[q].lane = key /\ pending'[q].timer /\ q \in DOMAIN pending'
        BY <1>10, <1>11, <2>1, <3>1, <3>2
      <3> QED
        BY <3>1, <3>3 DEF OwesByTimer
    <2> QED
      BY <2>2, <2>3
  <1>14. ClaimsOK'
    BY <1>2, <1>3 DEF ClaimsOK
  <1>15. TimersRun'
    <2>1. \A k \in DOMAIN claims' : \E i \in DOMAIN claims : claims'[k] = claims[i]
      BY <1>2, <1>3, LiveOK
    <2>2. \A k : HasLane(lanes, k) => HasLane(lanes', k)
      <3>1. \A k : HasLane(lanes, k) => HasLane(ls, k)
        BY <1>9 DEF HasLane, SameQueues
      <3>2. /\ IndexOf(ls, key) \in DOMAIN ls /\ ls[IndexOf(ls, key)].key = key
            /\ ls[IndexOf(ls, key)] \in LaneRecords /\ LaneGood(ls[IndexOf(ls, key)])
        BY <1>9, IndexOfOK
      <3>3. Joined(ls[IndexOf(ls, key)], e).key = key
        BY <3>2, JoinedOK
      <3>4. DOMAIN lanes' = DOMAIN ls /\ \A i \in DOMAIN ls : lanes'[i].key = ls[i].key
        BY <1>12, <3>2, <3>3 DEF WithLane
      <3> QED
        BY <3>1, <3>4 DEF HasLane
    <2>3. ~Fenced => \A q \in DOMAIN pending' : pending'[q].timer
      BY <1>10, <1>11 DEF IInv, TimersRun
    <2>4. ASSUME Fenced, NEW q \in DOMAIN pending
          PROVE  /\ ~pending'[q].timer => pending'[q].left = 0
                 /\ \A i \in DOMAIN claims' : Key(claims'[i].scope) = Key(Scope(q)) =>
                      HasLane(lanes', Key(Scope(q))) \/ claims'[i].left <= pending'[q].left
      BY <1>2, <1>10, <2>1, <2>2, <2>4 DEF IInv, TimersRun
    <2> QED
      BY <1>11, <2>3, <2>4 DEF TimersRun
  <1>16. UNCHANGED <<fresh, approvals, answered, stopped, connected, micro>>
    BY <1>2
  <1> QED
    BY <1>7, <1>9, <1>10, <1>11, <1>12, <1>13, <1>14, <1>15, <1>16, JoinsKeep

----------------------------------------------------------------------------
(* Dispatches that reach the transport *)

\* The commands when the transport is called: the lane, if there is a new
\* one, waits for this command too.
CommandsSent(cs, e) ==
  /\ cs \in [DOMAIN pending \cup {e.request} -> CommandRecords]
  /\ \A q \in DOMAIN pending :
       /\ cs[q].path = pending[q].path /\ cs[q].left = pending[q].left
       /\ cs[q].timer = pending[q].timer /\ cs[q].open = pending[q].open
       /\ cs[q].lane = pending[q].lane \/ ~HasLane(lanes, Key(Scope(q)))
  /\ cs[e.request].path = e.path /\ cs[e.request].left = CommandTimeout
  /\ cs[e.request].timer = TRUE /\ cs[e.request].open = TRUE
  /\ TakesLane(e.path) /\ ~HasLane(lanes, Key(Scope(e.request))) =>
       \A q \in DOMAIN cs :
         Key(Scope(q)) = Key(Scope(e.request)) => cs[q].lane = Key(Scope(e.request))

LEMMA CommandsAtSendOK ==
  ASSUME TurnAssumption, TurnsAssumption, IInv, NEW e \in Entries,
         rest = Dispatching(e.request, e.path),
         NEW cs, cs = CommandsAtSend(e.request, e.path)
  PROVE  CommandsSent(cs, e)
  <1> DEFINE r == e.request
             c == ClaimOf(r)
             D == DOMAIN pending \cup {r}
             sent == Commands(r, e.path)
             mine == [path |-> e.path, lane |-> IF e.path = <<>> THEN None ELSE Head(e.path),
                      left |-> CommandTimeout, timer |-> TRUE, open |-> TRUE]
  <1>1. r \in Requests /\ e.path \in Seq(Keys) /\ r \notin DOMAIN pending
    BY DEF Entries, IInv, OnePlace, Dispatching
  <1>2. mine \in CommandRecords
    <2>1. e.path # <<>> => Head(e.path) \in Keys
      BY <1>1, HeadTailProperties
    <2>2. CommandTimeout \in 0 .. CommandTimeout
      BY DEF TurnsAssumption
    <2> QED
      BY <1>1, <2>1, <2>2 DEF CommandRecords
  <1>3. pending \in [DOMAIN pending -> CommandRecords]
    BY DEF IInv, Shape
  <1>4. sent = [q \in D |-> IF q # r THEN pending[q] ELSE mine]
    BY DEF Commands
  <1>5. c \in ClaimRecords /\ Key(c.scope) = Key(Scope(r))
    BY <1>1, ClaimOfOK DEF IInv, ClaimsOK
  <1> DEFINE key == Key(Scope(r))
  <1>6. mine.path = e.path /\ mine.left = CommandTimeout /\ mine.timer = TRUE /\ mine.open = TRUE
    OBVIOUS
  <1> HIDE DEF mine, sent, c, key
  <1>7. /\ sent \in [D -> CommandRecords] /\ \A q \in DOMAIN pending : sent[q] = pending[q]
        /\ sent[r] = mine
    BY <1>1, <1>2, <1>3, <1>4
  <1>8. CASE TakesLane(e.path)
    <2>1. cs = Adopted(c, sent)
      BY <1>8 DEF CommandsAtSend, c, sent
    <2>2. /\ cs \in [D -> CommandRecords]
          /\ \A q \in D :
              /\ cs[q].path = sent[q].path /\ cs[q].left = sent[q].left
              /\ cs[q].timer = sent[q].timer /\ cs[q].open = sent[q].open
              /\ cs[q].lane =
                   IF ~HasLane(lanes, Key(c.scope)) /\ Key(Scope(q)) = Key(c.scope)
                     THEN Key(c.scope) ELSE sent[q].lane
      <3> HIDE DEF D
      <3> QED
        BY <1>5, <1>7, <2>1, AdoptedOK
    <2>3. Key(c.scope) = key
      BY <1>5 DEF key
    <2>4. \A q \in DOMAIN pending :
            /\ cs[q].path = pending[q].path /\ cs[q].left = pending[q].left
            /\ cs[q].timer = pending[q].timer /\ cs[q].open = pending[q].open
            /\ cs[q].lane = pending[q].lane \/ ~HasLane(lanes, Key(Scope(q)))
      BY <1>7, <2>2
    <2>5. /\ cs[r].path = e.path /\ cs[r].left = CommandTimeout
          /\ cs[r].timer = TRUE /\ cs[r].open = TRUE
      BY <1>6, <1>7, <2>2
    <2>6. ~HasLane(lanes, key) => \A q \in DOMAIN cs : Key(Scope(q)) = key => cs[q].lane = key
      BY <2>2, <2>3
    <2> QED
      BY <2>2, <2>4, <2>5, <2>6 DEF key, CommandsSent
  <1>9. CASE ~TakesLane(e.path)
    <2>1. cs = sent
      BY <1>9 DEF CommandsAtSend, sent
    <2> QED
      BY <1>6, <1>7, <1>9, <2>1 DEF CommandsSent
  <1> QED
    BY <1>8, <1>9

\* The claims and the lanes of a dispatch that gets this far.
Claimed(cs, e) ==
  /\ \A i \in DOMAIN lanes : i \in DOMAIN lanes' /\ lanes'[i] = lanes[i]
  /\ \A i \in DOMAIN lanes' \ DOMAIN lanes :
       /\ lanes'[i].queued = None /\ Queued(lanes'[i]) = {}
       /\ lanes'[i].key = Key(Scope(e.request))
       /\ \A q \in lanes'[i].tokens :
            /\ q \in DOMAIN cs /\ cs[q].timer
            /\ cs[q].lane = Key(Scope(e.request)) /\ Key(Scope(q)) = Key(Scope(e.request))
  /\ \A f \in Entries : QueuedIn(lanes', f) => f.request # e.request
  /\ \A i \in DOMAIN claims' :
       \/ claims'[i].left = ClaimTtl /\ Key(claims'[i].scope) = Key(Scope(e.request))
       \/ \E j \in DOMAIN claims : claims'[i] = claims[j]
  /\ Fenced => \A q \in DOMAIN pending : Key(Scope(q)) # Key(Scope(e.request))

LEMMA ClaimsKeep ==
  ASSUME TurnAssumption, TurnsAssumption, IInv, NEW e \in Entries,
         rest = Dispatching(e.request, e.path), Claims(e.request, e.path),
         NEW cs, cs = CommandsAtSend(e.request, e.path)
  PROVE  ClaimsOK' /\ LanesOK' /\ QueuesGrow(e) /\ Claimed(cs, e)
  <1> DEFINE r == e.request
             key == Key(Scope(r))
  <1>1. /\ Free(r, e.path) /\ ~FenceExcludes(r)
        /\ claims' = WithClaim(Live(claims), ClaimOf(r))
        /\ lanes' = LanesAtSend(r, e.path)
    BY DEF Claims
  <1>2. r \in Requests /\ rest.op = "dispatch" /\ rest.request = r
    BY DEF Entries, Dispatching
  <1>3. Fenced => \A q \in DOMAIN pending : Key(Scope(q)) # key
    BY <1>1 DEF FenceExcludes
  <1>4. PICK c : c = ClaimOf(r)
    OBVIOUS
  <1>5. /\ c \in ClaimRecords /\ c.agent = AgentOf[c.session]
        /\ Key(c.scope) = key /\ c.left = ClaimTtl
    BY <1>2, <1>4, ClaimOfOK DEF IInv, ClaimsOK
  <1>6. /\ ClaimsFine(Live(claims))
        /\ \A k \in DOMAIN Live(claims) : \E i \in DOMAIN claims : Live(claims)[k] = claims[i]
    BY LiveOK DEF IInv, ClaimsOK
  <1>7. /\ ClaimsFine(claims')
        /\ \A i \in DOMAIN claims' : claims'[i] = c \/ \E j \in DOMAIN claims : claims'[i] = claims[j]
    <2> DEFINE live == Live(claims)
    <2> HIDE DEF live
    <2>1. claims' = WithClaim(live, c)
      BY <1>1, <1>4 DEF live
    <2>2. /\ ClaimsFine(WithClaim(live, c))
          /\ \A i \in DOMAIN WithClaim(live, c) :
              \/ WithClaim(live, c)[i] = c
              \/ \E j \in DOMAIN live : WithClaim(live, c)[i] = live[j]
      BY <1>5, <1>6, WithClaimOK DEF live
    <2> QED
      BY <1>6, <2>1, <2>2 DEF live
  <1>8. /\ DOMAIN cs = DOMAIN pending \cup {r}
        /\ \A q \in DOMAIN pending : cs[q].timer = pending[q].timer
        /\ cs[r].timer = TRUE
        /\ TakesLane(e.path) /\ ~HasLane(lanes, key) =>
              \A q \in DOMAIN cs : Key(Scope(q)) = key => cs[q].lane = key
    <2>1. CommandsSent(cs, e)
      BY CommandsAtSendOK
    <2> QED
      BY <2>1 DEF CommandsSent
  <1>9. PICK sent : sent = Commands(r, e.path)
    OBVIOUS
  <1>10. DOMAIN sent = DOMAIN pending \cup {r} /\ DOMAIN sent \subseteq Requests
    BY <1>2, <1>9 DEF Commands, IInv, Shape
  <1>11. PICK ls : ls = lanes'
    OBVIOUS
  <1>12. /\ LanesFine(ls) /\ SameQueues(lanes, ls)
         /\ \A i \in DOMAIN lanes : ls[i] = lanes[i]
         /\ \A i \in DOMAIN ls \ DOMAIN lanes :
              TakesLane(e.path) /\ ls[i] = NewLane(c, sent) /\ ~HasLane(lanes, key)
    <2>1. LanesFine(lanes)
      BY DEF IInv, LanesOK
    <2>2. CASE TakesLane(e.path)
      <3>1. ls = LanesWith(c, sent)
        BY <1>1, <1>4, <1>9, <1>11, <2>2 DEF LanesAtSend
      <3> QED
        BY <1>5, <1>10, <2>1, <2>2, <3>1, LanesWithOK
    <2>3. CASE ~TakesLane(e.path)
      <3>1. ls = lanes
        BY <1>1, <1>11, <2>3 DEF LanesAtSend
      <3> QED
        BY <2>1, <3>1 DEF SameQueues
    <2> QED
      BY <2>2, <2>3
  <1>13. QueuedOnce(ls) /\ \A f : QueuedIn(ls, f) <=> QueuedIn(lanes, f)
    BY <1>12, SameQueuesOK DEF IInv, LanesOK
  <1>14. ASSUME NEW i \in DOMAIN ls \ DOMAIN lanes
         PROVE  /\ ls[i].queued = None /\ Queued(ls[i]) = {} /\ ls[i].key = key
                /\ \A q \in ls[i].tokens :
                     q \in DOMAIN cs /\ cs[q].timer /\ cs[q].lane = key /\ Key(Scope(q)) = key
    <2>1. TakesLane(e.path) /\ ls[i] = NewLane(c, sent) /\ ~HasLane(lanes, key)
      BY <1>12
    <2>2. /\ ls[i].queued = None /\ ls[i].key = key
          /\ ls[i].tokens = InFlightUnder(key, sent)
          /\ \A p \in Participants : ls[i].queues[p] = <<>>
      BY <1>5, <1>10, <2>1, NewLaneOK
    <2>3. Queued(ls[i]) = {}
      BY <2>2 DEF Queued
    <2>4. ASSUME NEW q \in ls[i].tokens
          PROVE  q \in DOMAIN cs /\ cs[q].timer /\ cs[q].lane = key /\ Key(Scope(q)) = key
      <3>1. q \in DOMAIN pending \cup {r} /\ Key(Scope(q)) = key
        BY <1>10, <2>2 DEF InFlightUnder
      <3>2. cs[q].lane = key
        BY <1>8, <2>1, <3>1
      <3>3. cs[q].timer
        <4>1. CASE q = r
          BY <1>8, <4>1
        <4>2. CASE q \in DOMAIN pending
          BY <1>3, <1>8, <3>1, <4>2 DEF IInv, TimersRun
        <4> QED
          BY <3>1, <4>1, <4>2
      <3> QED
        BY <1>8, <3>1, <3>2, <3>3
    <2> QED
      BY <2>2, <2>3, <2>4
  <1>15. \A f \in Entries : QueuedIn(ls, f) => f.request # r
    BY <1>2, <1>13 DEF IInv, OnePlace
  <1>16. DOMAIN lanes \subseteq DOMAIN ls
    BY <1>12 DEF SameQueues
  <1> HIDE DEF r, key
  <1>17. ClaimsOK' /\ LanesOK'
    BY <1>7, <1>11, <1>12, <1>13 DEF ClaimsOK, LanesOK
  <1>18. QueuesGrow(e)
    BY <1>11, <1>13 DEF QueuesGrow
  <1>19. \A i \in DOMAIN claims' :
           \/ claims'[i].left = ClaimTtl /\ Key(claims'[i].scope) = key
           \/ \E j \in DOMAIN claims : claims'[i] = claims[j]
    BY <1>5, <1>7
  <1> QED
    BY <1>3, <1>11, <1>12, <1>14, <1>15, <1>16, <1>17, <1>18, <1>19 DEF r, key, Claimed

LEMMA SendKeeps ==
  ASSUME TurnsAssumption, IInv, NEW e \in Entries,
         rest = Dispatching(e.request, e.path),
         UNCHANGED <<fresh, approvals, stopped, connected>>,
         NEW cs, CommandsSent(cs, e), ClaimsOK', LanesOK', QueuesGrow(e), Claimed(cs, e),
         DOMAIN pending \subseteq DOMAIN pending',
         DOMAIN pending' \subseteq DOMAIN pending \cup {e.request},
         \A q \in DOMAIN pending : pending'[q] = cs[q],
         e.request \in DOMAIN pending' =>
           /\ pending'[e.request].left = CommandTimeout
           /\ pending'[e.request].timer /\ pending'[e.request].lane = cs[e.request].lane,
         e.request \in DOMAIN pending' \/ rest' = Completing(cs[e.request].lane, e.request),
         Shape', CallbacksGrow(e), Held(e)' \/ (e.path = <<>> /\ e.request \in answered'),
         answered' = answered \/ answered' = answered \cup {e.request}, rest'.op # "dispatch"
  PROVE  IInv'
  <1> DEFINE r == e.request
             key == Key(Scope(r))
  <1>1. r \in Requests /\ key \in Keys
    BY DEF Entries, Keys
  <1>2. key # None
    BY <1>1, KeyAssumption
  <1>3. CommandsKept
    BY DEF CommandsSent, CommandsKept
  <1>4. LanesKept
    BY DEF Claimed, LanesKept
  <1>5. LanesAdded
    <2> SUFFICES ASSUME NEW i \in DOMAIN lanes' \ DOMAIN lanes
                 PROVE  /\ lanes'[i].queued = None /\ Queued(lanes'[i]) = {}
                        /\ \A q \in lanes'[i].tokens : Owes(lanes[i].key, q)'
      BY DEF LanesAdded
    <2>1. /\ lanes'[i].queued = None /\ Queued(lanes'[i]) = {} /\ lanes'[i].key = key
          /\ \A q \in lanes'[i].tokens :
               q \in DOMAIN cs /\ cs[q].timer /\ cs[q].lane = key /\ Key(Scope(q)) = key
      BY DEF Claimed
    <2>2. DOMAIN cs = DOMAIN pending \cup {r}
      BY DEF CommandsSent
    <2>3. ASSUME NEW k, k = key, NEW q \in lanes'[i].tokens PROVE Owes(k, q)'
      <3>1. q \in DOMAIN cs /\ cs[q].timer /\ cs[q].lane = k /\ Key(Scope(q)) = k
        BY <2>1, <2>3
      <3>2. CASE q \in DOMAIN pending'
        <4>1. pending'[q].lane = k /\ pending'[q].timer
          BY <2>2, <3>1, <3>2
        <4>2. OwesByTimer(k, q)'
          BY <3>1, <3>2, <4>1 DEF OwesByTimer
        <4> QED
          BY <4>2 DEF Owes
      <3>3. CASE q \notin DOMAIN pending'
        <4>1. q = r
          BY <2>2, <3>1, <3>3
        <4>2. rest' = [op |-> "complete", lane |-> k, request |-> q]
          BY <1>2, <2>3, <3>1, <3>3, <4>1 DEF Completing
        <4>3. OwesNow(k, q)'
          BY <4>2 DEF OwesNow
        <4> QED
          BY <4>3 DEF Owes
      <3> QED
        BY <3>2, <3>3
    <2>4. \A q \in lanes'[i].tokens : Owes(lanes[i].key, q)'
      <3>1. PICK k : k = key
        OBVIOUS
      <3>2. k = lanes[i].key'
        BY <2>1, <3>1
      <3>3. \A q \in lanes'[i].tokens : Owes(k, q)'
        BY <2>3, <3>1
      <3> QED
        BY <3>2, <3>3
    <2> QED
      BY <2>1, <2>4
  <1>6. Moves(e)
    BY DEF Moves, Claimed
  <1>7. OnePlace' /\ Accounted' /\ StopSettled' /\ Moving'
    BY <1>3, <1>4, <1>5, <1>6, DispatchKeeps
  <1>8. TimersRun'
    <2>1. \A q \in DOMAIN pending :
            pending'[q].timer = pending[q].timer /\ pending'[q].left = pending[q].left
      BY DEF CommandsSent
    <2>2. ~Fenced => \A q \in DOMAIN pending' : pending'[q].timer
      BY <2>1 DEF IInv, TimersRun
    <2>3. \A k : HasLane(lanes, k) => HasLane(lanes', k)
      BY DEF HasLane, Claimed
    <2>4. ASSUME Fenced, ~stopped, NEW q \in DOMAIN pending'
          PROVE  ~pending'[q].timer => pending'[q].left = 0
      BY <2>1, <2>4 DEF IInv, TimersRun
    <2>5. ASSUME Fenced, ~stopped, NEW q \in DOMAIN pending', NEW i \in DOMAIN claims',
                 Key(claims'[i].scope) = Key(Scope(q)), ~HasLane(lanes', Key(Scope(q)))
          PROVE  claims'[i].left <= pending'[q].left
      <3>1. CASE q \notin DOMAIN pending
        <4>1. pending'[q].left = CommandTimeout
          BY <3>1
        <4>2. claims'[i].left \in 0 .. ClaimTtl
          <5>1. claims' \in Seq(ClaimRecords)
            BY DEF ClaimsOK, ClaimsFine
          <5>2. claims'[i] \in ClaimRecords
            BY <2>5, <5>1, LenProperties
          <5> QED
            BY <5>2 DEF ClaimRecords
        <4> QED
          BY <4>1, <4>2 DEF TurnsAssumption
      <3>2. CASE q \in DOMAIN pending
        <4>1. Key(Scope(q)) # key
          BY <2>5, <3>2 DEF Claimed
        <4>2. PICK j \in DOMAIN claims : claims'[i] = claims[j]
          BY <2>5, <4>1 DEF Claimed
        <4>3. ~HasLane(lanes, Key(Scope(q)))
          BY <2>3, <2>5
        <4> QED
          BY <2>1, <2>5, <3>2, <4>2, <4>3 DEF IInv, TimersRun
      <3> QED
        BY <3>1, <3>2
    <2> QED
      BY <2>2, <2>4, <2>5 DEF TimersRun
  <1> QED
    BY <1>7, <1>8 DEF IInv

LEMMA SentKeeps ==
  ASSUME TurnAssumption, TurnsAssumption, IInv, NEW e \in Entries,
         rest = Dispatching(e.request, e.path),
         UNCHANGED <<fresh, approvals, stopped, connected>>,
         DispatchSent(e.request, e.path)
  PROVE  IInv'
  <1>1. PICK cs : cs = CommandsAtSend(e.request, e.path)
    OBVIOUS
  <1>2. /\ Claims(e.request, e.path) /\ pending' = cs /\ rest' = Nothing
        /\ UNCHANGED <<answered, micro>>
    BY <1>1 DEF DispatchSent
  <1>3. CommandsSent(cs, e)
    BY <1>1, CommandsAtSendOK
  <1>4. ClaimsOK' /\ LanesOK' /\ QueuesGrow(e) /\ Claimed(cs, e)
    BY <1>1, <1>2, ClaimsKeep
  <1>5. /\ cs \in [DOMAIN pending \cup {e.request} -> CommandRecords] /\ e.request \in DOMAIN cs
        /\ cs[e.request].path = e.path /\ cs[e.request].left = CommandTimeout
        /\ cs[e.request].timer = TRUE /\ cs[e.request].open = TRUE
    BY <1>3 DEF CommandsSent
  <1>6. rest'.op = "none" /\ e.request \in Requests
    BY <1>2 DEF Nothing, Entries
  <1>7. Shape'
    BY <1>2, <1>5, <1>6 DEF IInv, Shape, Rests
  <1>8. Held(e)'
    BY <1>2, <1>5 DEF Held, Open
  <1>9. CallbacksGrow(e)
    BY <1>2 DEF CallbacksGrow
  <1>10. /\ DOMAIN pending \subseteq DOMAIN pending'
         /\ DOMAIN pending' \subseteq DOMAIN pending \cup {e.request}
         /\ \A q \in DOMAIN pending : pending'[q] = cs[q]
         /\ e.request \in DOMAIN pending'
         /\ pending'[e.request].left = CommandTimeout
         /\ pending'[e.request].timer /\ pending'[e.request].lane = cs[e.request].lane
    BY <1>2, <1>5
  <1> QED
    BY <1>2, <1>3, <1>4, <1>6, <1>7, <1>8, <1>9, <1>10, SendKeeps

LEMMA UnsentKeeps ==
  ASSUME TurnAssumption, TurnsAssumption, IInv, NEW e \in Entries,
         rest = Dispatching(e.request, e.path),
         UNCHANGED <<fresh, approvals, stopped, connected>>,
         DispatchUnsent(e.request, e.path)
  PROVE  IInv'
  <1>1. PICK cs : cs = CommandsAtSend(e.request, e.path)
    OBVIOUS
  <1>2. /\ Claims(e.request, e.path) /\ pending' = [q \in DOMAIN pending |-> cs[q]]
        /\ Resolves(e.request, e.path, micro) /\ rest' = Completing(cs[e.request].lane, e.request)
    BY <1>1 DEF DispatchUnsent
  <1>3. CommandsSent(cs, e)
    BY <1>1, CommandsAtSendOK
  <1>4. ClaimsOK' /\ LanesOK' /\ QueuesGrow(e) /\ Claimed(cs, e)
    BY <1>1, <1>2, ClaimsKeep
  <1>5. cs \in [DOMAIN pending \cup {e.request} -> CommandRecords]
    BY <1>3 DEF CommandsSent
  <1>6. cs[e.request].lane \in Keys \cup {None} /\ e.request \in Requests
    BY <1>5 DEF CommandRecords, Entries
  <1>7. rest' \in Rests /\ rest'.op # "dispatch" /\ rest'.op # "pump"
    <2>1. CASE cs[e.request].lane = None
      BY <1>2, <2>1 DEF Completing, Rests, Nothing
    <2>2. CASE cs[e.request].lane # None
      BY <1>2, <1>6, <2>2 DEF Completing, Rests
    <2> QED
      BY <2>1, <2>2
  <1>8. /\ micro' \in Seq(Entries) /\ \A f \in ToSet(micro') : f.path # <<>>
        /\ ToSet(micro) \subseteq ToSet(micro') /\ ToSet(micro') \subseteq ToSet(micro) \cup {e}
        /\ answered' = answered \/ answered' = answered \cup {e.request}
        /\ e \in ToSet(micro') \/ (e.path = <<>> /\ e.request \in answered')
    BY <1>2, ResolvesOK DEF IInv, Shape
  <1>9. /\ pending' \in [DOMAIN pending -> CommandRecords] /\ DOMAIN pending' = DOMAIN pending
        /\ \A q \in DOMAIN pending : pending'[q] = cs[q]
    BY <1>2, <1>5
  <1>10. Shape'
    BY <1>6, <1>7, <1>8, <1>9 DEF IInv, Shape
  <1>11. CallbacksGrow(e) /\ (Held(e)' \/ (e.path = <<>> /\ e.request \in answered'))
    BY <1>8 DEF CallbacksGrow, Held
  <1>12. e.request \notin DOMAIN pending'
    BY <1>9 DEF IInv, OnePlace, Dispatching
  <1> QED
    BY <1>2, <1>3, <1>4, <1>7, <1>8, <1>9, <1>10, <1>11, <1>12, SendKeeps

LEMMA ThrowsKeeps ==
  ASSUME TurnAssumption, TurnsAssumption, IInv, NEW e \in Entries,
         rest = Dispatching(e.request, e.path),
         UNCHANGED <<fresh, approvals, stopped, connected>>,
         DispatchThrows(e.request, e.path)
  PROVE  IInv'
  <1> DEFINE r == e.request
  <1>1. PICK cs : cs = CommandsAtSend(e.request, e.path)
    OBVIOUS
  <1>2. /\ Claims(e.request, e.path) /\ pending' = [cs EXCEPT ![r].open = FALSE]
        /\ Resolves(e.request, e.path, micro) /\ rest' = Nothing
    BY <1>1 DEF DispatchThrows
  <1>3. CommandsSent(cs, e)
    BY <1>1, CommandsAtSendOK
  <1>4. ClaimsOK' /\ LanesOK' /\ QueuesGrow(e) /\ Claimed(cs, e)
    BY <1>1, <1>2, ClaimsKeep
  <1>5. /\ cs \in [DOMAIN pending \cup {r} -> CommandRecords] /\ r \in DOMAIN cs
        /\ cs[r].left = CommandTimeout /\ cs[r].timer = TRUE
    BY <1>3 DEF CommandsSent
  <1>6. r \in Requests /\ r \notin DOMAIN pending
    BY DEF Entries, IInv, OnePlace, Dispatching
  <1>7. rest' \in Rests /\ rest'.op = "none"
    BY <1>2 DEF Nothing, Rests
  <1>8. /\ micro' \in Seq(Entries) /\ \A f \in ToSet(micro') : f.path # <<>>
        /\ ToSet(micro) \subseteq ToSet(micro') /\ ToSet(micro') \subseteq ToSet(micro) \cup {e}
        /\ answered' = answered \/ answered' = answered \cup {e.request}
        /\ e \in ToSet(micro') \/ (e.path = <<>> /\ e.request \in answered')
    BY <1>2, ResolvesOK DEF IInv, Shape
  <1>9. /\ DOMAIN pending' = DOMAIN pending \cup {r}
        /\ \A q \in DOMAIN pending : pending'[q] = cs[q]
        /\ pending'[r] = [cs[r] EXCEPT !.open = FALSE]
    BY <1>2, <1>5, <1>6
  <1>10. /\ pending'[r].left = CommandTimeout /\ pending'[r].timer
         /\ pending'[r].lane = cs[r].lane /\ pending'[r] \in CommandRecords
    <2>1. cs[r] \in CommandRecords
      BY <1>5
    <2> QED
      BY <1>5, <1>9, <2>1 DEF CommandRecords
  <1>11. pending' \in [DOMAIN pending' -> CommandRecords]
    <2>1. \A q \in DOMAIN pending' : pending'[q] \in CommandRecords
      BY <1>5, <1>9, <1>10
    <2>2. pending' = [q \in DOMAIN pending' |-> pending'[q]]
      BY <1>2, <1>5
    <2> QED
      BY <2>1, <2>2
  <1>12. Shape'
    BY <1>6, <1>7, <1>8, <1>9, <1>11 DEF IInv, Shape
  <1>13. CallbacksGrow(e) /\ (Held(e)' \/ (e.path = <<>> /\ e.request \in answered'))
    BY <1>8 DEF CallbacksGrow, Held
  <1>14. /\ DOMAIN pending \subseteq DOMAIN pending'
         /\ DOMAIN pending' \subseteq DOMAIN pending \cup {r} /\ r \in DOMAIN pending'
    BY <1>9
  <1>15. rest'.op # "dispatch"
    BY <1>7
  <1> QED
    BY <1>3, <1>4, <1>8, <1>9, <1>10, <1>12, <1>13, <1>14, <1>15, SendKeeps

LEMMA DispatchAllKeeps ==
  ASSUME TurnAssumption, TurnsAssumption, IInv, Dispatch
  PROVE  IInv'
  <1>1. PICK r \in Requests, path \in Seq(Keys) : rest = Dispatching(r, path)
    BY DEF Dispatch, IInv, Shape, Rests, Nothing, Dispatching
  <1>2. PICK e \in Entries : e.request = r /\ e.path = path
    <2>1. [request |-> r, path |-> path] \in Entries
      BY DEF Entries
    <2> QED
      BY <2>1
  <1>3. rest = Dispatching(e.request, e.path)
    BY <1>1, <1>2
  <1>4. rest.request = e.request /\ rest.path = e.path
    BY <1>3 DEF Dispatching
  <1>5. UNCHANGED <<fresh, approvals, stopped, connected>>
    BY DEF Dispatch
  <1>6. CASE DispatchRefused(e.request, e.path)
    BY <1>3, <1>5, <1>6, AnswersKeep DEF DispatchRefused
  <1>7. CASE DispatchFenced(e.request, e.path)
    BY <1>3, <1>5, <1>7, AnswersKeep DEF DispatchFenced
  <1>8. CASE DispatchJoinsLane(e.request, e.path)
    BY <1>3, <1>5, <1>8, JoinsLaneKeeps
  <1>9. CASE DispatchJoinsClaim(e.request, e.path)
    BY <1>3, <1>5, <1>9, JoinsClaimKeeps
  <1>10. CASE DispatchSent(e.request, e.path)
    BY <1>3, <1>5, <1>10, SentKeeps
  <1>11. CASE DispatchUnsent(e.request, e.path)
    BY <1>3, <1>5, <1>11, UnsentKeeps
  <1>12. CASE DispatchThrows(e.request, e.path)
    BY <1>3, <1>5, <1>12, ThrowsKeeps
  <1> QED
    BY <1>4, <1>6, <1>7, <1>8, <1>9, <1>10, <1>11, <1>12 DEF Dispatch

----------------------------------------------------------------------------
(* Lanes that are released and pumped *)

\* A step of the running call that leaves everything but the lanes alone.
OnlyLanes ==
  UNCHANGED <<fresh, approvals, answered, claims, pending, stopped, connected, micro>>

\* The running call is over, and no lane waited for it to go on.
LEMMA RestOverKeeps ==
  ASSUME TurnsAssumption, IInv, OnlyLanes, UNCHANGED lanes,
         rest.op # "dispatch", rest' = Nothing,
         \A i \in DOMAIN lanes : rest = Pumping(lanes[i].key) => lanes[i].tokens # {},
         \A i \in DOMAIN lanes : \A q \in lanes[i].tokens : ~OwesNow(lanes[i].key, q)
  PROVE  IInv'
  <1>1. rest'.op = "none"
    BY DEF Nothing
  <1>2. ClaimsOK' /\ LanesOK'
    BY DEF IInv, ClaimsOK, LanesOK, OnlyLanes
  <1>3. Shape'
    BY <1>1 DEF IInv, Shape, OnlyLanes, Rests
  <1>4. OnePlace'
    BY <1>1 DEF IInv, OnePlace, OnlyLanes, New
  <1>5. Carried
    BY DEF Carried, Held, Open, OnlyLanes
  <1>6. Accounted'
    <2>1. Waiting' = Waiting
      BY DEF Waiting, OnlyLanes
    <2> QED
      BY <1>5, <2>1, AccountedKept DEF IInv
  <1>7. StopSettled'
    <2>1. Waiting' = Waiting /\ Open' = Open
      BY DEF Waiting, Open, OnlyLanes
    <2> QED
      BY <1>1, <2>1 DEF IInv, StopSettled, OnlyLanes
  <1>8. Moving'
    <2> SUFFICES ASSUME NEW i \in DOMAIN lanes
                 PROVE  /\ Queued(lanes[i]) # {} => lanes[i].tokens # {}
                        /\ \A r \in lanes[i].tokens : Owes(lanes[i].key, r)'
      BY DEF Moving
    <2>1. Queued(lanes[i]) # {} => lanes[i].tokens # {}
      BY DEF IInv, Moving
    <2>2. ASSUME NEW r \in lanes[i].tokens PROVE Owes(lanes[i].key, r)'
      <3>1. PICK k : k = lanes[i].key
        OBVIOUS
      <3>2. OwesByTimer(k, r) \/ OwesByPath(k, r)
        BY <2>2, <3>1 DEF IInv, Moving, Owes
      <3>3. OwesByTimer(k, r) => OwesByTimer(k, r)'
        BY DEF OwesByTimer, OnlyLanes
      <3>4. Owes(k, r)'
        BY <1>5, <3>2, <3>3, PathKept DEF Owes
      <3> QED
        BY <3>1, <3>4
    <2> QED
      BY <2>1, <2>2
  <1>9. TimersRun'
    BY DEF IInv, TimersRun, OnlyLanes
  <1> QED
    BY <1>2, <1>3, <1>4, <1>6, <1>7, <1>8, <1>9 DEF IInv

\* One lane changes, and keeps its queues.
LEMMA LaneStepKeeps ==
  ASSUME TurnAssumption, TurnsAssumption, IInv, OnlyLanes,
         NEW lane \in LaneRecords, LaneGood(lane), HasLane(lanes, lane.key),
         NEW old, old = lanes[IndexOf(lanes, lane.key)],
         lane.queues = old.queues, lane.queued \in {old.queued, None},
         lane.tokens \subseteq old.tokens, lanes' = WithLane(lanes, lane),
         rest.op # "dispatch", rest'.op # "dispatch", rest' \in Rests,
         rest'.op = "pump" => rest'.lane = lane.key,
         Queued(lane) # {} /\ lane.tokens = {} => rest' = Pumping(lane.key),
         \A k : rest = Pumping(k) => k = lane.key,
         \A k, q : OwesNow(k, q) => k = lane.key /\ q \notin lane.tokens,
         stopped => rest'.op \in {"none", "complete"}
  PROVE  IInv'
  <1> DEFINE i == IndexOf(lanes, lane.key)
  <1>1. LanesFine(lanes) /\ QueuedOnce(lanes)
    BY DEF IInv, LanesOK
  <1>2. /\ i \in DOMAIN lanes /\ lanes[i].key = lane.key
        /\ \A j \in DOMAIN lanes : lanes[j].key = lane.key => j = i
    BY <1>1, IndexOfOK
  <1>3. PICK ls : ls = lanes
    OBVIOUS
  <1>4. PICK ls2 : ls2 = lanes'
    OBVIOUS
  <1> HIDE DEF i
  <1>5. /\ LanesFine(ls2) /\ DOMAIN ls2 = DOMAIN ls /\ ls2[i] = lane
        /\ \A j \in DOMAIN ls : j # i => ls2[j] = ls[j]
        /\ \A j \in DOMAIN ls : ls2[j].key = ls[j].key
    BY <1>1, <1>3, <1>4, WithLaneOK DEF i
  <1>6. /\ i \in DOMAIN ls /\ old = ls[i] /\ LanesFine(ls) /\ QueuedOnce(ls)
    BY <1>1, <1>2, <1>3 DEF i
  <1>7. SameQueues(ls, ls2)
    BY <1>5, <1>6 DEF SameQueues
  <1>8. QueuedOnce(ls2) /\ \A f : QueuedIn(ls2, f) <=> QueuedIn(ls, f)
    BY <1>6, <1>7, SameQueuesOK
  <1>9. ClaimsOK' /\ LanesOK'
    BY <1>4, <1>5, <1>8 DEF IInv, ClaimsOK, LanesOK, OnlyLanes
  <1>10. \A k : HasLane(lanes', k) <=> HasLane(lanes, k)
    BY <1>3, <1>4, <1>5 DEF HasLane
  <1>11. Shape'
    BY <1>10 DEF IInv, Shape, OnlyLanes
  <1>12. OnePlace'
    <2>1. \A f : QueuedIn(lanes', f) <=> QueuedIn(lanes, f)
      BY <1>3, <1>4, <1>8
    <2>2. ASSUME NEW j \in DOMAIN lanes', lanes'[j].queued # None
          PROVE  j \in DOMAIN lanes /\ lanes'[j].queued = lanes[j].queued
      BY <1>3, <1>4, <1>5, <1>6, <2>2
    <2>3. New' = New
      BY DEF New, OnlyLanes
    <2> QED
      BY <2>1, <2>2, <2>3 DEF IInv, OnePlace, OnlyLanes
  <1>13. Carried
    <2>1. \A f : QueuedIn(lanes, f) => QueuedIn(lanes', f)
      BY <1>3, <1>4, <1>8
    <2> QED
      BY <2>1 DEF Carried, Held, Open, OnlyLanes
  <1>14. Accounted'
    <2>1. Waiting' = Waiting
      BY DEF Waiting, OnlyLanes
    <2> QED
      BY <1>13, <2>1, AccountedKept DEF IInv
  <1>15. StopSettled'
    <2>1. ~stopped
      <3>1. lanes # <<>>
        BY <1>2
      <3> QED
        BY <3>1 DEF IInv, StopSettled
    <2> QED
      BY <2>1 DEF StopSettled, OnlyLanes
  <1>16. Moving'
    <2> SUFFICES ASSUME NEW j \in DOMAIN lanes'
                 PROVE  /\ Queued(lanes'[j]) # {} /\ lanes'[j].tokens = {} =>
                             rest' = Pumping(lanes'[j].key)
                        /\ \A r \in lanes'[j].tokens : Owes(lanes[j].key, r)'
      BY DEF Moving
    <2>1. /\ j \in DOMAIN lanes /\ lanes'[j].key = lanes[j].key
          /\ lanes'[j].tokens \subseteq lanes[j].tokens
          /\ j # i => lanes'[j] = lanes[j] /\ lanes[j].key # lane.key
          /\ j = i => lanes'[j] = lane /\ lanes[j].key = lane.key
      <3>1. j \in DOMAIN lanes /\ lanes'[j].key = lanes[j].key
        BY <1>3, <1>4, <1>5
      <3>2. CASE j = i
        BY <1>2, <1>3, <1>4, <1>5, <1>6, <3>1, <3>2
      <3>3. CASE j # i
        BY <1>2, <1>3, <1>4, <1>5, <3>1, <3>3
      <3> QED
        BY <3>1, <3>2, <3>3
    <2>2. ASSUME Queued(lanes'[j]) # {}, lanes'[j].tokens = {}
          PROVE  rest' = Pumping(lanes'[j].key)
      BY <2>1, <2>2 DEF IInv, Moving
    <2>3. ASSUME NEW r \in lanes'[j].tokens PROVE Owes(lanes[j].key, r)'
      <3>1. PICK k : k = lanes[j].key
        OBVIOUS
      <3>2. ~OwesNow(k, r)
        BY <2>1, <2>3, <3>1
      <3>3. OwesByTimer(k, r) \/ OwesByPath(k, r)
        BY <2>1, <2>3, <3>1, <3>2 DEF IInv, Moving, Owes
      <3>4. OwesByTimer(k, r) => OwesByTimer(k, r)'
        BY DEF OwesByTimer, OnlyLanes
      <3>5. Owes(k, r)'
        BY <1>13, <3>3, <3>4, PathKept DEF Owes
      <3>6. k = lanes'[j].key
        BY <2>1, <3>1
      <3> QED
        BY <3>5, <3>6
    <2> QED
      BY <2>2, <2>3
  <1>17. TimersRun'
    BY <1>10 DEF IInv, TimersRun, OnlyLanes
  <1> QED
    BY <1>9, <1>11, <1>12, <1>14, <1>15, <1>16, <1>17 DEF IInv

LEMMA CompletingIs ==
  ASSUME IInv, rest.op = "complete"
  PROVE  /\ rest.lane \in Keys /\ rest.request \in Requests
         /\ rest = [op |-> "complete", lane |-> rest.lane, request |-> rest.request]
  BY DEF IInv, Shape, Rests, Nothing

LEMMA CompleteEarlyKeeps ==
  ASSUME TurnAssumption, TurnsAssumption, IInv, CompleteEarly
  PROVE  IInv'
  <1>1. /\ rest.op = "complete" /\ rest' = Nothing /\ OnlyLanes
        /\ IF HasLane(lanes, rest.lane) /\ rest.request \in Turn(rest.lane).tokens
             THEN /\ Turn(rest.lane).tokens # {rest.request}
                  /\ lanes' = WithLane(lanes,
                       [Turn(rest.lane) EXCEPT !.tokens = @ \ {rest.request}])
             ELSE UNCHANGED lanes
    BY DEF CompleteEarly, OnlyLanes
  <1>2. PICK key \in Keys, r \in Requests :
          rest = [op |-> "complete", lane |-> key, request |-> r]
    BY <1>1, CompletingIs
  <1>3. /\ rest.lane = key /\ rest.request = r
        /\ \A k, q : OwesNow(k, q) => k = key /\ q = r
        /\ \A k : rest # Pumping(k)
    BY <1>2 DEF OwesNow, Pumping
  <1>4. LanesFine(lanes)
    BY DEF IInv, LanesOK
  <1>5. CASE ~(HasLane(lanes, key) /\ r \in Turn(key).tokens)
    <2>1. UNCHANGED lanes
      BY <1>1, <1>3, <1>5
    <2>2. ASSUME NEW i \in DOMAIN lanes, NEW q \in lanes[i].tokens
          PROVE  ~OwesNow(lanes[i].key, q)
      <3>1. SUFFICES ASSUME lanes[i].key = key, q = r PROVE FALSE
        BY <1>3
      <3>2. HasLane(lanes, key)
        BY <3>1 DEF HasLane
      <3>3. i = IndexOf(lanes, key)
        BY <1>4, <3>1, <3>2, IndexOfOK
      <3> QED
        BY <1>5, <2>2, <3>1, <3>2, <3>3 DEF Turn
    <2> QED
      BY <1>1, <1>3, <2>1, <2>2, RestOverKeeps
  <1>6. CASE HasLane(lanes, key) /\ r \in Turn(key).tokens
    <2>1. PICK old : old = Turn(key)
      OBVIOUS
    <2>2. PICK lane : lane = [old EXCEPT !.tokens = @ \ {r}]
      OBVIOUS
    <2>3. /\ old \in LaneRecords /\ LaneGood(old) /\ old.key = key
          /\ old = lanes[IndexOf(lanes, key)]
      BY <1>4, <1>6, <2>1, IndexOfOK DEF Turn
    <2>4. old.tokens # {r} /\ r \in old.tokens /\ lanes' = WithLane(lanes, lane)
      BY <1>1, <1>3, <1>6, <2>1, <2>2
    <2>5. /\ lane \in LaneRecords /\ lane.key = key /\ lane.tokens = old.tokens \ {r}
          /\ lane.sched = old.sched /\ lane.active = old.active
          /\ lane.queued = old.queued /\ lane.queues = old.queues
      BY <2>2, <2>3 DEF LaneRecords
    <2>6. lane.tokens # {}
      BY <2>4, <2>5
    <2>7. Queued(lane) = Queued(old)
      BY <2>5 DEF Queued
    <2>8. LaneGood(lane)
      BY <2>3, <2>4, <2>5, <2>6, <2>7 DEF LaneGood
    <2>9. rest'.op = "none" /\ rest' \in Rests
      BY <1>1 DEF Nothing, Rests
    <2>10. \A k, q : OwesNow(k, q) => k = lane.key /\ q \notin lane.tokens
      BY <1>3, <2>5
    <2> QED
      BY <1>1, <1>3, <1>6, <2>3, <2>4, <2>5, <2>6, <2>8, <2>9, <2>10, LaneStepKeeps
  <1> QED
    BY <1>5, <1>6

LEMMA CompleteTurnKeeps ==
  ASSUME TurnAssumption, TurnsAssumption, IInv, CompleteTurn
  PROVE  IInv'
  <1>1. /\ rest.op = "complete" /\ HasLane(lanes, rest.lane) /\ OnlyLanes
    BY DEF CompleteTurn, OnlyLanes
  <1>2. PICK key \in Keys, r \in Requests :
          rest = [op |-> "complete", lane |-> key, request |-> r]
    BY <1>1, CompletingIs
  <1>3. /\ rest.lane = key /\ rest.request = r
        /\ \A k, q : OwesNow(k, q) => k = key /\ q = r
        /\ \A k : rest # Pumping(k)
    BY <1>2 DEF OwesNow, Pumping
  <1>4. PICK old : old = Turn(key)
    OBVIOUS
  <1>5. /\ old \in LaneRecords /\ LaneGood(old) /\ old.key = key
        /\ old = lanes[IndexOf(lanes, key)] /\ HasLane(lanes, key)
    <2>1. LanesFine(lanes)
      BY DEF IInv, LanesOK
    <2> QED
      BY <1>1, <1>3, <1>4, <2>1, IndexOfOK DEF Turn
  <1>6. PICK lane : lane = Released(old)
    OBVIOUS
  <1>7. /\ old.tokens = {r} /\ lanes' = WithLane(lanes, lane) /\ rest' = Pumping(key)
    BY <1>3, <1>4, <1>5, <1>6 DEF CompleteTurn, Released, AfterTurn
  <1>8. /\ lane \in LaneRecords /\ LaneGood(lane) /\ lane.key = key /\ lane.tokens = {}
        /\ lane.queued = None /\ lane.queues = old.queues
    <2>1. old.tokens # {}
      BY <1>7
    <2> QED
      BY <1>5, <1>6, <2>1, ReleasedOK
  <1>9. rest'.op = "pump" /\ rest'.lane = key /\ rest' \in Rests
    BY <1>7 DEF Pumping, Rests
  <1>10. ~stopped
    BY <1>5 DEF IInv, StopSettled, HasLane
  <1>11. \A k, q : OwesNow(k, q) => k = lane.key /\ q \notin lane.tokens
    BY <1>3, <1>8
  <1> QED
    BY <1>1, <1>3, <1>5, <1>7, <1>8, <1>9, <1>10, <1>11, LaneStepKeeps

LEMMA PumpingIs ==
  ASSUME IInv, rest.op = "pump"
  PROVE  /\ rest.lane \in Keys /\ rest = Pumping(rest.lane) /\ HasLane(lanes, rest.lane)
         /\ \A k : rest = Pumping(k) => k = rest.lane
         /\ \A k, q : ~OwesNow(k, q)
         /\ ~stopped
  <1>1. rest.lane \in Keys /\ rest = [op |-> "pump", lane |-> rest.lane]
    BY DEF IInv, Shape, Rests, Nothing
  <1>2. \A k : Pumping(k).lane = k
    BY DEF Pumping
  <1> QED
    BY <1>1, <1>2 DEF Pumping, OwesNow, IInv, Shape, StopSettled

LEMMA PumpNobodyKeeps ==
  ASSUME TurnAssumption, TurnsAssumption, IInv, PumpNobody
  PROVE  IInv'
  <1>1. rest.op = "pump" /\ rest' = Nothing /\ OnlyLanes
    BY DEF PumpNobody, OnlyLanes
  <1>2. PICK key : key = rest.lane
    OBVIOUS
  <1>3. /\ key \in Keys /\ HasLane(lanes, key) /\ \A k : rest = Pumping(k) => k = key
        /\ \A k, q : ~OwesNow(k, q)
    BY <1>1, <1>2, PumpingIs
  <1>4. PICK old : old = Turn(key)
    OBVIOUS
  <1>5. /\ old \in LaneRecords /\ LaneGood(old) /\ old.key = key
        /\ old = lanes[IndexOf(lanes, key)]
        /\ \A j \in DOMAIN lanes : lanes[j].key = key => lanes[j] = old
    <2>1. LanesFine(lanes)
      BY DEF IInv, LanesOK
    <2> QED
      BY <1>3, <1>4, <2>1, IndexOfOK DEF Turn
  <1>6. CASE old.tokens # {} /\ UNCHANGED lanes
    <2>1. \A i \in DOMAIN lanes : rest = Pumping(lanes[i].key) => lanes[i].tokens # {}
      BY <1>3, <1>5, <1>6
    <2> QED
      BY <1>1, <1>3, <1>6, <2>1, RestOverKeeps
  <1>7. CASE /\ old.tokens = {} /\ EnsureHolder(old.sched).holder = Nobody
             /\ lanes' = WithLane(lanes, [old EXCEPT !.sched = EnsureHolder(old.sched)])
    <2>1. PICK lane : lane = Idle(old)
      OBVIOUS
    <2>2. lanes' = WithLane(lanes, lane)
      BY <1>7, <2>1 DEF Idle
    <2>3. /\ lane \in LaneRecords /\ LaneGood(lane) /\ lane.key = key /\ lane.tokens = {}
          /\ lane.queued = old.queued /\ lane.queues = old.queues /\ Queued(old) = {}
      BY <1>5, <1>7, <2>1, IdleOK
    <2>4. Queued(lane) = {}
      BY <2>3 DEF Queued
    <2>5. rest'.op = "none" /\ rest' \in Rests
      BY <1>1 DEF Nothing, Rests
    <2>6. \A k, q : OwesNow(k, q) => k = lane.key /\ q \notin lane.tokens
      BY <1>3
    <2> QED
      BY <1>1, <1>3, <1>5, <2>2, <2>3, <2>4, <2>5, <2>6, LaneStepKeeps
  <1> QED
    BY <1>2, <1>4, <1>6, <1>7 DEF PumpNobody

\* The claim of the lane, if it is still there, goes to p.
LEMMA HandedOK ==
  ASSUME TurnsAssumption, ClaimsFine(claims), NEW lane, NEW p \in Participants
  PROVE  /\ ClaimsFine(Handed(lane, p))
         /\ DOMAIN Handed(lane, p) = DOMAIN claims
         /\ \A i \in DOMAIN claims :
              /\ Key(Handed(lane, p)[i].scope) = Key(claims[i].scope)
              /\ Key(claims[i].scope) = lane.key \/ Handed(lane, p)[i] = claims[i]
  <1> DEFINE n == Len(claims)
             e(i) == IF Key(claims[i].scope) = lane.key
                       THEN [claims[i] EXCEPT !.agent = AgentOf[p], !.session = p, !.left = ClaimTtl]
                       ELSE claims[i]
             w == Handed(lane, p)
  <1>1. n \in Nat /\ DOMAIN claims = 1 .. n /\ \A i \in 1 .. n : claims[i] \in ClaimRecords
    BY LenProperties DEF ClaimsFine
  <1>2. ClaimTtl \in 0 .. ClaimTtl
    BY DEF TurnsAssumption
  <1>3. ASSUME NEW i \in 1 .. n
        PROVE  /\ e(i) \in ClaimRecords /\ e(i).agent = AgentOf[e(i).session]
               /\ e(i).scope = claims[i].scope
               /\ Key(claims[i].scope) = lane.key \/ e(i) = claims[i]
    <2>1. CASE Key(claims[i].scope) = lane.key
      <3>1. e(i) = [claims[i] EXCEPT !.agent = AgentOf[p], !.session = p, !.left = ClaimTtl]
        BY <2>1
      <3> HIDE DEF e
      <3> QED
        BY <1>1, <1>2, <2>1, <3>1 DEF ClaimRecords
    <2>2. CASE Key(claims[i].scope) # lane.key
      <3>1. e(i) = claims[i]
        BY <2>2
      <3> HIDE DEF e
      <3> QED
        BY <1>1, <3>1 DEF ClaimsFine
    <2> QED
      BY <2>1, <2>2
  <1>4. w = [i \in 1 .. n |-> e(i)]
    BY <1>1 DEF Handed
  <1> HIDE DEF e, w
  <1>5. w \in Seq(ClaimRecords)
    BY <1>1, <1>3, <1>4, IsASeq
  <1>6. DOMAIN w = 1 .. n /\ \A i \in 1 .. n : w[i] = e(i)
    BY <1>4
  <1>7. ClaimsFine(w)
    BY <1>1, <1>3, <1>5, <1>6 DEF ClaimsFine
  <1> QED
    BY <1>1, <1>3, <1>6, <1>7 DEF w

LEMMA PumpDispatchesKeeps ==
  ASSUME TurnAssumption, TurnsAssumption, IInv, PumpDispatches
  PROVE  IInv'
  <1>1. rest.op = "pump"
    BY DEF PumpDispatches
  <1>2. PICK key : key = rest.lane
    OBVIOUS
  <1>3. /\ key \in Keys /\ HasLane(lanes, key) /\ \A k : rest = Pumping(k) => k = key
        /\ (\A k, q : ~OwesNow(k, q)) /\ ~stopped
    BY <1>1, <1>2, PumpingIs
  <1>4. PICK ls : ls = lanes
    OBVIOUS
  <1>5. PICK lane : lane = ls[IndexOf(ls, key)]
    OBVIOUS
  <1>6. LanesFine(ls) /\ QueuedOnce(ls) /\ HasLane(ls, key)
    BY <1>3, <1>4 DEF IInv, LanesOK
  <1>7. /\ lane \in LaneRecords /\ LaneGood(lane) /\ lane.key = key
        /\ \A j \in DOMAIN ls : ls[j].key = key => ls[j] = lane /\ j = IndexOf(ls, key)
    BY <1>5, <1>6, IndexOfOK
  <1>8. PICK p : p = EnsureHolder(lane.sched).holder
    OBVIOUS
  <1>9. PICK next : next = Head(lane.queues[p])
    OBVIOUS
  <1>10. PICK ls2 : ls2 = WithLane(ls, Taken(lane, p))
    OBVIOUS
  <1>11. /\ lane.tokens = {} /\ p \in Queued(lane)
         /\ lanes' = ls2 /\ rest' = Dispatching(next.request, <<key>> \o next.path)
         /\ claims' = Handed(lane, p)
         /\ UNCHANGED <<fresh, approvals, answered, pending, stopped, connected, micro>>
    BY <1>2, <1>4, <1>5, <1>7, <1>8, <1>9, <1>10 DEF PumpDispatches, Turn, Taken
  <1>12. /\ LanesFine(ls2) /\ QueuedOnce(ls2)
         /\ DOMAIN ls2 = DOMAIN ls
         /\ \A i \in DOMAIN ls :
              /\ ls2[i].key = ls[i].key
              /\ ls[i].key # key => ls2[i] = ls[i]
              /\ ls[i].key = key => ls2[i].tokens = {next.request} /\ ls2[i].queued = next
         /\ next \in Entries
         /\ QueuedIn(ls, next)
         /\ \A f : QueuedIn(ls2, f) => QueuedIn(ls, f) /\ f.request # next.request
         /\ \A f : QueuedIn(ls, f) => QueuedIn(ls2, f) \/ f = next
    <2>1. p \in Queued(lane) /\ lane.tokens = {}
      BY <1>11
    <2>2. TookFrom(ls, ls2, key, Head(lane.queues[p]))
      BY <1>5, <1>6, <1>10, <2>1, TakenQueues
    <2> QED
      BY <1>9, <2>2 DEF TookFrom
  <1>13. p \in Participants
    BY <1>11 DEF Queued
  <1>14. PICK e \in Entries :
           /\ e.request = next.request /\ e.path = <<key>> \o next.path
           /\ key \in ToSet(e.path) /\ ToSet(next.path) \subseteq ToSet(e.path)
    <2> DEFINE path == <<key>> \o next.path
               e == [request |-> next.request, path |-> path]
    <2>1. next.request \in Requests /\ next.path \in Seq(Keys)
      BY <1>12 DEF Entries
    <2>2. /\ <<key>> \in Seq(Keys) /\ Len(<<key>>) = 1 /\ <<key>>[1] = key
      BY <1>3
    <2>3. /\ path \in Seq(Keys) /\ Len(path) = 1 + Len(next.path)
          /\ \A i \in 1 .. 1 + Len(next.path) :
               path[i] = IF i <= 1 THEN <<key>>[i] ELSE next.path[i - 1]
      BY <2>1, <2>2, ConcatProperties
    <2>4. /\ Len(next.path) \in Nat /\ DOMAIN next.path = 1 .. Len(next.path)
          /\ DOMAIN path = 1 .. 1 + Len(next.path)
      BY <2>1, <2>3, LenProperties
    <2> HIDE DEF path
    <2>5. key \in ToSet(path)
      <3>1. 1 \in DOMAIN path /\ path[1] = key
        BY <2>2, <2>3, <2>4
      <3> QED
        BY <3>1 DEF ToSet
    <2>6. ToSet(next.path) \subseteq ToSet(path)
      <3> SUFFICES ASSUME NEW i \in DOMAIN next.path PROVE next.path[i] \in ToSet(path)
        BY DEF ToSet
      <3>1. i + 1 \in DOMAIN path /\ path[i + 1] = next.path[i]
        <4>1. i + 1 \in 1 .. 1 + Len(next.path) /\ ~(i + 1 <= 1) /\ (i + 1) - 1 = i
          BY <2>4
        <4> QED
          BY <2>3, <2>4, <4>1
      <3> QED
        BY <3>1 DEF ToSet
    <2>7. e \in Entries
      BY <2>1, <2>3 DEF Entries
    <2> QED
      BY <2>5, <2>6, <2>7 DEF path
  <1>15. /\ rest' = Dispatching(e.request, e.path)
         /\ rest'.op = "dispatch" /\ rest'.request = e.request /\ rest'.path = e.path
         /\ e.request \in Requests /\ e.path \in Seq(Keys)
    BY <1>11, <1>14 DEF Dispatching, Entries
  <1>16. Held(e)'
    BY <1>15 DEF Held
  <1>17. ASSUME NEW f \in Entries, Held(f)
         PROVE  Held(f)' \/ (f.request = e.request /\ ToSet(f.path) \subseteq ToSet(e.path))
    <2>1. CASE QueuedIn(lanes, f)
      BY <1>4, <1>11, <1>12, <1>14, <2>1 DEF Held
    <2>2. CASE ~QueuedIn(lanes, f)
      BY <1>1, <1>11, <1>17, <2>2 DEF Held, Open
    <2> QED
      BY <2>1, <2>2
  <1>18. ASSUME NEW f \in Entries, Held(f)
         PROVE  \E g \in Entries : /\ g.request = f.request /\ ToSet(f.path) \subseteq ToSet(g.path)
                                   /\ Held(g)'
    BY <1>16, <1>17, <1>18
  <1>19. /\ ClaimsOK' /\ DOMAIN claims' = DOMAIN claims
         /\ \A i \in DOMAIN claims :
              /\ Key(claims'[i].scope) = Key(claims[i].scope)
              /\ Key(claims[i].scope) = key \/ claims'[i] = claims[i]
    <2>1. /\ ClaimsFine(Handed(lane, p))
          /\ DOMAIN Handed(lane, p) = DOMAIN claims
          /\ \A i \in DOMAIN claims :
               /\ Key(Handed(lane, p)[i].scope) = Key(claims[i].scope)
               /\ Key(claims[i].scope) = lane.key \/ Handed(lane, p)[i] = claims[i]
      BY <1>13, HandedOK DEF IInv, ClaimsOK
    <2> QED
      BY <1>7, <1>11, <2>1 DEF ClaimsOK
  <1>20. LanesOK'
    BY <1>11, <1>12 DEF LanesOK
  <1>21. Shape'
    <2>1. rest' \in Rests
      BY <1>15 DEF Rests, Dispatching
    <2> QED
      BY <1>11, <1>15, <2>1 DEF IInv, Shape
  <1>22. OnePlace'
    <2>1. e.request \notin New \cup DOMAIN pending
      BY <1>4, <1>12, <1>14 DEF IInv, OnePlace
    <2>2. \A f \in Entries : QueuedIn(lanes', f) => QueuedIn(lanes, f) /\ f.request # e.request
      BY <1>4, <1>11, <1>12, <1>14
    <2>3. New' = New
      BY <1>11 DEF New
    <2>4. ASSUME NEW i \in DOMAIN lanes', lanes'[i].queued # None
          PROVE  lanes'[i].queued.request \notin New
      <3>1. i \in DOMAIN lanes /\ (lanes'[i] = lanes[i] \/ lanes'[i].queued = next)
        BY <1>4, <1>11, <1>12
      <3> QED
        BY <1>14, <2>1, <2>4, <3>1 DEF IInv, OnePlace
    <2> QED
      BY <1>11, <1>15, <2>1, <2>2, <2>3, <2>4 DEF IInv, OnePlace
  <1>23. Accounted'
    <2> SUFFICES ASSUME NEW r \in Waiting' PROVE \E g \in Entries : g.request = r /\ Held(g)'
      BY DEF Accounted
    <2>1. r \in Waiting
      BY <1>11 DEF Waiting
    <2>2. PICK f \in Entries : f.request = r /\ Held(f)
      BY <2>1 DEF IInv, Accounted
    <2> QED
      BY <1>18, <2>2
  <1>24. StopSettled'
    BY <1>3, <1>11 DEF StopSettled
  <1>25. Moving'
    <2> SUFFICES ASSUME NEW j \in DOMAIN lanes'
                 PROVE  /\ Queued(lanes'[j]) # {} => lanes'[j].tokens # {}
                        /\ \A r \in lanes'[j].tokens : Owes(lanes[j].key, r)'
      BY DEF Moving
    <2>1. PICK k : k = lanes'[j].key
      OBVIOUS
    <2>2. j \in DOMAIN lanes /\ lanes[j].key = k
      BY <1>4, <1>11, <1>12, <2>1
    <2>3. CASE k = key
      <3>1. lanes'[j].tokens = {e.request}
        BY <1>4, <1>11, <1>12, <1>14, <2>2, <2>3
      <3>2. OwesByPath(k, e.request)'
        BY <1>14, <1>16, <2>3 DEF OwesByPath
      <3>3. Owes(k, e.request)'
        BY <3>2 DEF Owes
      <3> QED
        BY <2>1, <3>1, <3>3
    <2>4. CASE k # key
      <3>1. lanes'[j] = lanes[j]
        BY <1>4, <1>11, <1>12, <2>2, <2>4
      <3>2. Queued(lanes[j]) # {} => lanes[j].tokens # {}
        BY <1>3, <2>2, <2>4 DEF IInv, Moving
      <3>3. ASSUME NEW r \in lanes[j].tokens PROVE Owes(k, r)'
        <4>1. OwesByTimer(k, r) \/ OwesByPath(k, r)
          BY <1>3, <2>2, <3>3 DEF IInv, Moving, Owes
        <4>2. CASE OwesByTimer(k, r)
          BY <1>11, <4>2 DEF OwesByTimer, Owes
        <4>3. CASE OwesByPath(k, r)
          <5>1. PICK f \in Entries : f.request = r /\ k \in ToSet(f.path) /\ Held(f)
            BY <4>3 DEF OwesByPath
          <5>2. OwesByPath(k, r)'
            BY <1>18, <5>1 DEF OwesByPath
          <5> QED
            BY <5>2 DEF Owes
        <4> QED
          BY <4>1, <4>2, <4>3
      <3> QED
        BY <2>1, <3>1, <3>2, <3>3
    <2> QED
      BY <2>3, <2>4
  <1>26. TimersRun'
    <2>1. \A k : HasLane(lanes, k) => HasLane(lanes', k)
      BY <1>4, <1>11, <1>12 DEF HasLane
    <2>2. ASSUME Fenced, NEW r \in DOMAIN pending, NEW i \in DOMAIN claims,
                 Key(claims'[i].scope) = Key(Scope(r))
          PROVE  HasLane(lanes', Key(Scope(r))) \/ claims'[i].left <= pending[r].left
      <3>1. Key(claims[i].scope) = Key(Scope(r))
        BY <1>19, <2>2
      <3>2. CASE Key(Scope(r)) = key
        BY <1>3, <2>1, <3>2
      <3>3. CASE Key(Scope(r)) # key
        <4>1. claims'[i] = claims[i]
          BY <1>19, <3>1, <3>3
        <4> QED
          BY <1>3, <2>1, <2>2, <3>1, <4>1 DEF IInv, TimersRun
      <3> QED
        BY <3>2, <3>3
    <2> QED
      BY <1>3, <1>11, <1>19, <2>2 DEF IInv, TimersRun
  <1> QED
    BY <1>19, <1>20, <1>21, <1>22, <1>23, <1>24, <1>25, <1>26 DEF IInv

----------------------------------------------------------------------------
(* Callbacks *)

LEMMA HeadTailToSet ==
  ASSUME NEW S, NEW s \in Seq(S), s # <<>>
  PROVE  /\ Head(s) \in S /\ Tail(s) \in Seq(S) /\ Head(s) \in ToSet(s)
         /\ ToSet(s) = {Head(s)} \cup ToSet(Tail(s))
  <1>1. /\ Head(s) \in S /\ Tail(s) \in Seq(S) /\ Len(Tail(s)) = Len(s) - 1
        /\ \A i \in 1 .. Len(Tail(s)) : Tail(s)[i] = s[i + 1]
    BY HeadTailProperties
  <1>2. /\ Len(s) \in Nat \ {0} /\ DOMAIN s = 1 .. Len(s)
        /\ DOMAIN Tail(s) = 1 .. Len(s) - 1 /\ Head(s) = s[1]
    BY <1>1, EmptySeq, LenProperties
  <1>3. Head(s) \in ToSet(s)
    BY <1>2 DEF ToSet
  <1>4. ToSet(Tail(s)) \subseteq ToSet(s)
    <2> SUFFICES ASSUME NEW i \in 1 .. Len(s) - 1 PROVE Tail(s)[i] \in ToSet(s)
      BY <1>2 DEF ToSet
    <2>1. i + 1 \in DOMAIN s /\ Tail(s)[i] = s[i + 1]
      BY <1>1, <1>2
    <2> QED
      BY <2>1 DEF ToSet
  <1>5. ToSet(s) \subseteq {Head(s)} \cup ToSet(Tail(s))
    <2> SUFFICES ASSUME NEW i \in 1 .. Len(s) PROVE s[i] \in {Head(s)} \cup ToSet(Tail(s))
      BY <1>2 DEF ToSet
    <2>1. CASE i = 1
      BY <1>2, <2>1
    <2>2. CASE i # 1
      <3>1. i - 1 \in DOMAIN Tail(s) /\ Tail(s)[i - 1] = s[i]
        <4>1. i - 1 \in 1 .. Len(s) - 1 /\ (i - 1) + 1 = i
          BY <1>2, <2>2
        <4> QED
          BY <1>1, <1>2, <4>1
      <3> QED
        BY <3>1 DEF ToSet
    <2> QED
      BY <2>1, <2>2
  <1> QED
    BY <1>1, <1>3, <1>4, <1>5

LEMMA CallbackKeeps ==
  ASSUME TurnsAssumption, IInv, Callback
  PROVE  IInv'
  <1>1. PICK m : m = Head(micro)
    OBVIOUS
  <1>2. /\ rest.op = "none" /\ micro # <<>>
        /\ Resolves(m.request, Tail(m.path), Tail(micro))
        /\ rest' = Completing(Head(m.path), m.request)
        /\ UNCHANGED <<fresh, approvals, claims, lanes, pending, stopped, connected>>
    BY <1>1 DEF Callback
  <1>3. /\ m \in Entries /\ Tail(micro) \in Seq(Entries) /\ m \in ToSet(micro)
        /\ ToSet(micro) = {m} \cup ToSet(Tail(micro))
    <2>1. micro \in Seq(Entries)
      BY DEF IInv, Shape
    <2> QED
      BY <1>1, <1>2, <2>1, HeadTailToSet
  <1>4. m.path # <<>> /\ m.request \in Requests /\ m.path \in Seq(Keys) /\ m.request \notin New
    BY <1>3 DEF IInv, Shape, Entries, OnePlace
  <1>5. PICK key : key = Head(m.path)
    OBVIOUS
  <1>6. PICK e \in Entries : e.request = m.request /\ e.path = Tail(m.path)
    <2>1. Tail(m.path) \in Seq(Keys)
      BY <1>4, HeadTailToSet
    <2>2. [request |-> m.request, path |-> Tail(m.path)] \in Entries
      BY <1>4, <2>1 DEF Entries
    <2> QED
      BY <2>2
  <1>7. key \in Keys /\ ToSet(m.path) = {key} \cup ToSet(e.path)
    BY <1>4, <1>5, <1>6, HeadTailToSet
  <1>8. /\ rest' = [op |-> "complete", lane |-> key, request |-> m.request]
        /\ rest' \in Rests /\ rest'.op = "complete"
    <2>1. key # None
      BY <1>7, KeyAssumption DEF Keys
    <2> QED
      BY <1>2, <1>4, <1>5, <1>7, <2>1 DEF Completing, Rests
  <1>9. /\ micro' \in Seq(Entries)
        /\ \A f \in ToSet(micro') : f.path # <<>>
        /\ ToSet(Tail(micro)) \subseteq ToSet(micro')
        /\ ToSet(micro') \subseteq ToSet(Tail(micro)) \cup {e}
        /\ answered' = answered \/ answered' = answered \cup {e.request}
        /\ e \in ToSet(micro') \/ (e.path = <<>> /\ e.request \in answered')
    <2>1. \A f \in ToSet(Tail(micro)) : f.path # <<>>
      BY <1>3 DEF IInv, Shape
    <2>2. PICK cb : cb = Tail(micro)
      OBVIOUS
    <2>3. cb \in Seq(Entries) /\ Resolves(e.request, e.path, cb) /\ \A f \in ToSet(cb) : f.path # <<>>
      BY <1>2, <1>3, <1>6, <2>1, <2>2
    <2>4. /\ micro' \in Seq(Entries)
          /\ \A f \in ToSet(micro') : f.path # <<>>
          /\ ToSet(cb) \subseteq ToSet(micro')
          /\ ToSet(micro') \subseteq ToSet(cb) \cup {e}
          /\ answered' = answered \/ answered' = answered \cup {e.request}
          /\ e \in ToSet(micro') \/ (e.path = <<>> /\ e.request \in answered')
      BY <2>3, ResolvesOK
    <2> QED
      BY <2>2, <2>4
  <1>10. ~stopped
    BY <1>2 DEF IInv, StopSettled
  <1>11. ASSUME NEW f \in Entries, Held(f)
         PROVE  Held(f)' \/ f = m
    <2>1. CASE f \in ToSet(micro)
      BY <1>3, <1>9, <2>1 DEF Held
    <2>2. CASE f \notin ToSet(micro)
      BY <1>2, <1>11, <2>2 DEF Held, Open
    <2> QED
      BY <2>1, <2>2
  <1>12. Held(e)' \/ (e.path = <<>> /\ e.request \in answered')
    BY <1>9 DEF Held
  <1>13. ClaimsOK' /\ LanesOK'
    BY <1>2 DEF IInv, ClaimsOK, LanesOK
  <1>14. Shape'
    BY <1>2, <1>4, <1>6, <1>8, <1>9 DEF IInv, Shape
  <1>15. OnePlace'
    <2>1. New' = New
      BY <1>2 DEF New
    <2>2. \A f \in ToSet(micro') : f.request \notin New
      BY <1>3, <1>4, <1>6, <1>9 DEF IInv, OnePlace
    <2> QED
      BY <1>2, <1>4, <1>6, <1>8, <1>9, <2>1, <2>2 DEF IInv, OnePlace
  <1>16. Accounted'
    <2> SUFFICES ASSUME NEW r \in Waiting' PROVE \E g \in Entries : g.request = r /\ Held(g)'
      BY DEF Accounted
    <2>1. r \in Waiting /\ r \notin answered'
      BY <1>2, <1>9 DEF Waiting
    <2>2. PICK f \in Entries : f.request = r /\ Held(f)
      BY <2>1 DEF IInv, Accounted
    <2> QED
      BY <1>6, <1>11, <1>12, <2>1, <2>2
  <1>17. StopSettled'
    BY <1>2, <1>10 DEF StopSettled
  <1>18. Moving'
    <2> SUFFICES ASSUME NEW j \in DOMAIN lanes
                 PROVE  /\ Queued(lanes[j]) # {} => lanes[j].tokens # {}
                        /\ \A r \in lanes[j].tokens : Owes(lanes[j].key, r)'
      BY <1>2 DEF Moving
    <2>1. Queued(lanes[j]) # {} => lanes[j].tokens # {}
      BY <1>2 DEF IInv, Moving, Pumping
    <2>2. ASSUME NEW r \in lanes[j].tokens PROVE Owes(lanes[j].key, r)'
      <3>1. PICK k : k = lanes[j].key
        OBVIOUS
      <3>2. OwesByTimer(k, r) \/ OwesByPath(k, r)
        BY <1>2, <2>2, <3>1 DEF IInv, Moving, Owes, OwesNow
      <3>3. ASSUME OwesByTimer(k, r) PROVE OwesByTimer(k, r)'
        BY <1>2, <3>3 DEF OwesByTimer
      <3>4. ASSUME OwesByPath(k, r) PROVE OwesByPath(k, r)' \/ OwesNow(k, r)'
        <4>1. PICK f \in Entries : f.request = r /\ k \in ToSet(f.path) /\ Held(f)
          BY <3>4 DEF OwesByPath
        <4>2. ASSUME Held(f)' PROVE OwesByPath(k, r)'
          BY <4>1, <4>2 DEF OwesByPath
        <4>3. ASSUME f = m, k = key PROVE OwesNow(k, r)'
          BY <1>8, <4>1, <4>3 DEF OwesNow
        <4>4. ASSUME f = m, k # key PROVE OwesByPath(k, r)'
          <5>1. k \in ToSet(e.path) /\ e.request = r
            BY <1>6, <1>7, <4>1, <4>4
          <5>2. e.path # <<>>
            BY <5>1 DEF ToSet
          <5>3. Held(e)'
            BY <1>12, <5>2
          <5> QED
            BY <5>1, <5>3 DEF OwesByPath
        <4> QED
          BY <1>11, <4>1, <4>2, <4>3, <4>4
      <3>5. Owes(k, r)'
        BY <3>2, <3>3, <3>4 DEF Owes
      <3> QED
        BY <1>2, <3>1, <3>5
    <2> QED
      BY <2>1, <2>2
  <1>19. TimersRun'
    BY <1>2 DEF IInv, TimersRun
  <1> QED
    BY <1>13, <1>14, <1>15, <1>16, <1>17, <1>18, <1>19 DEF IInv

LEMMA RunTurnKeeps ==
  ASSUME TurnAssumption, TurnsAssumption, IInv, RunTurn
  PROVE  IInv'
  BY DispatchAllKeeps, CompleteEarlyKeeps, CompleteTurnKeeps, PumpNobodyKeeps,
     PumpDispatchesKeeps, CallbackKeeps DEF RunTurn

----------------------------------------------------------------------------
(* Events *)

\* Between turns nothing is owed by the running call, and callbacks are over.
LEMMA BetweenTurns ==
  ASSUME IInv, TurnFree
  PROVE  /\ rest.op = "none" /\ micro = <<>> /\ ToSet(micro) = {}
         /\ \A i \in DOMAIN lanes : Queued(lanes[i]) # {} => lanes[i].tokens # {}
         /\ \A i \in DOMAIN lanes : \A r \in lanes[i].tokens :
              OwesByTimer(lanes[i].key, r) \/ OwesByPath(lanes[i].key, r)
  <1>1. rest.op = "none" /\ micro = <<>> /\ ToSet(micro) = {}
    BY DEF TurnFree, ToSet
  <1>2. \A i \in DOMAIN lanes : Queued(lanes[i]) # {} => lanes[i].tokens # {}
    BY <1>1 DEF IInv, Moving, Pumping
  <1>3. \A i \in DOMAIN lanes : \A r \in lanes[i].tokens :
          OwesByTimer(lanes[i].key, r) \/ OwesByPath(lanes[i].key, r)
    BY <1>1 DEF IInv, Moving, Owes, OwesNow
  <1> QED
    BY <1>1, <1>2, <1>3

\* With the lanes as they are, it is enough that whoever owed them still does.
LEMMA MovingKept ==
  ASSUME IInv, TurnFree, UNCHANGED lanes,
         \A k \in Keys : \A r : OwesByTimer(k, r) \/ OwesByPath(k, r) => Owes(k, r)'
  PROVE  Moving'
  <1> SUFFICES ASSUME NEW i \in DOMAIN lanes
               PROVE  /\ Queued(lanes[i]) # {} => lanes[i].tokens # {}
                      /\ \A r \in lanes[i].tokens : Owes(lanes[i].key, r)'
    BY DEF Moving
  <1>1. Queued(lanes[i]) # {} => lanes[i].tokens # {}
    BY BetweenTurns
  <1>2. ASSUME NEW r \in lanes[i].tokens PROVE Owes(lanes[i].key, r)'
    <2>1. PICK k : k = lanes[i].key
      OBVIOUS
    <2>2. k \in Keys
      <3>1. lanes[i] \in LaneRecords
        BY LenProperties DEF IInv, LanesOK, LanesFine
      <3> QED
        BY <2>1, <3>1 DEF LaneRecords
    <2>3. OwesByTimer(k, r) \/ OwesByPath(k, r)
      BY <1>2, <2>1, BetweenTurns
    <2>4. Owes(k, r)'
      BY <2>2, <2>3
    <2>5. k = lanes'[i].key
      BY <2>1
    <2> QED
      BY <2>4, <2>5
  <1> QED
    BY <1>1, <1>2

\* A request leaves New: it is answered, or its dispatch is what the turn does.
Leaves(r) ==
  /\ fresh' \cup approvals' = New \ {r}
  /\ \/ answered' = answered \cup {r} /\ rest' = rest
     \/ ~stopped /\ answered' = answered /\ rest' = Dispatching(r, <<>>)

\* Or it only waits for the owner from now on.
Stays == fresh' \cup approvals' = New /\ answered' = answered /\ rest' = rest

LEMMA AdmitsKeeps ==
  ASSUME TurnsAssumption, IInv, TurnFree, NEW r \in New, Leaves(r) \/ Stays,
         fresh' \cap approvals' = {}, stopped => approvals' = {},
         UNCHANGED <<claims, lanes, pending, stopped, connected, micro>>
  PROVE  IInv'
  <1>1. rest.op = "none" /\ ToSet(micro) = {}
    BY BetweenTurns
  <1>2. r \in Requests /\ New' \subseteq New
    BY DEF IInv, Shape, New, Leaves, Stays
  <1>3. PICK e \in Entries : e.request = r /\ e.path = <<>>
    <2>1. [request |-> r, path |-> <<>>] \in Entries
      BY <1>2, EmptySeq DEF Entries
    <2> QED
      BY <2>1
  <1>4. \/ rest' = rest
        \/ /\ rest' = [op |-> "dispatch", request |-> r, path |-> <<>>]
           /\ ~stopped /\ New' = New \ {r} /\ answered' = answered
    BY DEF Leaves, Stays, Dispatching, New
  <1>5. rest' \in Rests /\ rest'.op # "pump" /\ rest'.op # "complete"
    <2>1. [op |-> "dispatch", request |-> r, path |-> <<>>] \in Rests
      BY <1>2, EmptySeq DEF Rests
    <2> QED
      BY <1>1, <1>4, <2>1 DEF IInv, Shape
  <1>6. ClaimsOK' /\ LanesOK'
    BY DEF IInv, ClaimsOK, LanesOK
  <1>7. Shape'
    <2>1. (fresh \cup approvals \cup answered \subseteq Requests)'
      BY <1>2 DEF IInv, Shape, New, Leaves, Stays
    <2> QED
      BY <1>5, <2>1 DEF IInv, Shape
  <1>8. OnePlace'
    <2>1. answered' \cap New' = {}
      BY DEF IInv, OnePlace, New, Leaves, Stays
    <2>2. ASSUME rest'.op = "dispatch"
          PROVE  /\ rest'.request \notin New' \cup DOMAIN pending
                 /\ \A f \in Entries : QueuedIn(lanes, f) => f.request # rest'.request
      <3>1. rest'.request = r /\ r \notin New'
        BY <1>1, <1>4, <2>2
      <3> QED
        BY <3>1 DEF IInv, OnePlace
    <2> QED
      BY <1>1, <1>2, <2>1, <2>2 DEF IInv, OnePlace
  <1>9. Carried
    <2> SUFFICES ASSUME NEW f \in Entries, Held(f) PROVE Held(f)'
      BY DEF Carried
    <2> QED
      BY <1>1 DEF Held, Open
  <1>10. ASSUME NEW q \in Waiting'
         PROVE  q \in Waiting \/ (q = r /\ Held(e)')
    <2>1. q \in Requests /\ q \notin New' /\ q \notin answered'
      BY DEF Waiting, New
    <2>2. CASE rest' = Dispatching(r, <<>>)
      BY <1>3, <2>1, <2>2 DEF Dispatching, Held, Waiting, New, Leaves, Stays
    <2>3. CASE rest' # Dispatching(r, <<>>)
      BY <2>1, <2>3 DEF Waiting, New, Leaves, Stays
    <2> QED
      BY <2>2, <2>3
  <1>11. Accounted'
    BY <1>3, <1>9, <1>10, AccountedKept DEF IInv
  <1>12. StopSettled'
    <2> SUFFICES ASSUME stopped
                 PROVE  Waiting' = {} /\ Open' = {} /\ rest' = rest
      BY <1>1 DEF IInv, StopSettled
    <2>1. rest' = rest
      BY <1>4
    <2>2. Waiting' \subseteq Waiting
      BY <1>1, <2>1 DEF Waiting, New, Leaves, Stays, Dispatching
    <2> QED
      BY <2>1, <2>2 DEF IInv, StopSettled, Open
  <1>13. Moving'
    <2>1. ASSUME NEW k \in Keys, NEW q, OwesByTimer(k, q) PROVE OwesByTimer(k, q)'
      BY <2>1 DEF OwesByTimer
    <2>2. ASSUME NEW k \in Keys, NEW q, OwesByPath(k, q) PROVE OwesByPath(k, q)'
      BY <1>9, <2>2, PathKept
    <2>3. \A k \in Keys : \A q : OwesByTimer(k, q) \/ OwesByPath(k, q) => Owes(k, q)'
      BY <2>1, <2>2 DEF Owes
    <2> QED
      BY <2>3, MovingKept
  <1>14. TimersRun'
    BY DEF IInv, TimersRun
  <1> QED
    BY <1>6, <1>7, <1>8, <1>11, <1>12, <1>13, <1>14 DEF IInv

LEMMA SubmitKeeps ==
  ASSUME TurnsAssumption, IInv, NEW r, Submit(r)
  PROVE  IInv'
  <1>1. /\ TurnFree /\ r \in fresh /\ r \in New /\ r \notin approvals
        /\ UNCHANGED <<claims, lanes, pending, stopped, connected, micro>>
        /\ fresh' = fresh \ {r} /\ fresh \cap approvals = {}
    BY DEF Submit, New, IInv, OnePlace
  <1>2. Leaves(r) \/ Stays
    BY <1>1 DEF Submit, Leaves, Stays, New
  <1>3. fresh' \cap approvals' = {}
    BY <1>1 DEF Submit
  <1>4. stopped => approvals' = {}
    BY DEF Submit, IInv, StopSettled
  <1> QED
    BY <1>1, <1>2, <1>3, <1>4, AdmitsKeeps

LEMMA ApproveKeeps ==
  ASSUME TurnsAssumption, IInv, NEW r, Approve(r) \/ Refuse(r)
  PROVE  IInv'
  <1>1. /\ TurnFree /\ r \in approvals /\ r \in New /\ r \notin fresh
        /\ UNCHANGED <<fresh, claims, lanes, pending, stopped, connected, micro>>
        /\ approvals' = approvals \ {r} /\ fresh \cap approvals = {}
    BY DEF Approve, Refuse, New, IInv, OnePlace
  <1>2. ~stopped
    BY <1>1 DEF IInv, StopSettled
  <1>3. Leaves(r)
    BY <1>1, <1>2 DEF Approve, Refuse, Leaves, New
  <1>4. fresh' \cap approvals' = {}
    BY <1>1
  <1> QED
    BY <1>1, <1>2, <1>3, <1>4, AdmitsKeeps

\* A command ends: it leaves, or a fenced one stays for a late result.
CommandEnds(r) ==
  /\ pending' \in [DOMAIN pending' -> CommandRecords]
  /\ DOMAIN pending' \subseteq DOMAIN pending
  /\ \A q \in DOMAIN pending : q # r => q \in DOMAIN pending' /\ pending'[q] = pending[q]
  /\ r \in DOMAIN pending' =>
       /\ Fenced /\ ~pending'[r].open
       /\ pending[r].left = 0 /\ pending'[r].left = 0

LEMMA EndsKeeps ==
  ASSUME TurnsAssumption, IInv, TurnFree, NEW r \in DOMAIN pending, Ends(r), CommandEnds(r),
         UNCHANGED <<fresh, approvals, claims, lanes, stopped, connected>>
  PROVE  IInv'
  <1>1. rest.op = "none" /\ micro = <<>> /\ ToSet(micro) = {}
    BY BetweenTurns
  <1>2. PICK key : key = pending[r].lane
    OBVIOUS
  <1>3. pending[r] \in CommandRecords /\ r \in Requests /\ r \notin New /\ New' = New
    BY DEF IInv, Shape, OnePlace, New
  <1>4. PICK e \in Entries : e.request = r /\ e.path = pending[r].path
    <2>1. [request |-> r, path |-> pending[r].path] \in Entries
      BY <1>3 DEF Entries, CommandRecords
    <2> QED
      BY <2>1
  <1>5. /\ key \in Keys \cup {None}
        /\ key = None => rest' = Nothing
        /\ key # None => rest' = [op |-> "complete", lane |-> key, request |-> r]
    BY <1>2, <1>3 DEF CommandRecords, Ends, Completing
  <1>6. rest' \in Rests /\ rest'.op \in {"none", "complete"}
    BY <1>3, <1>5 DEF Rests, Nothing
  <1>7. /\ micro' \in Seq(Entries)
        /\ \A f \in ToSet(micro') : f.path # <<>>
        /\ ToSet(micro') \subseteq {e}
        /\ answered' = answered \/ answered' = answered \cup {e.request}
        /\ r \in Open => e \in ToSet(micro') \/ (e.path = <<>> /\ e.request \in answered')
        /\ r \notin Open => micro' = <<>> /\ answered' = answered
    <2>1. CASE pending[r].open
      <3>1. PICK cb : cb = micro
        OBVIOUS
      <3>2. /\ cb \in Seq(Entries) /\ ToSet(cb) = {} /\ Resolves(e.request, e.path, cb)
        BY <1>1, <1>4, <2>1, <3>1, EmptySeq DEF Ends
      <3>3. /\ micro' \in Seq(Entries)
            /\ \A f \in ToSet(micro') : f.path # <<>>
            /\ ToSet(micro') \subseteq ToSet(cb) \cup {e}
            /\ answered' = answered \/ answered' = answered \cup {e.request}
            /\ e \in ToSet(micro') \/ (e.path = <<>> /\ e.request \in answered')
        BY <3>2, ResolvesOK
      <3>4. r \in Open
        BY <2>1 DEF Open
      <3> QED
        BY <3>2, <3>3, <3>4
    <2>2. CASE ~pending[r].open
      <3>1. micro' = <<>> /\ answered' = answered
        BY <1>1, <2>2 DEF Ends
      <3>2. ToSet(<<>>) = {}
        BY DEF ToSet
      <3> QED
        BY <2>2, <3>1, <3>2, EmptySeq DEF Open
    <2> QED
      BY <2>1, <2>2
  <1>8. ClaimsOK' /\ LanesOK'
    BY DEF IInv, ClaimsOK, LanesOK
  <1>9. Shape'
    BY <1>3, <1>4, <1>6, <1>7 DEF IInv, Shape, CommandEnds
  <1>10. OnePlace'
    <2>1. (fresh \cap approvals = {} /\ answered \cap New = {} /\ DOMAIN pending \cap New = {})'
      BY <1>3, <1>4, <1>7 DEF IInv, OnePlace, CommandEnds
    <2>2. \A f \in Entries : QueuedIn(lanes, f) => f.request \notin New' \cup DOMAIN pending'
      BY <1>3 DEF IInv, OnePlace, CommandEnds
    <2>3. \A f \in ToSet(micro') : f.request \notin New'
      BY <1>3, <1>4, <1>7
    <2>4. \A i \in DOMAIN lanes : lanes[i].queued # None => lanes[i].queued.request \notin New'
      BY <1>3 DEF IInv, OnePlace
    <2> QED
      BY <1>6, <2>1, <2>2, <2>3, <2>4 DEF OnePlace
  <1>11. Carried
    <2> SUFFICES ASSUME NEW f \in Entries, Held(f)
                 PROVE  Held(f)' \/ (f.path = <<>> /\ f.request \in answered')
      BY DEF Carried
    <2>1. CASE f.request \in Open /\ pending[f.request].path = f.path /\ f.request # r
      BY <2>1 DEF Held, Open, CommandEnds
    <2>2. CASE f.request \in Open /\ pending[f.request].path = f.path /\ f.request = r
      <3>1. f = e
        BY <1>4, <2>2, SameEntry
      <3> QED
        BY <1>7, <2>2, <3>1 DEF Held
    <2>3. CASE QueuedIn(lanes, f)
      BY <2>3 DEF Held
    <2> QED
      BY <2>1, <2>2, <2>3, HeldBetweenTurns
  <1>12. Waiting' \subseteq Waiting
    BY <1>7 DEF Waiting
  <1>13. Accounted'
    BY <1>11, <1>12, AccountedKept DEF IInv
  <1>14. StopSettled'
    <2> SUFFICES ASSUME stopped PROVE micro' = <<>> /\ Open' = {}
      BY <1>6, <1>12 DEF IInv, StopSettled
    <2>1. Open = {}
      BY DEF IInv, StopSettled
    <2>2. Open' \subseteq Open
      BY DEF Open, CommandEnds
    <2> QED
      BY <1>7, <2>1, <2>2
  <1>15. Moving'
    <2>1. ASSUME NEW k \in Keys, NEW q, OwesByTimer(k, q)
          PROVE  OwesByTimer(k, q)' \/ OwesNow(k, q)'
      <3>1. CASE q # r
        BY <2>1, <3>1 DEF OwesByTimer, CommandEnds
      <3>2. CASE q = r
        <4>1. k = key /\ k # None
          BY <1>2, <2>1, <3>2, KeyAssumption DEF OwesByTimer, Keys
        <4> QED
          BY <1>5, <3>2, <4>1 DEF OwesNow
      <3> QED
        BY <3>1, <3>2
    <2>2. ASSUME NEW k \in Keys, NEW q, OwesByPath(k, q) PROVE OwesByPath(k, q)'
      BY <1>11, <2>2, PathKept
    <2>3. \A k \in Keys : \A q : OwesByTimer(k, q) \/ OwesByPath(k, q) => Owes(k, q)'
      BY <2>1, <2>2 DEF Owes
    <2> QED
      BY <2>3, MovingKept
  <1>16. TimersRun'
    BY DEF IInv, TimersRun, CommandEnds
  <1> QED
    BY <1>8, <1>9, <1>10, <1>13, <1>14, <1>15, <1>16 DEF IInv

LEMMA WithoutEnds ==
  ASSUME IInv, NEW r \in DOMAIN pending, pending' = Without(r)
  PROVE  CommandEnds(r)
  <1>1. pending \in [DOMAIN pending -> CommandRecords]
    BY DEF IInv, Shape
  <1> QED
    BY <1>1 DEF Without, CommandEnds

LEMMA ResultKeeps ==
  ASSUME TurnsAssumption, IInv, NEW r, Result(r)
  PROVE  IInv'
  BY WithoutEnds, EndsKeeps DEF Result

LEMMA TimeoutKeeps ==
  ASSUME TurnsAssumption, IInv, NEW r, Timeout(r)
  PROVE  IInv'
  <1>1. /\ TurnFree /\ r \in DOMAIN pending /\ Ends(r) /\ pending[r].left = 0
        /\ pending' = TimedOut(r)
        /\ UNCHANGED <<fresh, approvals, claims, lanes, stopped, connected>>
    BY DEF Timeout
  <1>2. CommandEnds(r)
    <2>1. CASE ~Fenced
      BY <1>1, <2>1, WithoutEnds DEF TimedOut
    <2>2. CASE Fenced
      <3>1. pending \in [DOMAIN pending -> CommandRecords]
        BY DEF IInv, Shape
      <3>2. pending' = [pending EXCEPT ![r].open = FALSE, ![r].timer = FALSE]
        BY <1>1, <2>2 DEF TimedOut
      <3>3. /\ DOMAIN pending' = DOMAIN pending
            /\ \A q \in DOMAIN pending : q # r => pending'[q] = pending[q]
            /\ pending'[r] = [pending[r] EXCEPT !.open = FALSE, !.timer = FALSE]
        BY <1>1, <3>1, <3>2
      <3>4. /\ pending'[r].open = FALSE /\ pending'[r].left = pending[r].left
            /\ pending'[r] \in CommandRecords
        BY <1>1, <3>1, <3>3 DEF CommandRecords
      <3>5. pending' \in [DOMAIN pending' -> CommandRecords]
        BY <3>1, <3>2, <3>3, <3>4
      <3> QED
        BY <1>1, <2>2, <3>3, <3>4, <3>5 DEF CommandEnds
    <2> QED
      BY <2>1, <2>2
  <1> QED
    BY <1>1, <1>2, EndsKeeps

\* The lanes are cancelled: whoever waited is answered.
CancelsTo(also) ==
  /\ Open \subseteq also /\ also \subseteq Open \cup approvals
  /\ approvals' = approvals \ also
  /\ stopped' \in BOOLEAN /\ connected' \in BOOLEAN
  /\ stopped' => approvals' = {}
  /\ pending' \in [DOMAIN pending' -> CommandRecords] /\ DOMAIN pending' \subseteq DOMAIN pending
  /\ \A q \in DOMAIN pending' : Fenced /\ stopped' /\ ~pending'[q].open

LEMMA InLanesIs ==
  /\ \A r : r \in InLanes <=>
       \/ \E i \in DOMAIN lanes, p \in Participants :
            \E k \in DOMAIN lanes[i].queues[p] : lanes[i].queues[p][k].request = r
       \/ r \in InLanesDispatched
  /\ \A r : r \in InLanesDispatched <=>
       \E i \in DOMAIN lanes : lanes[i].queued # None /\ lanes[i].queued.request = r
  <1> DEFINE R(i, p) == {lanes[i].queues[p][k].request : k \in DOMAIN lanes[i].queues[p]}
             U == UNION {R(i, p) : i \in DOMAIN lanes, p \in Participants}
  <1>1. InLanes = InLanesDispatched \cup U
    BY DEF InLanes
  <1>2. \A i, p, r : r \in R(i, p) <=>
          \E k \in DOMAIN lanes[i].queues[p] : lanes[i].queues[p][k].request = r
    OBVIOUS
  <1> HIDE DEF R
  <1>3. \A r : r \in U <=> \E i \in DOMAIN lanes, p \in Participants : r \in R(i, p)
    OBVIOUS
  <1>4. \A r : r \in InLanesDispatched <=>
          \E i \in DOMAIN lanes : lanes[i].queued # None /\ lanes[i].queued.request = r
    BY DEF InLanesDispatched
  <1> HIDE DEF U
  <1>5. \A r : r \in InLanes <=> r \in U \/ r \in InLanesDispatched
    BY <1>1
  <1>6. \A r : r \in U <=>
          \E i \in DOMAIN lanes, p \in Participants :
            \E k \in DOMAIN lanes[i].queues[p] : lanes[i].queues[p][k].request = r
    BY <1>2, <1>3
  <1> QED
    BY <1>4, <1>5, <1>6

LEMMA CancelKeeps ==
  ASSUME TurnsAssumption, IInv, TurnFree, NEW also, CancelLanes(also), CancelsTo(also),
         claims' = <<>>, UNCHANGED <<fresh, rest, micro>>
  PROVE  IInv'
  <1>1. rest.op = "none" /\ micro = <<>> /\ ToSet(micro) = {}
    BY BetweenTurns
  <1>2. lanes' = <<>> /\ answered' = answered \cup InLanes \cup also
    BY DEF CancelLanes
  <1>3. DOMAIN <<>> = {}
    OBVIOUS
  <1>4. InLanes \subseteq Requests /\ InLanes \cap New = {}
    <2>1. \A i \in DOMAIN lanes : lanes[i] \in LaneRecords
      BY LenProperties DEF IInv, LanesOK, LanesFine
    <2>2. ASSUME NEW i \in DOMAIN lanes, NEW p \in Participants, NEW k \in DOMAIN lanes[i].queues[p]
          PROVE  lanes[i].queues[p][k].request \in Requests \ New
      <3>1. lanes[i].queues[p] \in Seq(Entries)
        BY <2>1 DEF LaneRecords
      <3>2. lanes[i].queues[p][k] \in Entries
        BY <3>1, LenProperties
      <3>3. QueuedIn(lanes, lanes[i].queues[p][k])
        BY DEF QueuedIn
      <3> QED
        BY <3>2, <3>3 DEF IInv, OnePlace, Entries
    <2>3. ASSUME NEW i \in DOMAIN lanes, lanes[i].queued # None
          PROVE  lanes[i].queued.request \in Requests \ New
      BY <2>1, <2>3 DEF IInv, OnePlace, LaneRecords, Entries
    <2> QED
      BY <2>2, <2>3, InLanesIs
  <1>5. /\ Open \subseteq Requests /\ Open \cap New = {} /\ approvals \subseteq Requests
        /\ fresh \cap approvals = {} /\ New' \subseteq New
    BY DEF IInv, Shape, OnePlace, Open, New, CancelsTo
  <1>6. Waiting' = {}
    <2> SUFFICES ASSUME NEW r \in Waiting' PROVE FALSE
      OBVIOUS
    <2>1. /\ r \in Requests /\ r \notin fresh /\ r \notin approvals' /\ r \notin answered
          /\ r \notin also /\ r \notin InLanes
      BY <1>2 DEF Waiting
    <2>2. r \in Waiting
      BY <2>1 DEF Waiting, CancelsTo
    <2>3. r \in Open \/ \E i \in DOMAIN lanes, p \in Participants :
                          \E k \in DOMAIN lanes[i].queues[p] :
                            lanes[i].queues[p][k].request = r
      BY <2>2, IInvNoRequestLost DEF NoRequestLost
    <2>4. r \in Open \/ r \in InLanes
      BY <2>3, InLanesIs
    <2> QED
      BY <2>1, <2>4 DEF CancelsTo
  <1>7. ClaimsOK' /\ LanesOK'
    BY <1>2, <1>3, EmptySeq DEF ClaimsOK, ClaimsFine, LanesOK, LanesFine, QueuedOnce
  <1>8. Shape'
    <2>1. (fresh \cup approvals \cup answered \subseteq Requests)'
      BY <1>2, <1>4, <1>5 DEF IInv, Shape, CancelsTo
    <2>2. DOMAIN pending' \subseteq Requests
      BY DEF IInv, Shape, CancelsTo
    <2> QED
      BY <1>1, <2>1, <2>2 DEF IInv, Shape, CancelsTo
  <1>9. \A f : ~QueuedIn(lanes', f)
    BY <1>2, <1>3 DEF QueuedIn
  <1>10. OnePlace'
    <2>1. (fresh \cap approvals = {} /\ answered \cap New = {} /\ DOMAIN pending \cap New = {})'
      BY <1>2, <1>4, <1>5 DEF IInv, OnePlace, New, CancelsTo
    <2> QED
      BY <1>1, <1>2, <1>3, <1>9, <2>1 DEF OnePlace
  <1>11. Accounted'
    BY <1>6 DEF Accounted
  <1>12. StopSettled'
    <2>1. Open' = {}
      BY DEF Open, CancelsTo
    <2> QED
      BY <1>1, <1>2, <1>6, <2>1 DEF StopSettled, CancelsTo
  <1>13. Moving'
    BY <1>2, <1>3 DEF Moving
  <1>14. TimersRun'
    BY DEF TimersRun, CancelsTo
  <1> QED
    BY <1>7, <1>8, <1>10, <1>11, <1>12, <1>13, <1>14 DEF IInv

LEMMA TabClosedKeeps ==
  ASSUME TurnsAssumption, IInv, TabClosed
  PROVE  IInv'
  <1>1. /\ TurnFree /\ CancelLanes(Open) /\ claims' = <<>> /\ pending' = <<>>
        /\ connected' \in {connected, FALSE}
        /\ UNCHANGED <<fresh, approvals, stopped, rest, micro>>
    BY DEF TabClosed
  <1>2. Open \cap approvals = {}
    BY DEF IInv, OnePlace, New, Open
  <1>3. CancelsTo(Open)
    <2>1. DOMAIN <<>> = {}
      OBVIOUS
    <2>2. stopped' \in BOOLEAN /\ connected' \in BOOLEAN /\ (stopped' => approvals' = {})
      BY <1>1 DEF IInv, Shape, StopSettled
    <2>3. approvals' = approvals \ Open
      BY <1>1, <1>2
    <2>4. pending' \in [DOMAIN pending' -> CommandRecords] /\ DOMAIN pending' = {}
      BY <1>1, <2>1
    <2> QED
      BY <2>2, <2>3, <2>4 DEF CancelsTo
  <1> QED
    BY <1>1, <1>3, CancelKeeps

LEMMA StopAllKeeps ==
  ASSUME TurnsAssumption, IInv, StopAll
  PROVE  IInv'
  <1> DEFINE also == Open \cup approvals
  <1>1. /\ TurnFree /\ CancelLanes(also) /\ claims' = <<>> /\ stopped' = TRUE /\ approvals' = {}
        /\ pending' = IF Fenced
                        THEN [r \in DOMAIN pending |->
                               [pending[r] EXCEPT !.open = FALSE, !.timer = FALSE]]
                        ELSE <<>>
        /\ UNCHANGED <<fresh, connected, rest, micro>>
    BY DEF StopAll
  <1>2. /\ pending' \in [DOMAIN pending' -> CommandRecords] /\ DOMAIN pending' \subseteq DOMAIN pending
        /\ \A q \in DOMAIN pending' : Fenced /\ ~pending'[q].open
    <2>1. CASE ~Fenced
      <3>1. DOMAIN <<>> = {}
        OBVIOUS
      <3> QED
        BY <1>1, <2>1, <3>1
    <2>2. CASE Fenced
      <3>1. \A q \in DOMAIN pending : pending[q] \in CommandRecords
        BY DEF IInv, Shape
      <3>2. \A q \in DOMAIN pending :
              /\ [pending[q] EXCEPT !.open = FALSE, !.timer = FALSE] \in CommandRecords
              /\ [pending[q] EXCEPT !.open = FALSE, !.timer = FALSE].open = FALSE
        BY <3>1 DEF CommandRecords
      <3> QED
        BY <1>1, <2>2, <3>2
    <2> QED
      BY <2>1, <2>2
  <1>3. CancelsTo(also)
    BY <1>1, <1>2 DEF IInv, Shape, CancelsTo
  <1> HIDE DEF also
  <1> QED
    BY <1>1, <1>3, CancelKeeps

\* Only whether a browser is there changes.
LEMMA ConnectionKeeps ==
  ASSUME IInv, Displaced \/ Reconnect
  PROVE  IInv'
  <1>1. /\ connected' \in BOOLEAN
        /\ UNCHANGED <<fresh, approvals, answered, claims, lanes, pending, stopped, rest, micro>>
    BY DEF Displaced, Reconnect
  <1>2. Shape' /\ ClaimsOK' /\ LanesOK'
    BY <1>1 DEF IInv, Shape, ClaimsOK, LanesOK
  <1>3. OnePlace'
    BY <1>1 DEF IInv, OnePlace, New
  <1>4. \A e : Held(e)' <=> Held(e)
    BY <1>1 DEF Held, Open
  <1>5. Waiting' = Waiting /\ Open' = Open
    BY <1>1 DEF Waiting, Open
  <1>6. Accounted' /\ StopSettled'
    BY <1>1, <1>4, <1>5 DEF IInv, Accounted, StopSettled
  <1>7. \A k, r : Owes(k, r)' <=> Owes(k, r)
    BY <1>1, <1>4 DEF Owes, OwesByTimer, OwesByPath, OwesNow
  <1>8. Moving' /\ TimersRun'
    BY <1>1, <1>7 DEF IInv, Moving, TimersRun
  <1> QED
    BY <1>2, <1>3, <1>6, <1>8 DEF IInv

LEMMA DownOK ==
  ASSUME NEW n \in Nat
  PROVE  Down(n) \in 0 .. n /\ \A m \in Nat : m <= n => Down(m) <= Down(n)
  BY DEF Down

\* Claims and timers run down together.
LEMMA ClockKeeps ==
  ASSUME TurnsAssumption, IInv, Clock
  PROVE  IInv'
  <1>1. /\ TurnFree
        /\ claims' = [i \in DOMAIN claims |-> [claims[i] EXCEPT !.left = Down(@)]]
        /\ pending' = [r \in DOMAIN pending |-> [pending[r] EXCEPT !.left = Down(@)]]
        /\ UNCHANGED <<fresh, approvals, answered, lanes, stopped, connected, rest, micro>>
    BY DEF Clock
  <1>2. claims \in Seq(ClaimRecords) /\ \A i \in DOMAIN claims : claims[i] \in ClaimRecords
    BY LenProperties DEF IInv, ClaimsOK, ClaimsFine
  <1>3. /\ DOMAIN claims' = DOMAIN claims
        /\ \A i \in DOMAIN claims :
             /\ claims'[i] \in ClaimRecords
             /\ claims'[i].scope = claims[i].scope /\ claims'[i].agent = claims[i].agent
             /\ claims'[i].session = claims[i].session
             /\ claims'[i].left = Down(claims[i].left)
    <2>1. DOMAIN claims' = DOMAIN claims
      BY <1>1
    <2>2. ASSUME NEW i \in DOMAIN claims
          PROVE  /\ claims'[i] \in ClaimRecords
                 /\ claims'[i].scope = claims[i].scope /\ claims'[i].agent = claims[i].agent
                 /\ claims'[i].session = claims[i].session
                 /\ claims'[i].left = Down(claims[i].left)
      <3>1. claims'[i] = [claims[i] EXCEPT !.left = Down(claims[i].left)]
        BY <1>1
      <3>2. claims[i] \in ClaimRecords /\ claims[i].left \in 0 .. ClaimTtl
        BY <1>2 DEF ClaimRecords
      <3>3. Down(claims[i].left) \in 0 .. ClaimTtl
        BY <3>2, DownOK DEF TurnsAssumption
      <3> QED
        BY <3>1, <3>2, <3>3 DEF ClaimRecords
    <2> QED
      BY <2>1, <2>2
  <1>4. ClaimsOK'
    <2>1. Len(claims) \in Nat /\ DOMAIN claims = 1 .. Len(claims)
      BY <1>2, LenProperties
    <2>2. claims' \in Seq(ClaimRecords)
      <3> DEFINE c(i) == [claims[i] EXCEPT !.left = Down(@)]
      <3>1. claims' = [i \in 1 .. Len(claims) |-> c(i)]
        BY <1>1, <2>1
      <3>2. \A i \in 1 .. Len(claims) : c(i) \in ClaimRecords
        <4>1. \A i \in 1 .. Len(claims) : claims'[i] = c(i)
          BY <3>1
        <4> QED
          BY <1>3, <2>1, <4>1
      <3> HIDE DEF c
      <3> QED
        BY <2>1, <3>1, <3>2, IsASeq
    <2> QED
      BY <1>3, <2>2 DEF IInv, ClaimsOK, ClaimsFine
  <1>5. /\ DOMAIN pending' = DOMAIN pending
        /\ \A r \in DOMAIN pending :
             /\ pending'[r] \in CommandRecords /\ pending[r].left \in Nat
             /\ pending'[r].path = pending[r].path /\ pending'[r].lane = pending[r].lane
             /\ pending'[r].open = pending[r].open /\ pending'[r].timer = pending[r].timer
             /\ pending'[r].left = Down(pending[r].left)
    <2>1. DOMAIN pending' = DOMAIN pending
      BY <1>1
    <2>2. ASSUME NEW r \in DOMAIN pending
          PROVE  /\ pending'[r] \in CommandRecords /\ pending[r].left \in Nat
                 /\ pending'[r].path = pending[r].path /\ pending'[r].lane = pending[r].lane
                 /\ pending'[r].open = pending[r].open /\ pending'[r].timer = pending[r].timer
                 /\ pending'[r].left = Down(pending[r].left)
      <3>1. pending'[r] = [pending[r] EXCEPT !.left = Down(pending[r].left)]
        BY <1>1
      <3>2. pending[r] \in CommandRecords /\ pending[r].left \in 0 .. CommandTimeout
        BY DEF IInv, Shape, CommandRecords
      <3>3. Down(pending[r].left) \in 0 .. CommandTimeout
        BY <3>2, DownOK DEF TurnsAssumption
      <3> QED
        BY <3>1, <3>2, <3>3 DEF CommandRecords
    <2> QED
      BY <2>1, <2>2
  <1>6. LanesOK'
    BY <1>1 DEF IInv, LanesOK
  <1>7. Shape'
    <2>1. pending' \in [DOMAIN pending' -> CommandRecords]
      <3> DEFINE c(r) == [pending[r] EXCEPT !.left = Down(@)]
      <3>1. pending' = [r \in DOMAIN pending |-> c(r)]
        BY <1>1
      <3>2. \A r \in DOMAIN pending : c(r) \in CommandRecords
        <4>1. \A r \in DOMAIN pending : pending'[r] = c(r)
          BY <3>1
        <4> QED
          BY <1>5, <4>1
      <3> HIDE DEF c
      <3> QED
        BY <3>1, <3>2
    <2> QED
      BY <1>1, <1>5, <2>1 DEF IInv, Shape
  <1>8. OnePlace'
    BY <1>1, <1>5 DEF IInv, OnePlace, New
  <1>9. Open' = Open /\ Waiting' = Waiting
    BY <1>1, <1>5 DEF Open, Waiting
  <1>10. \A e : Held(e)' <=> Held(e)
    BY <1>1, <1>5, <1>9 DEF Held, Open
  <1>11. Accounted' /\ StopSettled'
    BY <1>1, <1>9, <1>10 DEF IInv, Accounted, StopSettled
  <1>12. \A k, r : Owes(k, r)' <=> Owes(k, r)
    BY <1>1, <1>5, <1>10 DEF Owes, OwesByTimer, OwesByPath, OwesNow
  <1>13. Moving'
    BY <1>1, <1>12 DEF IInv, Moving
  <1>14. TimersRun'
    <2>1. \A i \in DOMAIN claims : claims[i].left \in Nat
      BY <1>2 DEF ClaimRecords
    <2>2. ~Fenced => \A r \in DOMAIN pending' : pending'[r].timer
      BY <1>5 DEF IInv, TimersRun
    <2>3. ASSUME Fenced, ~stopped, NEW r \in DOMAIN pending
          PROVE  /\ ~pending'[r].timer => pending'[r].left = 0
                 /\ \A i \in DOMAIN claims : Key(claims[i].scope) = Key(Scope(r)) =>
                      HasLane(lanes, Key(Scope(r))) \/ claims'[i].left <= pending'[r].left
      <3>1. /\ ~pending[r].timer => pending[r].left = 0
            /\ \A i \in DOMAIN claims : Key(claims[i].scope) = Key(Scope(r)) =>
                 HasLane(lanes, Key(Scope(r))) \/ claims[i].left <= pending[r].left
        BY <2>3 DEF IInv, TimersRun
      <3>2. ~pending'[r].timer => pending'[r].left = 0
        BY <1>5, <3>1 DEF Down
      <3>3. ASSUME NEW i \in DOMAIN claims, claims[i].left <= pending[r].left
            PROVE  claims'[i].left <= pending'[r].left
        BY <1>3, <1>5, <2>1, <3>3, DownOK
      <3> QED
        BY <3>1, <3>2, <3>3
    <2>4. \A i \in DOMAIN claims' : i \in DOMAIN claims /\ claims'[i].scope = claims[i].scope
      BY <1>3
    <2>5. DOMAIN pending' = DOMAIN pending /\ lanes' = lanes /\ stopped' = stopped
      BY <1>1, <1>5
    <2> QED
      BY <2>2, <2>3, <2>4, <2>5 DEF TimersRun
  <1> QED
    BY <1>4, <1>6, <1>7, <1>8, <1>11, <1>13, <1>14 DEF IInv

----------------------------------------------------------------------------
(* The theorems *)

LEMMA StutterKeeps ==
  ASSUME IInv, UNCHANGED vars
  PROVE  IInv'
  <1>1. UNCHANGED <<fresh, approvals, answered, claims, lanes, pending, stopped, connected,
                    rest, micro>>
    BY DEF vars
  <1>2. ClaimsOK' /\ LanesOK' /\ Shape' /\ TimersRun'
    BY <1>1 DEF IInv, ClaimsOK, LanesOK, Shape, TimersRun
  <1>3. OnePlace'
    BY <1>1 DEF IInv, OnePlace, New
  <1>4. \A e : Held(e)' <=> Held(e)
    BY <1>1 DEF Held, Open
  <1>5. Waiting' = Waiting /\ Open' = Open
    BY <1>1 DEF Waiting, Open
  <1>6. Accounted' /\ StopSettled'
    BY <1>1, <1>4, <1>5 DEF IInv, Accounted, StopSettled
  <1>7. \A k, r : Owes(k, r)' <=> Owes(k, r)
    BY <1>1, <1>4 DEF Owes, OwesByTimer, OwesByPath, OwesNow
  <1>8. Moving'
    BY <1>1, <1>7 DEF IInv, Moving
  <1> QED
    BY <1>2, <1>3, <1>6, <1>8 DEF IInv

LEMMA NextKeeps ==
  ASSUME TurnAssumption, TurnsAssumption, IInv, [Next]_vars
  PROVE  IInv'
  <1>1. CASE RunTurn
    BY <1>1, RunTurnKeeps
  <1>2. CASE \E r \in Requests : Submit(r) \/ Approve(r) \/ Refuse(r) \/ Result(r) \/ Timeout(r)
    BY <1>2, SubmitKeeps, ApproveKeeps, ResultKeeps, TimeoutKeeps
  <1>3. CASE TabClosed
    BY <1>3, TabClosedKeeps
  <1>4. CASE Displaced \/ Reconnect
    BY <1>4, ConnectionKeeps
  <1>5. CASE StopAll
    BY <1>5, StopAllKeeps
  <1>6. CASE Clock
    BY <1>6, ClockKeeps
  <1>7. CASE UNCHANGED vars
    BY <1>7, StutterKeeps
  <1> QED
    BY <1>1, <1>2, <1>3, <1>4, <1>5, <1>6, <1>7 DEF Next

\* The broker's turns keep every request in one place and every lane owed,
\* whatever the agents, the browser, the owner and the timers do, and in
\* whatever order.
THEOREM WebTurnsInvariant == Spec => []IInv
  <1>1. Init => IInv
    BY TurnsAssumption, InitIInv
  <1>2. IInv /\ [Next]_vars => IInv'
    BY TurnAssumption, TurnsAssumption, NextKeeps
  <1> QED
    BY <1>1, <1>2, PTL DEF Spec

\* Claims and lanes have one entry per key, a lane has a turn exactly when it
\* waits for a command, and its scheduler knows exactly who is queued in it:
\* pumpTurnLane never meets a holder whose queue is empty.
THEOREM TurnsTypeCorrect == Spec => []TurnsTypeOK
  <1>1. IInv => TurnsTypeOK
    BY TurnsAssumption, IInvTypeOK
  <1> QED
    BY <1>1, WebTurnsInvariant, PTL

\* submit always answers: between turns, a request that was accepted and has
\* no answer is queued in a lane or pending with its promise open.
THEOREM NothingLost == Spec => []NoRequestLost
  <1>1. IInv => NoRequestLost
    BY IInvNoRequestLost
  <1> QED
    BY <1>1, WebTurnsInvariant, PTL

\* completeTurnLane is always still to be called: between turns, a lane with
\* queued requests has a turn under way, and every command it waits for has a
\* timer to run or a dispatch to be answered.
THEOREM LanesKeepMoving == Spec => []LaneKeepsMoving
  <1>1. IInv => LaneKeepsMoving
    BY IInvLaneKeepsMoving
  <1> QED
    BY <1>1, WebTurnsInvariant, PTL

\* stopAll leaves no caller waiting: what was queued, in flight or held
\* for the owner is answered, and nothing is admitted after it.
THEOREM StopReachesAll == Spec => []StopAnswersAll
  <1>1. IInv => StopAnswersAll
    BY IInvStopAnswersAll
  <1> QED
    BY <1>1, WebTurnsInvariant, PTL
=============================================================================
