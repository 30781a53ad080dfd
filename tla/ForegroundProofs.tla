-------------------------- MODULE ForegroundProofs --------------------------
(***************************************************************************)
(* The foreground lease for every value of the constants.                  *)
(*                                                                         *)
(* A record in the lock names a request; that the process of this request  *)
(* is the one that operates under it needs that requests stay at home: a   *)
(* process queues and serves its own requests only, and serves one         *)
(* whenever its loop is past the queue.                                    *)
(***************************************************************************)
EXTENDS ForegroundLease, TLAPS, SequenceTheorems

RequestsAtHome ==
  \A p \in Processes :
    /\ \A i \in DOMAIN queue[p] : HomeOf[queue[p][i]] = p
    /\ cur[p] \in Requests => HomeOf[cur[p]] = p
    /\ step[p] \notin {"idle", "next"} => cur[p] \in Requests

ForegroundInv == ForegroundTypeOK /\ RequestsAtHome /\ LiveOwnerHolds

----------------------------------------------------------------------------
(* Requests stay at home *)

LEMMA AppendAtHome ==
  ASSUME NEW q \in Seq(Requests), NEW r \in Requests, NEW p,
         \A i \in DOMAIN q : HomeOf[q[i]] = p, HomeOf[r] = p
  PROVE  /\ Append(q, r) \in Seq(Requests)
         /\ \A i \in DOMAIN Append(q, r) : HomeOf[Append(q, r)[i]] = p
BY AppendProperties

LEMMA TailAtHome ==
  ASSUME NEW q \in Seq(Requests), NEW p, q # <<>>, \A i \in DOMAIN q : HomeOf[q[i]] = p
  PROVE  /\ Tail(q) \in Seq(Requests) /\ Head(q) \in Requests /\ HomeOf[Head(q)] = p
         /\ \A i \in DOMAIN Tail(q) : HomeOf[Tail(q)[i]] = p
<1>1. /\ Head(q) \in Requests /\ Head(q) = q[1] /\ 1 \in DOMAIN q
      /\ Tail(q) \in Seq(Requests) /\ Len(Tail(q)) = Len(q) - 1
      /\ \A i \in 1..Len(Tail(q)) : Tail(q)[i] = q[i + 1]
  BY HeadTailProperties
<1>2. \A i \in DOMAIN Tail(q) : i + 1 \in DOMAIN q
  BY <1>1
<1> QED
  BY <1>1, <1>2

LEMMA RemoveAtHome ==
  ASSUME NEW q \in Seq(Requests), NEW p, NEW k \in DOMAIN q,
         \A i \in DOMAIN q : HomeOf[q[i]] = p
  PROVE  /\ RemoveAt(q, k) \in Seq(Requests)
         /\ \A i \in DOMAIN RemoveAt(q, k) : HomeOf[RemoveAt(q, k)[i]] = p
<1> DEFINE front == SubSeq(q, 1, k - 1)
           back == SubSeq(q, k + 1, Len(q))
<1>1. k \in 1..Len(q) /\ Len(q) \in Nat
  OBVIOUS
<1>2. /\ front \in Seq(Requests) /\ Len(front) = k - 1
      /\ \A i \in 1..(k - 1) : front[i] = q[i]
  BY <1>1, SubSeqProperties
<1>3. /\ back \in Seq(Requests) /\ Len(back) = Len(q) - k
      /\ \A i \in 1..(Len(q) - k) : back[i] = q[k + i]
  BY <1>1, SubSeqProperties
<1>4. RemoveAt(q, k) = front \o back
  BY DEF RemoveAt
<1> HIDE DEF front, back
<1>5. Len(front) + Len(back) = Len(q) - 1
  BY <1>1, <1>2, <1>3
<1>6. /\ front \o back \in Seq(Requests) /\ Len(front \o back) = Len(q) - 1
      /\ \A i \in 1..(Len(q) - 1) :
           (front \o back)[i] = IF i <= Len(front) THEN front[i] ELSE back[i - Len(front)]
  <2>1. /\ front \o back \in Seq(Requests) /\ Len(front \o back) = Len(front) + Len(back)
        /\ \A i \in 1..(Len(front) + Len(back)) :
             (front \o back)[i] = IF i <= Len(front) THEN front[i] ELSE back[i - Len(front)]
    <3>1. front \in Seq(Requests) /\ back \in Seq(Requests)
      BY <1>2, <1>3
    <3> QED
      BY <3>1, ConcatProperties, Zenon
  <2> QED
    BY <1>5, <2>1
<1>7. ASSUME NEW i \in 1..(Len(q) - 1) PROVE HomeOf[(front \o back)[i]] = p
  <2>1. CASE i <= k - 1
    <3>1. (front \o back)[i] = q[i]
      BY <1>1, <1>2, <1>6, <2>1
    <3> QED
      BY <1>1, <3>1
  <2>2. CASE i > k - 1
    <3>1. i - (k - 1) \in 1..(Len(q) - k) /\ ~(i <= Len(front))
      BY <1>1, <1>2, <2>2
    <3>2. (front \o back)[i] = back[i - (k - 1)]
      BY <1>2, <1>6, <3>1
    <3>3. back[i - (k - 1)] = q[k + (i - (k - 1))]
      BY <1>3, <3>1
    <3>4. k + (i - (k - 1)) = i + 1 /\ i + 1 \in DOMAIN q
      BY <1>1, <2>2
    <3> QED
      BY <3>2, <3>3, <3>4
  <2>3. i <= k - 1 \/ i > k - 1
    BY <1>1
  <2> QED
    BY <2>1, <2>2, <2>3
<1>8. DOMAIN (front \o back) = 1..(Len(q) - 1)
  BY <1>6
<1> QED
  BY <1>4, <1>6, <1>7, <1>8

----------------------------------------------------------------------------
(* Every step keeps the invariant *)

LEMMA InitForeground == Init => ForegroundInv
BY ForegroundAssumption
DEF Init, NoLock, Steps, ForegroundInv, ForegroundTypeOK, RequestsAtHome, LiveOwnerHolds

\* A process at work on a request, and the request.
LEMMA ServedRequest ==
  ASSUME ForegroundInv, NEW p \in Processes, step[p] \notin {"idle", "next"}
  PROVE  cur[p] \in Requests /\ HomeOf[cur[p]] = p
BY DEF ForegroundInv, RequestsAtHome

\* A process that is not at or past an operation owns no lock.
LEMMA OwnsNothing ==
  ASSUME ForegroundInv, NEW p \in up, step[p] \notin {"operate", "release", "drop"},
         NEW r \in Requests, HomeOf[r] = p
  PROVE  lock.owner # r
BY DEF ForegroundInv, LiveOwnerHolds

\* A step of one process that keeps its own requests at home keeps all there.
LEMMA HomeKeeps ==
  ASSUME ForegroundInv, NEW p \in Processes,
         \A q \in Processes \ {p} :
           queue'[q] = queue[q] /\ cur'[q] = cur[q] /\ step'[q] = step[q],
         \A i \in DOMAIN queue'[p] : HomeOf[queue'[p][i]] = p,
         cur'[p] \in Requests => HomeOf[cur'[p]] = p,
         step'[p] \notin {"idle", "next"} => cur'[p] \in Requests
  PROVE  RequestsAtHome'
BY DEF ForegroundInv, RequestsAtHome

LEMMA AskStep ==
  ASSUME ForegroundInv, NEW r \in Requests, Ask(r)
  PROVE  ForegroundInv'
<1> DEFINE p == HomeOf[r]
<1>1. p \in Processes /\ p \in up
  BY ForegroundAssumption DEF Ask, Awaiting
<1>2. queue[p] \in Seq(Requests) /\ \A i \in DOMAIN queue[p] : HomeOf[queue[p][i]] = p
  BY <1>1 DEF ForegroundInv, ForegroundTypeOK, RequestsAtHome
<1>3. /\ Append(queue[p], r) \in Seq(Requests)
      /\ \A i \in DOMAIN Append(queue[p], r) : HomeOf[Append(queue[p], r)[i]] = p
  BY <1>2, AppendAtHome
<1>4. ForegroundTypeOK'
  <2>1. queue' \in [Processes -> Seq(Requests)]
    BY <1>1, <1>3 DEF Ask, ForegroundInv, ForegroundTypeOK
  <2>2. step' \in [Processes -> Steps]
    BY <1>1 DEF Ask, Go, Steps, ForegroundInv, ForegroundTypeOK
  <2> QED
    BY <2>1, <2>2 DEF Ask, ForegroundInv, ForegroundTypeOK
<1>5. RequestsAtHome'
  <2>1. /\ cur' = cur /\ \A q \in Processes \ {p} : queue'[q] = queue[q] /\ step'[q] = step[q]
        /\ queue'[p] = queue[p] \/ queue'[p] = Append(queue[p], r)
    BY <1>1 DEF Ask, Go, ForegroundInv, ForegroundTypeOK
  <2>2. step'[p] = step[p] \/ step'[p] = "next"
    BY <1>1 DEF Ask, Go, ForegroundInv, ForegroundTypeOK
  <2>3. /\ cur[p] \in Requests => HomeOf[cur[p]] = p
        /\ step[p] \notin {"idle", "next"} => cur[p] \in Requests
    BY <1>1 DEF ForegroundInv, RequestsAtHome
  <2> QED
    BY <1>1, <1>2, <1>3, <2>1, <2>2, <2>3, HomeKeeps
<1>6. LiveOwnerHolds'
  BY <1>1 DEF Ask, Go, ForegroundInv, ForegroundTypeOK, LiveOwnerHolds
<1> QED
  BY <1>4, <1>5, <1>6 DEF ForegroundInv

LEMMA AbortStep ==
  ASSUME ForegroundInv, NEW r \in Requests, Abort(r)
  PROVE  ForegroundInv'
<1> DEFINE p == HomeOf[r]
<1>1. p \in Processes /\ p \in up
  BY ForegroundAssumption DEF Abort, Awaiting
<1>2. ASSUME NEW i \in DOMAIN queue[p], queue' = [queue EXCEPT ![p] = RemoveAt(@, i)],
             state' = [state EXCEPT ![r] = "cancelled"], UNCHANGED <<cur, step>>
      PROVE  ForegroundInv'
  <2>1. /\ RemoveAt(queue[p], i) \in Seq(Requests)
        /\ \A k \in DOMAIN RemoveAt(queue[p], i) : HomeOf[RemoveAt(queue[p], i)[k]] = p
    <3>1. queue[p] \in Seq(Requests) /\ \A k \in DOMAIN queue[p] : HomeOf[queue[p][k]] = p
      BY <1>1 DEF ForegroundInv, ForegroundTypeOK, RequestsAtHome
    <3> QED
      BY <3>1, RemoveAtHome
  <2>2. ForegroundTypeOK' /\ RequestsAtHome' /\ LiveOwnerHolds'
    BY <1>1, <1>2, <2>1
    DEF Abort, ForegroundInv, ForegroundTypeOK, RequestsAtHome, LiveOwnerHolds
  <2> QED
    BY <2>2 DEF ForegroundInv
<1>3. CASE step[p] = "poll" /\ Settle(p, "refused") /\ UNCHANGED queue
  <2>1. ForegroundTypeOK' /\ RequestsAtHome'
    BY <1>1, <1>3, ServedRequest, ForegroundAssumption
    DEF Abort, Settle, Go, Steps, ForegroundInv, ForegroundTypeOK, RequestsAtHome
  <2>2. LiveOwnerHolds'
    BY <1>1, <1>3 DEF Abort, Settle, Go, ForegroundInv, ForegroundTypeOK, LiveOwnerHolds
  <2> QED
    BY <2>1, <2>2 DEF ForegroundInv
<1>4. CASE UNCHANGED <<state, queue, cur, step>>
  BY <1>4 DEF Abort, ForegroundInv, ForegroundTypeOK, RequestsAtHome, LiveOwnerHolds
<1> QED
  BY <1>2, <1>3, <1>4 DEF Abort

\* A request that is refused before its operation begins.
LEMMA SettleStep ==
  ASSUME ForegroundInv, NEW p \in up, step[p] \in {"write", "inspect", "poll"},
         Settle(p, "refused"), UNCHANGED <<up, queue, found, aborted, lock>>
  PROVE  ForegroundInv'
<1>1. p \in Processes /\ cur[p] \in Requests
  BY ServedRequest DEF ForegroundInv, ForegroundTypeOK
<1>2. ForegroundTypeOK'
  BY <1>1 DEF Settle, Go, Steps, ForegroundInv, ForegroundTypeOK
<1>3. RequestsAtHome'
  <2>1. cur'[p] = Nobody /\ step'[p] = "next"
    BY <1>1 DEF Settle, Go, ForegroundInv, ForegroundTypeOK
  <2>2. \A q \in Processes \ {p} : queue'[q] = queue[q] /\ cur'[q] = cur[q] /\ step'[q] = step[q]
    BY <1>1 DEF Settle, Go, ForegroundInv, ForegroundTypeOK
  <2>3. \A i \in DOMAIN queue'[p] : HomeOf[queue'[p][i]] = p
    BY <1>1 DEF ForegroundInv, RequestsAtHome
  <2> QED
    BY <1>1, <2>1, <2>2, <2>3, HomeKeeps, ForegroundAssumption
<1>4. LiveOwnerHolds'
  BY <1>1 DEF Settle, Go, ForegroundInv, ForegroundTypeOK, LiveOwnerHolds
<1> QED
  BY <1>2, <1>3, <1>4 DEF ForegroundInv

LEMMA ShiftStep ==
  ASSUME ForegroundInv, NEW p \in Processes, Shift(p)
  PROVE  ForegroundInv'
<1>1. p \in up /\ step[p] = "next"
  BY DEF Shift, At
<1>2. CASE queue[p] = <<>>
  <2>1. step' = [step EXCEPT ![p] = "idle"] /\ UNCHANGED <<up, queue, cur, found, state, aborted, lock>>
    BY <1>2 DEF Shift, Go
  <2>2. ForegroundTypeOK'
    BY <2>1 DEF Steps, ForegroundInv, ForegroundTypeOK
  <2>3. RequestsAtHome'
    BY <2>1 DEF ForegroundInv, ForegroundTypeOK, RequestsAtHome
  <2>4. LiveOwnerHolds'
    BY <1>1, <2>1 DEF ForegroundInv, ForegroundTypeOK, LiveOwnerHolds
  <2> QED
    BY <2>2, <2>3, <2>4 DEF ForegroundInv
<1>3. CASE queue[p] # <<>>
  <2>1. /\ Tail(queue[p]) \in Seq(Requests) /\ Head(queue[p]) \in Requests
        /\ HomeOf[Head(queue[p])] = p
        /\ \A i \in DOMAIN Tail(queue[p]) : HomeOf[Tail(queue[p])[i]] = p
    <3>1. queue[p] \in Seq(Requests) /\ \A i \in DOMAIN queue[p] : HomeOf[queue[p][i]] = p
      BY DEF ForegroundInv, ForegroundTypeOK, RequestsAtHome
    <3> QED
      BY <1>3, <3>1, TailAtHome
  <2>2. ForegroundTypeOK'
    BY <1>3, <2>1 DEF Shift, Go, Steps, ForegroundInv, ForegroundTypeOK
  <2>3. RequestsAtHome'
    <3>1. /\ \A q \in Processes \ {p} :
               queue'[q] = queue[q] /\ cur'[q] = cur[q] /\ step'[q] = step[q]
          /\ queue'[p] = Tail(queue[p]) /\ cur'[p] = Head(queue[p])
      BY <1>3 DEF Shift, Go, ForegroundInv, ForegroundTypeOK
    <3> QED
      BY <2>1, <3>1, HomeKeeps
  <2>4. LiveOwnerHolds'
    BY <1>1, <1>3 DEF Shift, Go, ForegroundInv, ForegroundTypeOK, LiveOwnerHolds
  <2> QED
    BY <2>2, <2>3, <2>4 DEF ForegroundInv
<1> QED
  BY <1>2, <1>3

LEMMA AcquireStep ==
  ASSUME ForegroundInv, NEW p \in Processes, Acquire(p)
  PROVE  ForegroundInv'
<1> USE ForegroundAssumption DEF At, Go, Steps, NoLock
<1>1. CASE Mkdir(p) \/ Poll(p) \/ Read(p) \/ Judge(p)
  <2>1. /\ p \in up /\ step[p] \in {"mkdir", "poll", "read", "judge"}
        /\ \E st \in {"read", "write", "mkdir", "judge", "inspect", "poll"} : Go(p, st)
        /\ UNCHANGED <<up, queue, cur, state, aborted>>
        /\ found' \in [Processes -> Requests \cup {Nobody}]
        /\ lock' = lock \/ (~lock.made /\ lock' = FreshLock(Nobody))
    BY <1>1 DEF Mkdir, Poll, Read, Judge, ForegroundInv, ForegroundTypeOK
  <2>2. ForegroundTypeOK'
    <3>1. step' \in [Processes -> Steps]
      BY <2>1 DEF ForegroundInv, ForegroundTypeOK
    <3>2. /\ lock' \in [made : BOOLEAN, owner : Requests \cup {Nobody}, age : 0..StaleAge]
          /\ lock'.made \/ lock' = NoLock
      <4>1. CASE lock' = FreshLock(Nobody)
        BY <4>1 DEF FreshLock
      <4>2. CASE lock' = lock
        BY <4>2 DEF ForegroundInv, ForegroundTypeOK
      <4> QED
        BY <2>1, <4>1, <4>2
    <3> QED
      BY <2>1, <3>1, <3>2 DEF ForegroundInv, ForegroundTypeOK
  <2>3. RequestsAtHome'
    BY <2>1, ServedRequest DEF ForegroundInv, ForegroundTypeOK, RequestsAtHome
  <2>4. LiveOwnerHolds'
    BY <2>1 DEF FreshLock, ForegroundInv, ForegroundTypeOK, LiveOwnerHolds
  <2> QED
    BY <2>2, <2>3, <2>4 DEF ForegroundInv
<1>2. CASE Write(p)
  <2>1. p \in up /\ step[p] = "write" /\ cur[p] \in Requests /\ HomeOf[cur[p]] = p
    BY <1>2, ServedRequest DEF Write
  <2>2. CASE Settle(p, "refused") /\ UNCHANGED lock
    BY <1>2, <2>1, <2>2, SettleStep DEF Write
  <2>3. CASE lock' = FreshLock(cur[p]) /\ Go(p, "operate")
             /\ lock.made /\ lock.owner = Nobody /\ UNCHANGED <<cur, state>>
    <3>1. ForegroundTypeOK'
      <4>1. lock' \in [made : BOOLEAN, owner : Requests \cup {Nobody}, age : 0..StaleAge]
            /\ lock'.made
        BY <2>1, <2>3 DEF FreshLock
      <4>2. step' \in [Processes -> Steps]
        BY <2>3 DEF ForegroundInv, ForegroundTypeOK
      <4> QED
        BY <1>2, <2>3, <4>1, <4>2 DEF Write, ForegroundInv, ForegroundTypeOK
    <3>2. RequestsAtHome'
      BY <1>2, <2>1, <2>3 DEF Write, ForegroundInv, ForegroundTypeOK, RequestsAtHome
    <3>3. LiveOwnerHolds'
      <4>1. lock'.owner = cur[p] /\ step'[p] = "operate" /\ cur'[p] = cur[p]
        BY <2>3 DEF FreshLock, ForegroundInv, ForegroundTypeOK
      <4> QED
        BY <2>1, <4>1 DEF LiveOwnerHolds
    <3> QED
      BY <3>1, <3>2, <3>3 DEF ForegroundInv
  <2>4. CASE lock' = NoLock /\ Go(p, "read") /\ UNCHANGED <<cur, state>>
    <3>1. ForegroundTypeOK'
      BY <1>2, <2>4 DEF Write, ForegroundInv, ForegroundTypeOK
    <3>2. RequestsAtHome'
      BY <1>2, <2>1, <2>4 DEF Write, ForegroundInv, ForegroundTypeOK, RequestsAtHome
    <3>3. LiveOwnerHolds'
      BY <2>4 DEF LiveOwnerHolds
    <3> QED
      BY <3>1, <3>2, <3>3 DEF ForegroundInv
  <2> QED
    BY <1>2, <2>2, <2>3, <2>4 DEF Write
<1>3. CASE Inspect(p)
  <2>1. p \in up /\ step[p] = "inspect" /\ cur[p] \in Requests /\ HomeOf[cur[p]] = p
    BY <1>3, ServedRequest DEF Inspect
  <2>2. CASE Settle(p, "refused")
    BY <1>3, <2>1, <2>2, SettleStep DEF Inspect
  <2>3. CASE Go(p, "remove") /\ UNCHANGED <<cur, state>>
    <3>1. ForegroundTypeOK'
      BY <1>3, <2>3 DEF Inspect, ForegroundInv, ForegroundTypeOK
    <3>2. RequestsAtHome'
      BY <1>3, <2>1, <2>3 DEF Inspect, ForegroundInv, ForegroundTypeOK, RequestsAtHome
    <3>3. LiveOwnerHolds'
      BY <1>3, <2>1, <2>3 DEF Inspect, ForegroundInv, ForegroundTypeOK, LiveOwnerHolds
    <3> QED
      BY <3>1, <3>2, <3>3 DEF ForegroundInv
  <2> QED
    BY <1>3, <2>2, <2>3 DEF Inspect
<1>4. CASE RemoveStale(p)
  <2>1. p \in up /\ step[p] = "remove" /\ cur[p] \in Requests
    BY <1>4, ServedRequest DEF RemoveStale
  <2>2. ForegroundTypeOK' /\ RequestsAtHome' /\ LiveOwnerHolds'
    BY <1>4, <2>1
    DEF RemoveStale, ForegroundInv, ForegroundTypeOK, RequestsAtHome, LiveOwnerHolds
  <2> QED
    BY <2>2 DEF ForegroundInv
<1> QED
  BY <1>1, <1>2, <1>3, <1>4 DEF Acquire

\* Ending an operation and releasing: the record goes before the request does.
LEMMA ReleaseStep ==
  ASSUME ForegroundInv, NEW p \in Processes, Finish(p) \/ ReadOwn(p) \/ Drop(p)
  PROVE  ForegroundInv'
<1> USE ForegroundAssumption DEF At, Go, Steps, NoLock
<1>1. p \in up /\ cur[p] \in Requests /\ HomeOf[cur[p]] = p
  BY ServedRequest DEF Finish, ReadOwn, Drop
<1>2. ForegroundTypeOK'
  <2>1. CASE Finish(p)
    BY <1>1, <2>1 DEF Finish, ForegroundInv, ForegroundTypeOK
  <2>2. CASE ReadOwn(p)
    BY <1>1, <2>2 DEF ReadOwn, ForegroundInv, ForegroundTypeOK
  <2>3. CASE Drop(p)
    BY <1>1, <2>3 DEF Drop, ForegroundInv, ForegroundTypeOK
  <2> QED
    BY <2>1, <2>2, <2>3
<1>3. RequestsAtHome'
  BY <1>1 DEF Finish, ReadOwn, Drop, ForegroundInv, ForegroundTypeOK, RequestsAtHome
<1>4. LiveOwnerHolds'
  <2>1. CASE Finish(p)
    BY <1>1, <2>1 DEF Finish, ForegroundInv, ForegroundTypeOK, LiveOwnerHolds
  <2>2. CASE ReadOwn(p)
    BY <1>1, <2>2 DEF ReadOwn, ForegroundInv, ForegroundTypeOK, LiveOwnerHolds
  <2>3. CASE Drop(p)
    BY <1>1, <2>3 DEF Drop, ForegroundInv, ForegroundTypeOK, LiveOwnerHolds
  <2> QED
    BY <2>1, <2>2, <2>3
<1> QED
  BY <1>2, <1>3, <1>4 DEF ForegroundInv

LEMMA CrashStep ==
  ASSUME ForegroundInv, NEW p \in Processes, Crash(p)
  PROVE  ForegroundInv'
BY DEF Crash, ForegroundInv, ForegroundTypeOK, RequestsAtHome, LiveOwnerHolds

LEMMA ClockStep ==
  ASSUME ForegroundInv, Clock
  PROVE  ForegroundInv'
<1>1. lock'.owner = lock.owner /\ lock'.made = lock.made
  BY DEF Clock, ForegroundInv, ForegroundTypeOK
<1>2. ForegroundTypeOK'
  <2>1. lock.age + 1 \in 0..StaleAge
    BY ForegroundAssumption DEF Clock, ForegroundInv, ForegroundTypeOK
  <2> QED
    BY <1>1, <2>1 DEF Clock, ForegroundInv, ForegroundTypeOK
<1> QED
  BY <1>1, <1>2 DEF Clock, ForegroundInv, RequestsAtHome, LiveOwnerHolds

LEMMA NextForeground == ForegroundInv /\ [Next]_vars => ForegroundInv'
<1> SUFFICES ASSUME ForegroundInv, [Next]_vars PROVE ForegroundInv'
  OBVIOUS
<1>1. ASSUME NEW r \in Requests, Ask(r) \/ Abort(r) PROVE ForegroundInv'
  BY <1>1, AskStep, AbortStep
<1>2. ASSUME NEW p \in Processes, Serve(p) \/ Crash(p) PROVE ForegroundInv'
  BY <1>2, ShiftStep, AcquireStep, ReleaseStep, CrashStep DEF Serve
<1>3. CASE Clock
  BY <1>3, ClockStep
<1>4. CASE UNCHANGED vars
  BY <1>4 DEF vars, ForegroundInv, ForegroundTypeOK, RequestsAtHome, LiveOwnerHolds
<1> QED
  BY <1>1, <1>2, <1>3, <1>4 DEF Next

LEMMA ForegroundInvariant == Spec => []ForegroundInv
<1>1. Init => ForegroundInv
  BY InitForeground
<1>2. ForegroundInv /\ [Next]_vars => ForegroundInv'
  BY NextForeground
<1> QED
  BY <1>1, <1>2, PTL DEF Spec

\* Every variable keeps its type.
THEOREM ForegroundTypeCorrect == Spec => []ForegroundTypeOK
<1>1. ForegroundInv => ForegroundTypeOK
  BY DEF ForegroundInv
<1> QED
  BY <1>1, ForegroundInvariant, PTL

\* No process that runs leaves a lock in its name behind.
THEOREM LiveOwnersHold == Spec => []LiveOwnerHolds
<1>1. ForegroundInv => LiveOwnerHolds
  BY DEF ForegroundInv
<1> QED
  BY <1>1, ForegroundInvariant, PTL
=============================================================================
