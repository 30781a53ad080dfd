---------------------------- MODULE FenceProofs ----------------------------
(***************************************************************************)
(* The mutation fence, alone and beneath its callers, for every value of   *)
(* the constants.                                                          *)
(*                                                                         *)
(* First the fence by itself, with its type invariant.  Most actions       *)
(* differ only in variables that the invariants do not read: StepKinds     *)
(* sorts every step into six kinds by what it may do to leases,            *)
(* transactions, receipts, revisions and bindings, with one proof step per *)
(* action; each invariant is then proved kind by kind.                     *)
(*                                                                         *)
(* Then the browser and the desktop caller composed with it.  Every step   *)
(* of the composition is a step of the fence, so whatever holds of the     *)
(* fence holds beneath its callers.  Their own invariant: what was sent    *)
(* has a receipt, what is waited for is in flight, and what is unknown is  *)
(* unsettled.  From both follow the promise to send at most once, and that *)
(* the composition implements SurfaceInput.                                *)
(*                                                                         *)
(* Last the plans: while the store works every epoch has a settled row, so *)
(* no epoch moves back, and a granted plan was overtaken by nothing.       *)
(***************************************************************************)
EXTENDS OwnerDispatch, TLAPS

----------------------------------------------------------------------------
(* Types *)

\* The target of an operation is a target, and the revisions a lease pins are
\* numbers.
LEMMA TargetType == ASSUME NEW o \in Ops PROVE TargetOf(o) \in Targets
  BY ConstantsAssumption DEF TargetOf, Targets

LEMMA CurrentBaseType ==
  ASSUME TypeOK, NEW o \in Ops
  PROVE  CurrentBase(o) \in Base
<1>1. SurfaceOf[o] \in Surfaces
  BY ConstantsAssumption
<1>2. RevisionOfRegion(o) \in Nat
  BY TargetType DEF TypeOK, RevisionOfRegion
<1> QED
  BY <1>1, <1>2 DEF TypeOK, CurrentBase, Base

\* Writing a receipt keeps the rows and the flag well formed.
LEMMA PersistType ==
  ASSUME TypeOK, NEW o \in Ops, NEW status \in ReceiptStatus,
         NEW revision \in Nat, NEW fault, Persist(o, status, revision, fault)
  PROVE  /\ receipt' \in [Ops -> ReceiptStatus]
         /\ receiptRev' \in [Ops -> Nat]
         /\ storeError' \in BOOLEAN
  BY DEF TypeOK, Persist, receiptVars

\* So do the sweep, the release of a binding and the in-flight guard.
LEMMA SweepType ==
  ASSUME TypeOK
  PROVE  Swept \in [Ops -> SchedStatus]
  BY DEF TypeOK, Swept, SchedStatus

LEMMA EndLeaseType ==
  ASSUME TypeOK, NEW o \in Ops, NEW status \in SchedStatus, EndLease(o, status)
  PROVE  sched' \in [Ops -> SchedStatus] /\ lease' \in [Ops -> 0..LeaseTtl]
  BY ConstantsAssumption DEF TypeOK, EndLease

LEMMA ForgetType ==
  ASSUME TypeOK, NEW o \in Ops, ForgetTarget(o)
  PROVE  owner' \in [Targets -> Agents \cup {NoAgent}]
  BY TargetType DEF TypeOK, ForgetTarget

LEMMA ReleaseType ==
  ASSUME TypeOK, NEW o \in Ops, ReleaseInFlight(o) \/ KeepInFlight(o)
  PROVE  /\ inFlight' \subseteq Ops
         /\ uncertainAge' \in [Surfaces -> {NoMark} \cup 0..StaleInFlightTimeout]
<1>1. SurfaceOf[o] \in Surfaces /\ StaleInFlightTimeout \in Nat
  BY ConstantsAssumption DEF StaleInFlightTimeout
<1> QED
  BY <1>1 DEF TypeOK, ReleaseInFlight, KeepInFlight

LEMMA UncertainType ==
  ASSUME TypeOK, NEW o \in Ops, NEW fault, Uncertain(o, fault)
  PROVE  /\ unresolved' \subseteq Surfaces
         /\ tx' \in [Ops -> TxStatus]
         /\ owner' \in [Targets -> Agents \cup {NoAgent}]
         /\ receipt' \in [Ops -> ReceiptStatus]
         /\ receiptRev' \in [Ops -> Nat]
         /\ storeError' \in BOOLEAN
         /\ UNCHANGED <<base, surfaceRev, mutationRev, regionRev>>
<1>1. base[o].surface \in Nat /\ "uncertain" \in ReceiptStatus /\ SurfaceOf[o] \in Surfaces
  BY ConstantsAssumption DEF TypeOK, Base, ReceiptStatus
<1>2. Persist(o, "uncertain", base[o].surface, fault) /\ ForgetTarget(o)
  BY DEF Uncertain
<1>3. /\ receipt' \in [Ops -> ReceiptStatus]
      /\ receiptRev' \in [Ops -> Nat]
      /\ storeError' \in BOOLEAN
  BY <1>1, <1>2, PersistType
<1>4. owner' \in [Targets -> Agents \cup {NoAgent}]
  BY <1>2, ForgetType
<1> QED
  BY <1>1, <1>3, <1>4 DEF Uncertain, TypeOK, TxStatus, revisionVars

----------------------------------------------------------------------------
LEMMA TypeInit == FenceInit => TypeOK
<1> SUFFICES ASSUME FenceInit PROVE TypeOK
  OBVIOUS
<1>1. /\ 0 \in 0..LeaseTtl
      /\ NoMark \in {NoMark} \cup 0..StaleInFlightTimeout
      /\ NoBase \in Base
  BY ConstantsAssumption DEF NoBase, Base
<1>2. /\ sched \in [Ops -> SchedStatus]
      /\ tx \in [Ops -> TxStatus]
      /\ receipt \in [Ops -> ReceiptStatus]
  BY DEF FenceInit, SchedStatus, TxStatus, ReceiptStatus
<1> QED
  BY <1>1, <1>2 DEF FenceInit, TypeOK

\* Every action of the fence keeps every variable in its shape.
LEMMA TypeStep == TypeOK /\ [FenceNext]_fenceVars => TypeOK'
<1> SUFFICES ASSUME TypeOK, [FenceNext]_fenceVars PROVE TypeOK'
  OBVIOUS
<1> USE DEF revisionVars, receiptVars
<1>1. ASSUME NEW o \in Ops, NEW e, NEW r,
             BeginRefused(o, e, r) \/ BeginUnclaimed(o, e, r)
      PROVE  TypeOK'
  <2>1. sched' \in [Ops -> SchedStatus]
    BY <1>1, SweepType DEF BeginRefused, BeginUnclaimed, Sweep
  <2>2. owner' \in [Targets -> Agents \cup {NoAgent}]
    BY <1>1, ForgetType DEF BeginRefused, BeginUnclaimed, TypeOK
  <2>3. storeError' \in BOOLEAN
    BY <1>1 DEF BeginRefused, BeginUnclaimed, TypeOK
  <2>5. unresolved' \subseteq Surfaces
    <3>1. CASE BeginRefused(o, e, r)
      BY <3>1 DEF BeginRefused, TypeOK
    <3>2. CASE BeginUnclaimed(o, e, r)
      <4>1. unresolved' \subseteq unresolved \cup {SurfaceOf[o]}
        BY <3>2 DEF BeginUnclaimed
      <4> QED
        BY <4>1, ConstantsAssumption DEF TypeOK
    <3> QED
      BY <1>1, <3>1, <3>2
  <2>4. UNCHANGED <<lease, base, revisionVars, inFlight, uncertainAge, tx, receiptVars>>
    BY <1>1 DEF BeginRefused, BeginUnclaimed
  <2> QED
    BY <2>1, <2>2, <2>3, <2>4, <2>5 DEF TypeOK
<1>2. ASSUME NEW o \in Ops, NEW e, NEW r,
             BeginGranted(o, e, r)
      PROVE  TypeOK'
  <2>1. /\ sched' \in [Ops -> SchedStatus]
        /\ lease' \in [Ops -> 0..LeaseTtl]
    BY <1>2, SweepType, ConstantsAssumption DEF BeginGranted, TypeOK, SchedStatus
  <2>2. base' \in [Ops -> Base]
    BY <1>2, CurrentBaseType DEF BeginGranted, TypeOK
  <2>3. /\ owner' \in [Targets -> Agents \cup {NoAgent}]
        /\ receipt' \in [Ops -> ReceiptStatus]
        /\ receiptRev' \in [Ops -> Nat]
        /\ tx' \in [Ops -> TxStatus]
    BY <1>2, TargetType, ConstantsAssumption
    DEF BeginGranted, TypeOK, ReceiptStatus, TxStatus
  <2> QED
    BY <1>2, <2>1, <2>2, <2>3 DEF BeginGranted, TypeOK
<1>3. ASSUME NEW o \in Ops, BeginUnreadable(o) \/ BeginRepeated(o)
      PROVE  TypeOK'
  <2>1. sched' \in [Ops -> SchedStatus]
    BY <1>3, SweepType DEF BeginUnreadable, BeginRepeated, Sweep
  <2>2. storeError' \in BOOLEAN
    BY <1>3 DEF BeginUnreadable, BeginRepeated, TypeOK
  <2>4. unresolved' \subseteq Surfaces
    <3>1. CASE BeginUnreadable(o)
      BY <3>1 DEF BeginUnreadable, TypeOK
    <3>2. CASE BeginRepeated(o)
      <4>1. unresolved' \subseteq unresolved \cup {SurfaceOf[o]}
        BY <3>2 DEF BeginRepeated
      <4> QED
        BY <4>1, ConstantsAssumption DEF TypeOK
    <3> QED
      BY <1>3, <3>1, <3>2
  <2>3. UNCHANGED <<lease, base, revisionVars, owner, inFlight, uncertainAge, tx,
                    receiptVars>>
    BY <1>3 DEF BeginUnreadable, BeginRepeated
  <2> QED
    BY <2>1, <2>2, <2>3, <2>4 DEF TypeOK
<1>4. ASSUME NEW o \in Ops, LateReturn(o) \/ HeartbeatRenews(o)
      PROVE  TypeOK'
  BY <1>4, ReleaseType, ConstantsAssumption DEF LateReturn, HeartbeatRenews, TypeOK
<1>5. ASSUME NEW o \in Ops, NEW fault, CommitApplied(o, fault)
      PROVE  TypeOK'
  <2>1. EpochAfterCommit(o) \in Nat /\ SurfaceOf[o] \in Surfaces
    BY ConstantsAssumption DEF EpochAfterCommit, TypeOK
  <2>2. sched' \in [Ops -> SchedStatus] /\ lease' \in [Ops -> 0..LeaseTtl]
    BY <1>5, EndLeaseType DEF CommitApplied, SchedStatus
  <2>3. /\ receipt' \in [Ops -> ReceiptStatus]
        /\ receiptRev' \in [Ops -> Nat]
        /\ storeError' \in BOOLEAN
    BY <1>5, <2>1, PersistType DEF CommitApplied, ReceiptStatus
  <2>4. /\ inFlight' \subseteq Ops
        /\ uncertainAge' \in [Surfaces -> {NoMark} \cup 0..StaleInFlightTimeout]
        /\ owner' \in [Targets -> Agents \cup {NoAgent}]
    BY <1>5, ReleaseType, ForgetType DEF CommitApplied
  <2>5. /\ surfaceRev' \in [Surfaces -> Nat]
        /\ mutationRev' \in [Surfaces -> Nat]
        /\ regionRev' \in [Targets -> Nat]
    BY <1>5, <2>1, TargetType DEF CommitApplied, TypeOK
  <2> QED
    BY <1>5, <2>2, <2>3, <2>4, <2>5 DEF CommitApplied, TypeOK, TxStatus
<1>6. ASSUME NEW o \in Ops, NEW fault, CommitTooLate(o, fault) \/ AbortUncertain(o, fault)
      PROVE  TypeOK'
  <2>1. sched[o] \in SchedStatus
    BY DEF TypeOK
  <2>2. sched' \in [Ops -> SchedStatus] /\ lease' \in [Ops -> 0..LeaseTtl]
    BY <1>6, <2>1, EndLeaseType DEF CommitTooLate, AbortUncertain, SchedStatus
  <2>3. /\ inFlight' \subseteq Ops
        /\ uncertainAge' \in [Surfaces -> {NoMark} \cup 0..StaleInFlightTimeout]
    BY <1>6, ReleaseType DEF CommitTooLate, AbortUncertain
  <2>4. Uncertain(o, fault)
    BY <1>6 DEF CommitTooLate, AbortUncertain
  <2> QED
    BY <2>2, <2>3, <2>4, UncertainType DEF TypeOK
<1>7. ASSUME NEW o \in Ops, NEW fault, AbortRefused(o, fault)
      PROVE  TypeOK'
  <2> DEFINE status == IF sched[o] \in {"expired", "stale"} THEN sched[o] ELSE "aborted"
             ended == IF sched[o] = "active" THEN "aborted" ELSE sched[o]
  <2>1. /\ ended \in SchedStatus /\ status \in ReceiptStatus /\ status \in TxStatus
        /\ base[o].surface \in Nat
    BY DEF TypeOK, SchedStatus, ReceiptStatus, TxStatus, Base
  <2>2. /\ EndLease(o, ended)
        /\ tx' = [tx EXCEPT ![o] = status]
        /\ Persist(o, status, base[o].surface, fault)
    BY <1>7 DEF AbortRefused
  <2> HIDE DEF status, ended
  <2>3. sched' \in [Ops -> SchedStatus] /\ lease' \in [Ops -> 0..LeaseTtl]
    BY <2>1, <2>2, EndLeaseType
  <2>4. /\ receipt' \in [Ops -> ReceiptStatus]
        /\ receiptRev' \in [Ops -> Nat]
        /\ storeError' \in BOOLEAN
    BY <2>1, <2>2, PersistType
  <2>5. /\ inFlight' \subseteq Ops
        /\ uncertainAge' \in [Surfaces -> {NoMark} \cup 0..StaleInFlightTimeout]
        /\ owner' \in [Targets -> Agents \cup {NoAgent}]
    BY <1>7, ReleaseType, ForgetType DEF AbortRefused
  <2> QED
    BY <1>7, <2>1, <2>2, <2>3, <2>4, <2>5 DEF AbortRefused, TypeOK
<1>8. ASSUME NEW o \in Ops, NEW fault, Release(o, fault)
      PROVE  TypeOK'
  <2>1. sched' \in [Ops -> SchedStatus] /\ lease' \in [Ops -> 0..LeaseTtl]
    BY <1>8, EndLeaseType DEF Release, SchedStatus
  <2>2. /\ inFlight' \subseteq Ops
        /\ uncertainAge' \in [Surfaces -> {NoMark} \cup 0..StaleInFlightTimeout]
        /\ owner' \in [Targets -> Agents \cup {NoAgent}]
    BY <1>8, ReleaseType, ForgetType DEF Release
  <2>3. receipt' \in [Ops -> ReceiptStatus] /\ receiptRev' \in [Ops -> Nat]
    BY <1>8 DEF Release, TypeOK, ReceiptStatus
  <2> QED
    BY <1>8, <2>1, <2>2, <2>3 DEF Release, TypeOK, TxStatus
<1>9. ASSUME NEW o \in Ops, NEW fault, HeartbeatLapses(o, fault)
      PROVE  TypeOK'
  <2>1. sched' \in [Ops -> SchedStatus]
    BY <1>9, SweepType DEF HeartbeatLapses, TypeOK
  <2>2. /\ inFlight' \subseteq Ops
        /\ uncertainAge' \in [Surfaces -> {NoMark} \cup 0..StaleInFlightTimeout]
    BY <1>9, ReleaseType DEF HeartbeatLapses
  <2>3. Uncertain(o, fault) /\ lease' = lease
    BY <1>9 DEF HeartbeatLapses
  <2> QED
    BY <2>1, <2>2, <2>3, UncertainType DEF TypeOK
<1>10. ASSUME NEW s \in Surfaces, ObserveKept(s) \/ ObserveUnderLease(s)
       PROVE  TypeOK'
  <2>1. NoMark \in {NoMark} \cup 0..StaleInFlightTimeout
    OBVIOUS
  <2> QED
    BY <1>10, <2>1, SweepType DEF ObserveKept, ObserveUnderLease, GuardDropped, TypeOK, Sweep
<1>11. ASSUME NEW s \in Surfaces, NEW fault, ObserveReconciles(s, fault)
       PROVE  TypeOK'
  <2>1. sched' \in [Ops -> SchedStatus]
    BY <1>11, SweepType DEF ObserveReconciles, Sweep
  <2>2. /\ inFlight' \subseteq Ops
        /\ uncertainAge' \in [Surfaces -> {NoMark} \cup 0..StaleInFlightTimeout]
    BY <1>11 DEF ObserveReconciles, GuardDropped, TypeOK
  <2>3. surfaceRev' \in [Surfaces -> Nat] /\ mutationRev' \in [Surfaces -> Nat]
    BY <1>11 DEF ObserveReconciles, TypeOK
  <2>4. /\ receipt' \in [Ops -> ReceiptStatus]
        /\ receiptRev' \in [Ops -> Nat]
        /\ unresolved' \subseteq Surfaces
    BY <1>11 DEF ObserveReconciles, TypeOK, ReceiptStatus
  <2>6. storeError' \in BOOLEAN
    BY <1>11 DEF ObserveReconciles, TypeOK
  <2>5. UNCHANGED <<lease, base, regionRev, owner, tx>>
    BY <1>11 DEF ObserveReconciles
  <2> QED
    BY <2>1, <2>2, <2>3, <2>4, <2>5, <2>6 DEF TypeOK
<1>12. CASE ReadRevision
  BY <1>12, SweepType DEF ReadRevision, Sweep, TypeOK
<1>13. CASE Tick
  <2>1. lease' \in [Ops -> 0..LeaseTtl]
    BY <1>13, ConstantsAssumption DEF Tick, Countdown, TypeOK
  <2>2. StaleInFlightTimeout \in Nat
    BY ConstantsAssumption DEF StaleInFlightTimeout
  <2>3. uncertainAge' \in [Surfaces -> {NoMark} \cup 0..StaleInFlightTimeout]
    BY <1>13, <2>2 DEF Tick, TypeOK, StaleMark, NoMark
  <2> QED
    BY <1>13, <2>1, <2>3 DEF Tick, TypeOK
<1>14. CASE Restart \/ RestartUnreadable
  <2>1. EmptyMemory
    BY <1>14 DEF Restart, RestartUnreadable
  <2>2. /\ sched' \in [Ops -> SchedStatus]
        /\ lease' \in [Ops -> 0..LeaseTtl]
        /\ base' \in [Ops -> Base]
        /\ regionRev' \in [Targets -> Nat]
        /\ owner' \in [Targets -> Agents \cup {NoAgent}]
        /\ inFlight' \subseteq Ops
        /\ uncertainAge' \in [Surfaces -> {NoMark} \cup 0..StaleInFlightTimeout]
        /\ tx' \in [Ops -> TxStatus]
    BY <2>1, ConstantsAssumption DEF EmptyMemory, SchedStatus, TxStatus, Base, NoBase
  <2>3. surfaceRev' \in [Surfaces -> Nat] /\ mutationRev' \in [Surfaces -> Nat]
    <3>1. \A r \in RestoredEpochs : r \in [Surfaces -> Nat]
      BY DEF RestoredEpochs, TypeOK
    <3>2. CASE Restart
      BY <3>1, <3>2 DEF Restart
    <3>3. CASE RestartUnreadable
      BY <3>3 DEF RestartUnreadable
    <3> QED
      BY <1>14, <3>2, <3>3
  <2>4. /\ unresolved' \subseteq Surfaces
        /\ storeError' \in BOOLEAN
        /\ receipt' = receipt /\ receiptRev' = receiptRev
    BY <1>14, ConstantsAssumption DEF Restart, RestartUnreadable
  <2> QED
    BY <2>2, <2>3, <2>4 DEF TypeOK
<1>15. CASE UNCHANGED fenceVars
  BY <1>15 DEF fenceVars, memoryVars, TypeOK
<1> QED
  BY <1>1, <1>2, <1>3, <1>4, <1>5, <1>6, <1>7, <1>8, <1>9, <1>10, <1>11,
     <1>12, <1>13, <1>14, <1>15
  DEF FenceNext, BeginAny, Begin, TransactionCall, Observe

\* In every behaviour every variable keeps its shape.
THEOREM TypeCorrect == FenceSpec => []TypeOK
  BY TypeInit, TypeStep, PTL DEF FenceSpec

----------------------------------------------------------------------------
(* The inductive invariant *)

\* A lease belongs to an open transaction and to a row that is still claimed;
\* an open transaction has a row.
LeaseInv ==
  \A o \in Ops :
    /\ sched[o] = "active" => tx[o] = "open" /\ receipt[o] = "claimed"
    /\ tx[o] = "open" => receipt[o] # "none"

\* Open rows never overlap, and what is in flight has one.
RowsInv ==
  /\ \A o \in inFlight : Unsettled(o)
  /\ \A a, b \in Ops : a # b /\ Unsettled(a) /\ Unsettled(b) => ~Conflicts(a, b)

PinInv == \A o \in Ops : sched[o] = "active" => base[o] = CurrentBase(o)

\* The epoch of a surface has not moved back since a transaction on it began.
BaseInv == \A o \in Ops : tx[o] = "open" => base[o].surface <= surfaceRev[SurfaceOf[o]]

\* A broker that could not read its receipts is closed and idle.
ClosedBroker ==
  /\ storeError
  /\ unresolved = {}
  /\ \A o \in Ops : tx[o] = "none"

FenceInv ==
  /\ TypeOK
  /\ LeaseInv
  /\ RowsInv
  /\ PinInv
  /\ BaseInv
  /\ EpochCoversReceipts
  /\ DistinctCommittedEpochs
  /\ NoOrphanedTarget

----------------------------------------------------------------------------
(* The kinds of steps *)

NoNewLease == \A o \in Ops : sched'[o] = "active" => sched[o] = "active"

StaysClosed == storeError /\ unresolved = {} => storeError' /\ unresolved' = {}

\* Nothing begins, ends or is written; leases may lapse and bindings may go.
Quiet ==
  /\ NoNewLease
  /\ inFlight' \subseteq inFlight
  /\ owner' = owner \/ \E o \in Ops : ForgetTarget(o)
  /\ StaysClosed
  /\ UNCHANGED <<base, surfaceRev, mutationRev, regionRev, tx, receipt, receiptRev>>

\* What a settlement may do to the row of its own operation: leave it, remove
\* it while claimed, or write it once with the epoch the transaction began on.
RowSettled(o) ==
  /\ \A p \in Ops \ {o} : receipt'[p] = receipt[p] /\ receiptRev'[p] = receiptRev[p]
  /\ \/ receipt'[o] = receipt[o] /\ receiptRev'[o] = receiptRev[o]
     \/ receipt[o] = "claimed" /\ receipt'[o] = "none"
     \/ /\ receipt[o] \in {"none", "claimed"}
        /\ receipt'[o] # "committed"
        /\ receiptRev'[o] = base[o].surface

\* A transaction ends and moves no revision.
Ends(o) ==
  /\ tx[o] = "open"
  /\ tx'[o] # "open"
  /\ \A p \in Ops \ {o} : tx'[p] = tx[p]
  /\ NoNewLease
  /\ sched'[o] # "active"
  /\ RowSettled(o)
  /\ \/ inFlight' = inFlight \ {o}
     \/ inFlight' = inFlight /\ receipt'[o] \in {receipt[o], "uncertain"}
  /\ ForgetTarget(o)
  /\ UNCHANGED <<base, surfaceRev, mutationRev, regionRev>>

\* Writing a row changes that row only, and only forward.
LEMMA PersistRow ==
  ASSUME TypeOK, NEW o \in Ops, NEW status \in ReceiptStatus, NEW revision \in Nat,
         NEW fault, Persist(o, status, revision, fault)
  PROVE  /\ \A p \in Ops \ {o} : receipt'[p] = receipt[p] /\ receiptRev'[p] = receiptRev[p]
         /\ \/ receipt'[o] = receipt[o] /\ receiptRev'[o] = receiptRev[o]
            \/ /\ MayRecord(o, status)
               /\ receipt'[o] = status /\ receiptRev'[o] = revision
  BY DEF Persist, TypeOK, receiptVars

\* Settling as uncertain ends the transaction that was open.
LEMMA UncertainEnds ==
  ASSUME TypeOK, NEW o \in Ops, NEW fault, tx[o] = "open", NoNewLease,
         sched'[o] # "active", Uncertain(o, fault),
         inFlight' = inFlight \/ inFlight' = inFlight \ {o}
  PROVE  Ends(o)
<1>1. base[o].surface \in Nat /\ "uncertain" \in ReceiptStatus
  BY DEF TypeOK, Base, ReceiptStatus
<1>2. Persist(o, "uncertain", base[o].surface, fault)
  BY DEF Uncertain
<1>3. /\ RowSettled(o)
      /\ receipt'[o] \in {receipt[o], "uncertain"}
  BY <1>1, <1>2, PersistRow DEF RowSettled, MayRecord
<1>4. tx'[o] # "open" /\ \A p \in Ops \ {o} : tx'[p] = tx[p]
  BY DEF Uncertain, TypeOK
<1>5. ForgetTarget(o) /\ UNCHANGED <<base, surfaceRev, mutationRev, regionRev>>
  BY DEF Uncertain, revisionVars
<1> QED
  BY <1>3, <1>4, <1>5 DEF Ends

\* The sweep and the end of a lease take no lease.
LEMMA SweepTakesNone == ASSUME TypeOK, Sweep PROVE NoNewLease
  BY DEF TypeOK, Sweep, Swept, NoNewLease

LEMMA EndTakesNone ==
  ASSUME TypeOK, NEW o \in Ops, NEW status, status # "active", EndLease(o, status)
  PROVE  NoNewLease /\ sched'[o] # "active"
  BY DEF TypeOK, EndLease, NoNewLease

\* Every step of the fence is of one of six kinds.
LEMMA StepKinds ==
  ASSUME TypeOK, [FenceNext]_fenceVars
  PROVE  \/ Quiet
         \/ \E o \in Ops :
              \/ \E e, r : BeginGranted(o, e, r)
              \/ \E fault : CommitApplied(o, fault)
              \/ Ends(o)
         \/ \E s \in Surfaces : \E fault : ObserveReconciles(s, fault)
         \/ Restart
         \/ RestartUnreadable
<1> USE DEF revisionVars, receiptVars
<1>1. ASSUME NEW o \in Ops, NEW e, NEW r,
             BeginRefused(o, e, r) \/ BeginUnclaimed(o, e, r)
      PROVE  Quiet
  <2>1. NoNewLease
    BY <1>1, SweepTakesNone DEF BeginRefused, BeginUnclaimed
  <2>2. ~storeError
    BY <1>1 DEF BeginRefused, BeginUnclaimed
  <2> QED
    BY <1>1, <2>1, <2>2 DEF BeginRefused, BeginUnclaimed, Quiet, StaysClosed
<1>2. ASSUME NEW o \in Ops, BeginUnreadable(o) \/ BeginRepeated(o)
      PROVE  Quiet
  <2>1. NoNewLease
    BY <1>2, SweepTakesNone DEF BeginUnreadable, BeginRepeated
  <2>2. ~storeError
    BY <1>2 DEF BeginUnreadable, BeginRepeated
  <2> QED
    BY <1>2, <2>1, <2>2 DEF BeginUnreadable, BeginRepeated, Quiet, StaysClosed
<1>3. ASSUME NEW o \in Ops, LateReturn(o) \/ HeartbeatRenews(o)
      PROVE  Quiet
  BY <1>3 DEF LateReturn, HeartbeatRenews, ReleaseInFlight, Quiet, NoNewLease, StaysClosed
<1>4. ASSUME NEW o \in Ops, NEW fault, CommitTooLate(o, fault) \/ AbortUncertain(o, fault)
      PROVE  Ends(o)
  <2>1. NoNewLease /\ sched'[o] # "active"
    BY <1>4, EndTakesNone DEF CommitTooLate, AbortUncertain
  <2>2. /\ tx[o] = "open"
        /\ Uncertain(o, fault)
        /\ inFlight' = inFlight \ {o}
    BY <1>4 DEF CommitTooLate, AbortUncertain, ReleaseInFlight
  <2> QED
    BY <2>1, <2>2, UncertainEnds
<1>5. ASSUME NEW o \in Ops, NEW fault, AbortRefused(o, fault)
      PROVE  Ends(o)
  <2> DEFINE status == IF sched[o] \in {"expired", "stale"} THEN sched[o] ELSE "aborted"
             ended == IF sched[o] = "active" THEN "aborted" ELSE sched[o]
  <2>1. /\ status \in ReceiptStatus \ {"open", "committed", "reconciled"}
        /\ ended # "active"
        /\ base[o].surface \in Nat
    BY DEF TypeOK, ReceiptStatus, Base
  <2>2. /\ EndLease(o, ended)
        /\ tx' = [tx EXCEPT ![o] = status]
        /\ Persist(o, status, base[o].surface, fault)
    BY <1>5 DEF AbortRefused
  <2> HIDE DEF status, ended
  <2>3. NoNewLease /\ sched'[o] # "active"
    BY <2>1, <2>2, EndTakesNone
  <2>4. RowSettled(o)
    BY <2>1, <2>2, PersistRow DEF RowSettled, MayRecord
  <2>5. tx[o] = "open" /\ tx'[o] # "open" /\ \A p \in Ops \ {o} : tx'[p] = tx[p]
    BY <1>5, <2>1, <2>2 DEF AbortRefused, TypeOK
  <2> QED
    BY <1>5, <2>3, <2>4, <2>5 DEF AbortRefused, ReleaseInFlight, Ends
<1>6. ASSUME NEW o \in Ops, NEW fault, Release(o, fault)
      PROVE  Ends(o)
  <2>1. NoNewLease /\ sched'[o] # "active"
    BY <1>6, EndTakesNone DEF Release
  <2>2. RowSettled(o)
    BY <1>6 DEF Release, RowSettled, TypeOK
  <2>3. tx[o] = "open" /\ tx'[o] # "open" /\ \A p \in Ops \ {o} : tx'[p] = tx[p]
    BY <1>6 DEF Release, TypeOK
  <2> QED
    BY <1>6, <2>1, <2>2, <2>3 DEF Release, ReleaseInFlight, Ends
<1>7. ASSUME NEW o \in Ops, NEW fault, HeartbeatLapses(o, fault)
      PROVE  Ends(o)
  <2>1. NoNewLease /\ sched'[o] # "active"
    BY <1>7 DEF HeartbeatLapses, Swept, Lapsed, NoNewLease, TypeOK
  <2>2. tx[o] = "open" /\ Uncertain(o, fault) /\ inFlight' = inFlight
    BY <1>7 DEF HeartbeatLapses, KeepInFlight
  <2> QED
    BY <2>1, <2>2, UncertainEnds
<1>8. ASSUME NEW s \in Surfaces, ObserveKept(s) \/ ObserveUnderLease(s)
      PROVE  Quiet
  <2>1. NoNewLease
    BY <1>8, SweepTakesNone DEF ObserveKept, ObserveUnderLease
  <2>2. inFlight' \subseteq inFlight
    BY <1>8 DEF ObserveKept, ObserveUnderLease, GuardDropped
  <2> QED
    BY <1>8, <2>1, <2>2 DEF ObserveKept, ObserveUnderLease, Quiet, StaysClosed
<1>9. CASE ReadRevision
  BY <1>9, SweepTakesNone DEF ReadRevision, Quiet, StaysClosed
<1>10. CASE Tick
  BY <1>10 DEF Tick, Quiet, NoNewLease, StaysClosed
<1>11. CASE UNCHANGED fenceVars
  BY <1>11 DEF fenceVars, memoryVars, Quiet, NoNewLease, StaysClosed
<1> QED
  BY <1>1, <1>2, <1>3, <1>4, <1>5, <1>6, <1>7, <1>8, <1>9, <1>10, <1>11
  DEF FenceNext, BeginAny, Begin, TransactionCall, Observe

----------------------------------------------------------------------------
(* Facts the kinds share *)

\* The store and the scheduler agree on which targets overlap.
LEMMA StoreAgrees ==
  ASSUME NEW a \in Ops, NEW b \in Ops, Conflicts(a, b)
  PROVE  StoreBlocks(a, b) /\ StoreBlocks(b, a)
  BY DEF Conflicts, StoreBlocks, TargetOf

\* Committing writes the row once, with the epoch after the commit.
LEMMA CommitRow ==
  ASSUME TypeOK, NEW o \in Ops, NEW fault, CommitApplied(o, fault)
  PROVE  /\ tx[o] = "open" /\ tx'[o] = "committed"
         /\ \A p \in Ops \ {o} : tx'[p] = tx[p]
         /\ sched[o] = "active" /\ sched'[o] = "committed"
         /\ NoNewLease
         /\ inFlight' = inFlight \ {o}
         /\ \A p \in Ops \ {o} : receipt'[p] = receipt[p] /\ receiptRev'[p] = receiptRev[p]
         /\ \/ receipt'[o] = receipt[o] /\ receiptRev'[o] = receiptRev[o]
            \/ /\ receipt[o] \in {"none", "claimed"}
               /\ receipt'[o] = "committed" /\ receiptRev'[o] = EpochAfterCommit(o)
         /\ ForgetTarget(o)
<1>1. EpochAfterCommit(o) \in Nat /\ "committed" \in ReceiptStatus
  BY ConstantsAssumption DEF EpochAfterCommit, TypeOK, ReceiptStatus
<1>2. Persist(o, "committed", EpochAfterCommit(o), fault) /\ EndLease(o, "committed")
  BY DEF CommitApplied
<1>3. /\ \A p \in Ops \ {o} : receipt'[p] = receipt[p] /\ receiptRev'[p] = receiptRev[p]
      /\ \/ receipt'[o] = receipt[o] /\ receiptRev'[o] = receiptRev[o]
         \/ /\ receipt[o] \in {"none", "claimed"}
            /\ receipt'[o] = "committed" /\ receiptRev'[o] = EpochAfterCommit(o)
  BY <1>1, <1>2, PersistRow DEF MayRecord
<1>4. NoNewLease /\ sched'[o] = "committed"
  BY <1>2, EndTakesNone DEF EndLease, TypeOK
<1> QED
  BY <1>3, <1>4 DEF CommitApplied, CommitSucceeds, ReleaseInFlight, TypeOK

\* A reconciliation finds no lease on its surface and leaves none.
LEMMA ReconcileFindsNoLease ==
  ASSUME TypeOK, NEW s \in Surfaces, NEW fault, ObserveReconciles(s, fault)
  PROVE  NoNewLease /\ \A o \in OpsOn(s) : sched'[o] # "active"
<1>1. Sweep /\ ~SurfaceLeased(s)
  BY DEF ObserveReconciles
<1> QED
  BY <1>1, SweepTakesNone DEF Sweep, SurfaceLeased, OpsOn, Swept

\* A grant takes exactly one lease.
LEMMA GrantLeases ==
  ASSUME TypeOK, NEW o \in Ops, NEW e, NEW r, BeginGranted(o, e, r)
  PROVE  /\ sched'[o] = "active" /\ tx'[o] = "open" /\ receipt'[o] = "claimed"
         /\ \A p \in Ops \ {o} : /\ sched'[p] = "active" => sched[p] = "active"
                                 /\ tx'[p] = tx[p] /\ receipt'[p] = receipt[p]
                                 /\ receiptRev'[p] = receiptRev[p] /\ base'[p] = base[p]
         /\ receipt[o] = "none"
  BY DEF BeginGranted, TypeOK, Swept

----------------------------------------------------------------------------
(* Leases, transactions and rows *)

LEMMA LeaseStep == TypeOK /\ LeaseInv /\ [FenceNext]_fenceVars => LeaseInv'
<1> SUFFICES ASSUME TypeOK, LeaseInv, [FenceNext]_fenceVars PROVE LeaseInv'
  OBVIOUS
<1>1. CASE Quiet
  BY <1>1 DEF Quiet, NoNewLease, LeaseInv
<1>2. ASSUME NEW o \in Ops, NEW e, NEW r, BeginGranted(o, e, r)
      PROVE  LeaseInv'
  BY <1>2, GrantLeases DEF LeaseInv
<1>3. ASSUME NEW o \in Ops, NEW fault, CommitApplied(o, fault)
      PROVE  LeaseInv'
  BY <1>3, CommitRow DEF LeaseInv, NoNewLease
<1>4. ASSUME NEW o \in Ops, Ends(o)
      PROVE  LeaseInv'
  BY <1>4 DEF Ends, RowSettled, LeaseInv, NoNewLease
<1>5. ASSUME NEW s \in Surfaces, NEW fault, ObserveReconciles(s, fault)
      PROVE  LeaseInv'
  <2>1. NoNewLease /\ \A o \in OpsOn(s) : sched'[o] # "active"
    BY <1>5, ReconcileFindsNoLease
  <2>2. /\ tx' = tx
        /\ \A o \in Ops : receipt'[o] # receipt[o] => o \in OpsOn(s) /\ receipt'[o] = "reconciled"
    BY <1>5 DEF ObserveReconciles, TypeOK, receiptVars
  <2> QED
    BY <2>1, <2>2 DEF LeaseInv, NoNewLease
<1>6. CASE Restart \/ RestartUnreadable
  BY <1>6 DEF Restart, RestartUnreadable, EmptyMemory, LeaseInv
<1> QED
  BY <1>1, <1>2, <1>3, <1>4, <1>5, <1>6, StepKinds

LEMMA RowsStep ==
  TypeOK /\ LeaseInv /\ RowsInv /\ [FenceNext]_fenceVars => RowsInv'
<1> SUFFICES ASSUME TypeOK, LeaseInv, RowsInv, [FenceNext]_fenceVars PROVE RowsInv'
  OBVIOUS
\* it is enough that no row opens, and that what stays in flight stays open
<1>0. ASSUME \A o \in Ops : Unsettled(o)' => Unsettled(o),
             \A o \in inFlight' : Unsettled(o)'
      PROVE  RowsInv'
  BY <1>0 DEF RowsInv, Conflicts
<1>1. CASE Quiet
  BY <1>1 DEF Quiet, Unsettled, RowsInv, Conflicts
<1>2. ASSUME NEW o \in Ops, NEW e, NEW r, BeginGranted(o, e, r)
      PROVE  RowsInv'
  <2>1. /\ \A p \in Ops \ {o} : Unsettled(p)' <=> Unsettled(p)
        /\ Unsettled(o)'
    BY <1>2, GrantLeases DEF Unsettled
  <2>2. \A p \in Ops \ {o} : Unsettled(p) => ~Conflicts(p, o) /\ ~Conflicts(o, p)
    BY <1>2, StoreAgrees DEF BeginGranted, BlockedInStore
  <2>3. inFlight' = inFlight \cup {o}
    BY <1>2 DEF BeginGranted
  <2>4. \A a, b \in Ops : Conflicts(a, b)' <=> Conflicts(a, b)
    BY DEF Conflicts
  <2>5. \A a \in inFlight' : Unsettled(a)'
    BY <2>1, <2>3 DEF RowsInv, TypeOK
  <2>6. \A a, b \in Ops : a # b /\ Unsettled(a)' /\ Unsettled(b)' => ~Conflicts(a, b)
    BY <2>1, <2>2 DEF RowsInv
  <2> QED
    BY <2>4, <2>5, <2>6 DEF RowsInv
<1>3. ASSUME NEW o \in Ops, NEW fault, CommitApplied(o, fault)
      PROVE  RowsInv'
  BY <1>0, <1>3, CommitRow DEF Unsettled, RowsInv, TypeOK
<1>4. ASSUME NEW o \in Ops, Ends(o)
      PROVE  RowsInv'
  <2>1. receipt[o] # "none"
    BY <1>4 DEF Ends, LeaseInv
  <2>2. \A p \in Ops : Unsettled(p)' => Unsettled(p)
    BY <1>4, <2>1 DEF Ends, RowSettled, Unsettled
  <2>3. \A p \in inFlight' : Unsettled(p)'
    BY <1>4 DEF Ends, RowSettled, Unsettled, RowsInv, TypeOK
  <2> QED
    BY <1>0, <2>2, <2>3
<1>5. ASSUME NEW s \in Surfaces, NEW fault, ObserveReconciles(s, fault)
      PROVE  RowsInv'
  <2>1. inFlight' \subseteq inFlight \ OpsOn(s)
    BY <1>5 DEF ObserveReconciles, GuardDropped, InFlightOn
  <2>2. \A o \in Ops : receipt'[o] # receipt[o] => o \in OpsOn(s) /\ receipt'[o] = "reconciled"
    BY <1>5 DEF ObserveReconciles, TypeOK, receiptVars
  <2> QED
    BY <1>0, <2>1, <2>2 DEF Unsettled, RowsInv, TypeOK
<1>6. CASE Restart \/ RestartUnreadable
  BY <1>0, <1>6 DEF Restart, RestartUnreadable, EmptyMemory, receiptVars, Unsettled
<1> QED
  BY <1>1, <1>2, <1>3, <1>4, <1>5, <1>6, StepKinds

----------------------------------------------------------------------------
(* Revisions *)

\* A commit moves the revisions of the leases it conflicts with, and of no
\* other.
LEMMA CommitMovesOnlyOwn ==
  ASSUME TypeOK, NEW o \in Ops, NEW fault, CommitApplied(o, fault),
         NEW p \in Ops, ~Conflicts(p, o)
  PROVE  CurrentBase(p)' = CurrentBase(p)
<1>1. /\ \A s \in Surfaces \ {SurfaceOf[o]} :
            surfaceRev'[s] = surfaceRev[s] /\ mutationRev'[s] = mutationRev[s]
      /\ RegionOf[o] # Whole => surfaceRev'[SurfaceOf[o]] = surfaceRev[SurfaceOf[o]]
      /\ \A t \in Targets : t # TargetOf(o) \/ RegionOf[o] = Whole => regionRev'[t] = regionRev[t]
  BY ConstantsAssumption DEF CommitApplied, EpochAfterCommit, TypeOK
<1>2. SurfaceOf[p] \in Surfaces /\ TargetOf(p) \in Targets
  BY ConstantsAssumption, TargetType
<1>3. CASE SurfaceOf[p] # SurfaceOf[o]
  BY <1>1, <1>2, <1>3 DEF CurrentBase, RevisionOfRegion, TargetOf
<1>4. CASE SurfaceOf[p] = SurfaceOf[o]
  <2>1. RegionOf[p] # Whole /\ RegionOf[o] # Whole /\ RegionOf[p] # RegionOf[o]
    BY <1>4 DEF Conflicts
  <2> QED
    BY <1>1, <1>2, <1>4, <2>1 DEF CurrentBase, RevisionOfRegion, TargetOf
<1> QED
  BY <1>3, <1>4

LEMMA PinStep ==
  TypeOK /\ LeaseInv /\ RowsInv /\ PinInv /\ [FenceNext]_fenceVars => PinInv'
<1> SUFFICES ASSUME TypeOK, LeaseInv, RowsInv, PinInv, [FenceNext]_fenceVars PROVE PinInv'
  OBVIOUS
<1>1. CASE Quiet
  BY <1>1 DEF Quiet, NoNewLease, PinInv, CurrentBase, RevisionOfRegion
<1>2. ASSUME NEW o \in Ops, NEW e, NEW r, BeginGranted(o, e, r)
      PROVE  PinInv'
  <2>1. \A p \in Ops : CurrentBase(p)' = CurrentBase(p)
    BY <1>2 DEF BeginGranted, revisionVars, CurrentBase, RevisionOfRegion
  <2>2. base'[o] = CurrentBase(o)
    BY <1>2 DEF BeginGranted, TypeOK
  <2> QED
    BY <1>2, <2>1, <2>2, GrantLeases DEF PinInv
<1>3. ASSUME NEW o \in Ops, NEW fault, CommitApplied(o, fault)
      PROVE  PinInv'
  <2>1. SUFFICES ASSUME NEW p \in Ops, sched'[p] = "active"
                 PROVE  base'[p] = CurrentBase(p)'
    BY DEF PinInv
  <2>2. p # o /\ sched[p] = "active" /\ sched[o] = "active"
    BY <1>3, <2>1, CommitRow DEF NoNewLease
  <2>3. ~Conflicts(p, o)
    BY <2>2 DEF LeaseInv, RowsInv, Unsettled
  <2> QED
    BY <1>3, <2>2, <2>3, CommitMovesOnlyOwn DEF PinInv, CommitApplied
<1>4. ASSUME NEW o \in Ops, Ends(o)
      PROVE  PinInv'
  BY <1>4 DEF Ends, NoNewLease, PinInv, CurrentBase, RevisionOfRegion
<1>5. ASSUME NEW s \in Surfaces, NEW fault, ObserveReconciles(s, fault)
      PROVE  PinInv'
  <2>1. SUFFICES ASSUME NEW p \in Ops, sched'[p] = "active"
                 PROVE  base'[p] = CurrentBase(p)'
    BY DEF PinInv
  <2>2. sched[p] = "active" /\ SurfaceOf[p] # s /\ SurfaceOf[p] \in Surfaces
    BY <1>5, <2>1, ReconcileFindsNoLease, ConstantsAssumption DEF NoNewLease, OpsOn
  <2>3. CurrentBase(p)' = CurrentBase(p)
    BY <1>5, <2>2 DEF ObserveReconciles, CurrentBase, RevisionOfRegion, TypeOK
  <2> QED
    BY <1>5, <2>2, <2>3 DEF PinInv, ObserveReconciles
<1>6. CASE Restart \/ RestartUnreadable
  BY <1>6 DEF Restart, RestartUnreadable, EmptyMemory, PinInv
<1> QED
  BY <1>1, <1>2, <1>3, <1>4, <1>5, <1>6, StepKinds

\* While the broker lives no epoch moves back.
LEMMA EpochsGrow ==
  ASSUME TypeOK, NEW s \in Surfaces,
         \/ \E o \in Ops : \E fault : CommitApplied(o, fault)
         \/ \E t \in Surfaces : \E fault : ObserveReconciles(t, fault)
  PROVE  surfaceRev[s] <= surfaceRev'[s]
<1>1. ASSUME NEW o \in Ops, NEW fault, CommitApplied(o, fault)
      PROVE  surfaceRev[s] <= surfaceRev'[s]
  <2>1. surfaceRev \in [Surfaces -> Nat] /\ SurfaceOf[o] \in Surfaces
    BY ConstantsAssumption DEF TypeOK
  <2>2. surfaceRev' = [surfaceRev EXCEPT ![SurfaceOf[o]] = EpochAfterCommit(o)]
    BY <1>1 DEF CommitApplied
  <2>3. /\ EpochAfterCommit(o) \in Nat
        /\ surfaceRev[SurfaceOf[o]] <= EpochAfterCommit(o)
    BY <2>1 DEF EpochAfterCommit
  <2> HIDE DEF EpochAfterCommit
  <2> QED
    BY <2>1, <2>2, <2>3
<1>2. ASSUME NEW t \in Surfaces, NEW fault, ObserveReconciles(t, fault)
      PROVE  surfaceRev[s] <= surfaceRev'[s]
  BY <1>2 DEF ObserveReconciles, TypeOK
<1> QED
  BY <1>1, <1>2

LEMMA BaseStep == TypeOK /\ BaseInv /\ [FenceNext]_fenceVars => BaseInv'
<1> SUFFICES ASSUME TypeOK, BaseInv, [FenceNext]_fenceVars PROVE BaseInv'
  OBVIOUS
<1>0. \A o \in Ops : SurfaceOf[o] \in Surfaces /\ base[o].surface \in Nat
  BY ConstantsAssumption DEF TypeOK, Base
<1>1. CASE Quiet
  BY <1>1 DEF Quiet, BaseInv
<1>2. ASSUME NEW o \in Ops, NEW e, NEW r, BeginGranted(o, e, r)
      PROVE  BaseInv'
  <2>1. base'[o].surface = surfaceRev[SurfaceOf[o]] /\ surfaceRev' = surfaceRev
    BY <1>2 DEF BeginGranted, TypeOK, CurrentBase, revisionVars
  <2> QED
    BY <1>0, <1>2, <2>1, GrantLeases DEF BaseInv, TypeOK
<1>3. ASSUME NEW o \in Ops, NEW fault, CommitApplied(o, fault)
      PROVE  BaseInv'
  <2>1. base' = base /\ \A p \in Ops : tx'[p] = "open" => tx[p] = "open"
    BY <1>3, CommitRow DEF CommitApplied
  <2>2. \A s \in Surfaces : surfaceRev[s] <= surfaceRev'[s] /\ surfaceRev'[s] \in Int
    BY <1>3, EpochsGrow DEF CommitApplied, EpochAfterCommit, TypeOK
  <2> QED
    BY <1>0, <2>1, <2>2 DEF BaseInv, TypeOK
<1>4. ASSUME NEW o \in Ops, Ends(o)
      PROVE  BaseInv'
  BY <1>4 DEF Ends, BaseInv
<1>5. ASSUME NEW s \in Surfaces, NEW fault, ObserveReconciles(s, fault)
      PROVE  BaseInv'
  <2>1. base' = base /\ tx' = tx
    BY <1>5 DEF ObserveReconciles
  <2>2. \A t \in Surfaces : surfaceRev[t] <= surfaceRev'[t] /\ surfaceRev'[t] \in Int
    BY <1>5, EpochsGrow DEF ObserveReconciles, TypeOK
  <2> QED
    BY <1>0, <2>1, <2>2 DEF BaseInv, TypeOK
<1>6. CASE Restart \/ RestartUnreadable
  BY <1>6 DEF Restart, RestartUnreadable, EmptyMemory, BaseInv
<1> QED
  BY <1>1, <1>2, <1>3, <1>4, <1>5, <1>6, StepKinds

\* What a commit and a reconciliation leave of the epochs.
LEMMA EpochsTyped ==
  ASSUME TypeOK, NEW o \in Ops, NEW fault, CommitApplied(o, fault)
  PROVE  /\ surfaceRev'[SurfaceOf[o]] = EpochAfterCommit(o)
         /\ \A s \in Surfaces : surfaceRev'[s] \in Nat
<1>1. surfaceRev \in [Surfaces -> Nat] /\ SurfaceOf[o] \in Surfaces
  BY ConstantsAssumption DEF TypeOK
<1>2. surfaceRev' = [surfaceRev EXCEPT ![SurfaceOf[o]] = EpochAfterCommit(o)]
  BY DEF CommitApplied
<1>3. EpochAfterCommit(o) \in Nat
  BY <1>1 DEF EpochAfterCommit
<1> QED
  BY <1>1, <1>2, <1>3

\* The first half of EpochCoversReceipts, the whole of it unless the broker is
\* closed.
EpochsCover == \A o \in Ops : receipt[o] # "none" => receiptRev[o] <= surfaceRev[SurfaceOf[o]]

\* An open transaction, an unresolved surface or a working store excludes a
\* closed broker.
LEMMA CoversUnlessClosed ==
  ASSUME EpochCoversReceipts,
         ~storeError \/ unresolved # {} \/ \E o \in Ops : tx[o] = "open"
  PROVE  EpochsCover
  BY DEF EpochCoversReceipts, EpochsCover

LEMMA CoversStep ==
  TypeOK /\ BaseInv /\ EpochCoversReceipts /\ [FenceNext]_fenceVars => EpochCoversReceipts'
<1> SUFFICES ASSUME TypeOK, BaseInv, EpochCoversReceipts, [FenceNext]_fenceVars
             PROVE  EpochCoversReceipts'
  OBVIOUS
<1>0. /\ \A o \in Ops : SurfaceOf[o] \in Surfaces /\ base[o].surface \in Nat
      /\ receiptRev \in [Ops -> Nat] /\ surfaceRev \in [Surfaces -> Nat]
  BY ConstantsAssumption DEF TypeOK, Base
<1>a. ASSUME EpochsCover' PROVE EpochCoversReceipts'
  BY <1>a DEF EpochsCover, EpochCoversReceipts
<1>1. CASE Quiet
  BY <1>1 DEF Quiet, StaysClosed, EpochCoversReceipts
<1>2. ASSUME NEW o \in Ops, NEW e, NEW r, BeginGranted(o, e, r)
      PROVE  EpochCoversReceipts'
  <2>1. EpochsCover
    BY <1>2, CoversUnlessClosed DEF BeginGranted
  <2>2. receiptRev'[o] = surfaceRev[SurfaceOf[o]] /\ surfaceRev' = surfaceRev
    BY <1>2, <1>0 DEF BeginGranted, revisionVars
  <2> QED
    BY <1>a, <1>0, <1>2, <2>1, <2>2, GrantLeases DEF EpochsCover
<1>3. ASSUME NEW o \in Ops, NEW fault, CommitApplied(o, fault)
      PROVE  EpochCoversReceipts'
  <2>1. EpochsCover
    BY <1>3, CommitRow, CoversUnlessClosed
  <2>2. \A s \in Surfaces : surfaceRev[s] <= surfaceRev'[s] /\ surfaceRev'[s] \in Nat
    BY <1>3, EpochsGrow, EpochsTyped
  <2>3. surfaceRev'[SurfaceOf[o]] = EpochAfterCommit(o)
    BY <1>3, EpochsTyped
  <2>4. ASSUME NEW p \in Ops, receipt'[p] # "none", receipt'[p] = receipt[p],
               receiptRev'[p] = receiptRev[p]
        PROVE  receiptRev'[p] <= surfaceRev'[SurfaceOf[p]]
    BY <1>0, <2>1, <2>2, <2>4 DEF EpochsCover
  <2>5. receiptRev'[o] = EpochAfterCommit(o) => receiptRev'[o] <= surfaceRev'[SurfaceOf[o]]
    BY <1>0, <2>2, <2>3
  <2> QED
    BY <1>a, <1>3, <2>4, <2>5, CommitRow DEF EpochsCover
<1>4. ASSUME NEW o \in Ops, Ends(o)
      PROVE  EpochCoversReceipts'
  <2>1. EpochsCover
    BY <1>4, CoversUnlessClosed DEF Ends
  <2>2. base[o].surface <= surfaceRev[SurfaceOf[o]]
    BY <1>4 DEF Ends, BaseInv
  <2> QED
    BY <1>a, <1>4, <2>1, <2>2 DEF EpochsCover, Ends, RowSettled
<1>5. ASSUME NEW s \in Surfaces, NEW fault, ObserveReconciles(s, fault)
      PROVE  EpochCoversReceipts'
  <2>1. EpochsCover
    BY <1>5, CoversUnlessClosed DEF ObserveReconciles, GuardDropped
  <2>2. /\ surfaceRev'[s] = surfaceRev[s] + 1
        /\ \A t \in Surfaces : surfaceRev[t] <= surfaceRev'[t] /\ surfaceRev'[t] \in Nat
    BY <1>0, <1>5 DEF ObserveReconciles
  <2>3. \A p \in Ops :
          \/ receipt'[p] = receipt[p] /\ receiptRev'[p] = receiptRev[p]
          \/ SurfaceOf[p] = s /\ receiptRev'[p] = surfaceRev[s] + 1
    BY <1>5 DEF ObserveReconciles, OpsOn, receiptVars
  <2> QED
    BY <1>a, <1>0, <2>1, <2>2, <2>3 DEF EpochsCover
<1>6. CASE Restart
  <2>1. PICK r \in RestoredEpochs : surfaceRev' = r
    BY <1>6 DEF Restart
  <2>2. receipt' = receipt /\ receiptRev' = receiptRev
    BY <1>6 DEF Restart, receiptVars
  <2> QED
    BY <1>a, <1>0, <2>1, <2>2 DEF RestoredEpochs, OpsOn, EpochsCover
<1>7. CASE RestartUnreadable
  BY <1>7 DEF RestartUnreadable, EmptyMemory, EpochCoversReceipts
<1> QED
  BY <1>1, <1>2, <1>3, <1>4, <1>5, <1>6, <1>7, StepKinds

LEMMA DistinctStep ==
  TypeOK /\ EpochCoversReceipts /\ DistinctCommittedEpochs /\ [FenceNext]_fenceVars
    => DistinctCommittedEpochs'
<1> SUFFICES ASSUME TypeOK, EpochCoversReceipts, DistinctCommittedEpochs,
                    [FenceNext]_fenceVars
             PROVE  DistinctCommittedEpochs'
  OBVIOUS
\* it is enough that no row becomes committed
<1>0. ASSUME \A p \in Ops : receipt'[p] = "committed" =>
               receipt[p] = "committed" /\ receiptRev'[p] = receiptRev[p]
      PROVE  DistinctCommittedEpochs'
  BY <1>0 DEF DistinctCommittedEpochs
<1>1. CASE Quiet
  BY <1>0, <1>1 DEF Quiet
<1>2. ASSUME NEW o \in Ops, NEW e, NEW r, BeginGranted(o, e, r)
      PROVE  DistinctCommittedEpochs'
  BY <1>0, <1>2, GrantLeases
<1>3. ASSUME NEW o \in Ops, NEW fault, CommitApplied(o, fault)
      PROVE  DistinctCommittedEpochs'
  <2>1. CASE receipt'[o] = receipt[o] /\ receiptRev'[o] = receiptRev[o]
    BY <1>0, <1>3, <2>1, CommitRow
  <2>2. CASE receiptRev'[o] = EpochAfterCommit(o)
    <3>1. EpochsCover
      BY <1>3, CommitRow, CoversUnlessClosed
    <3>2. ASSUME NEW p \in Ops \ {o}, SurfaceOf[p] = SurfaceOf[o], RegionOf[o] = Whole,
                 receipt'[p] = "committed"
          PROVE  receiptRev'[p] # receiptRev'[o]
      <4>1. receiptRev'[p] = receiptRev[p] /\ receipt[p] = "committed"
        BY <1>3, <3>2, CommitRow
      <4>2. receiptRev[p] <= surfaceRev[SurfaceOf[o]]
        BY <3>1, <3>2, <4>1 DEF EpochsCover
      <4>3. receiptRev[p] \in Nat /\ surfaceRev[SurfaceOf[o]] \in Nat
        BY ConstantsAssumption DEF TypeOK
      <4> QED
        BY <2>2, <3>2, <4>1, <4>2, <4>3 DEF EpochAfterCommit
    <3>3. \A p \in Ops \ {o} : receipt'[p] = receipt[p] /\ receiptRev'[p] = receiptRev[p]
      BY <1>3, CommitRow
    <3> QED
      BY <3>2, <3>3 DEF DistinctCommittedEpochs
  <2> QED
    BY <1>3, <2>1, <2>2, CommitRow
<1>4. ASSUME NEW o \in Ops, Ends(o)
      PROVE  DistinctCommittedEpochs'
  BY <1>0, <1>4 DEF Ends, RowSettled
<1>5. ASSUME NEW s \in Surfaces, NEW fault, ObserveReconciles(s, fault)
      PROVE  DistinctCommittedEpochs'
  BY <1>0, <1>5 DEF ObserveReconciles, receiptVars, Unsettled
<1>6. CASE Restart \/ RestartUnreadable
  BY <1>0, <1>6 DEF Restart, RestartUnreadable, receiptVars
<1> QED
  BY <1>1, <1>2, <1>3, <1>4, <1>5, <1>6, StepKinds

----------------------------------------------------------------------------
(* Bindings *)

\* A binding that survives ForgetTarget is another target's, or is held by a
\* lease.
LEMMA ForgetKeeps ==
  ASSUME TypeOK, LeaseInv', NEW o \in Ops, ForgetTarget(o),
         NEW t \in Targets, owner'[t] # NoAgent
  PROVE  \/ t # TargetOf(o) /\ owner[t] # NoAgent
         \/ \E p \in Ops : TargetOf(p) = t /\ tx'[p] = "open"
<1>1. CASE \E p \in Ops : sched'[p] = "active" /\ TargetOf(p) = TargetOf(o)
  <2>1. owner' = owner
    BY <1>1 DEF ForgetTarget
  <2> QED
    BY <1>1, <2>1 DEF LeaseInv
<1>2. CASE ~\E p \in Ops : sched'[p] = "active" /\ TargetOf(p) = TargetOf(o)
  <2>1. owner' = [owner EXCEPT ![TargetOf(o)] = NoAgent]
    BY <1>2 DEF ForgetTarget
  <2> QED
    BY <2>1, TargetType DEF TypeOK
<1> QED
  BY <1>1, <1>2

LEMMA OrphanStep ==
  TypeOK /\ LeaseInv' /\ NoOrphanedTarget /\ [FenceNext]_fenceVars => NoOrphanedTarget'
<1> SUFFICES ASSUME TypeOK, LeaseInv', NoOrphanedTarget, [FenceNext]_fenceVars,
                    NEW t \in Targets, owner'[t] # NoAgent
             PROVE  \E p \in Ops : TargetOf(p) = t /\ tx'[p] = "open"
  BY DEF NoOrphanedTarget, Targets, TargetOf
<1>0. owner[t] # NoAgent => \E p \in Ops : TargetOf(p) = t /\ tx[p] = "open"
  BY DEF NoOrphanedTarget
<1>1. CASE Quiet
  BY <1>0, <1>1, ForgetKeeps DEF Quiet
<1>2. ASSUME NEW o \in Ops, NEW e, NEW r, BeginGranted(o, e, r)
      PROVE  \E p \in Ops : TargetOf(p) = t /\ tx'[p] = "open"
  <2>1. t # TargetOf(o) => owner[t] # NoAgent
    BY <1>2 DEF BeginGranted, TypeOK
  <2> QED
    BY <1>0, <1>2, <2>1, GrantLeases
<1>3. ASSUME NEW o \in Ops, NEW fault, CommitApplied(o, fault) \/ Ends(o)
      PROVE  \E p \in Ops : TargetOf(p) = t /\ tx'[p] = "open"
  <2>1. ForgetTarget(o) /\ \A p \in Ops \ {o} : tx'[p] = tx[p]
    BY <1>3, CommitRow DEF Ends
  <2> QED
    BY <1>0, <2>1, ForgetKeeps
<1>4. ASSUME NEW s \in Surfaces, NEW fault, ObserveReconciles(s, fault)
      PROVE  \E p \in Ops : TargetOf(p) = t /\ tx'[p] = "open"
  BY <1>0, <1>4 DEF ObserveReconciles
<1>5. CASE Restart \/ RestartUnreadable
  BY <1>5 DEF Restart, RestartUnreadable, EmptyMemory
<1> QED
  BY <1>1, <1>2, <1>3, <1>4, <1>5, StepKinds

----------------------------------------------------------------------------
(* The theorems *)

LEMMA InitInv == FenceInit => FenceInv
<1> SUFFICES ASSUME FenceInit PROVE FenceInv
  OBVIOUS
<1> USE DEF FenceInit
<1>1. \A o \in Ops : sched[o] = "none" /\ tx[o] = "none" /\ receipt[o] = "none"
  OBVIOUS
<1>2. \A t \in Targets : owner[t] = NoAgent
  OBVIOUS
<1> QED
  BY <1>1, <1>2, TypeInit
  DEF FenceInv, LeaseInv, RowsInv, Unsettled, PinInv, BaseInv, EpochCoversReceipts,
      DistinctCommittedEpochs, NoOrphanedTarget

\* The conjuncts of FenceInv support each other: every step preserves them
\* together.
LEMMA InvStep == FenceInv /\ [FenceNext]_fenceVars => FenceInv'
<1>1. FenceInv /\ [FenceNext]_fenceVars => TypeOK'
  BY TypeStep DEF FenceInv
<1> QED
  BY <1>1, LeaseStep, RowsStep, PinStep, BaseStep, CoversStep, DistinctStep, OrphanStep
  DEF FenceInv

\* The inductive invariant holds in every behaviour of the fence.
THEOREM FenceInvariant == FenceSpec => []FenceInv
  BY InitInv, InvStep, PTL DEF FenceSpec

\* However the clock, the store and the callers of the fence behave, what is in
\* flight has an open row and no two operations in flight overlap.
THEOREM FenceExcludes == FenceSpec => []ExclusiveInFlight
<1>1. FenceInv => ExclusiveInFlight
  BY DEF FenceInv, RowsInv, TypeOK, ExclusiveInFlight
<1> QED
  BY <1>1, FenceInvariant, PTL

\* No revision moves under a held lease, so the scheduler's "stale" commit is
\* unreachable through the fence.
THEOREM LeasesPin == FenceSpec => []LeasePinsRevisions
<1>1. FenceInv => LeasePinsRevisions
  BY DEF FenceInv, LeaseInv, PinInv, LeasePinsRevisions
<1> QED
  BY <1>1, FenceInvariant, PTL

\* Across any number of restarts and failed writes, the epoch a broker works
\* with is at least that of every receipt of the surface.
THEOREM EpochsCoverReceipts == FenceSpec => []EpochCoversReceipts
<1>1. FenceInv => EpochCoversReceipts
  BY DEF FenceInv
<1> QED
  BY <1>1, FenceInvariant, PTL

\* Two committed surface-wide mutations never share an epoch, restarts
\* included.
THEOREM EpochsDistinct == FenceSpec => []DistinctCommittedEpochs
<1>1. FenceInv => DistinctCommittedEpochs
  BY DEF FenceInv
<1> QED
  BY <1>1, FenceInvariant, PTL

\* No binding outlives the transactions on its target.
THEOREM NoTargetOrphaned == FenceSpec => []NoOrphanedTarget
<1>1. FenceInv => NoOrphanedTarget
  BY DEF FenceInv
<1> QED
  BY <1>1, FenceInvariant, PTL

\* No step writes a settled row.
LEMMA SettledRowsStay ==
  ASSUME TypeOK, LeaseInv, [FenceNext]_fenceVars
  PROVE  \A o \in Ops : receipt[o] # "none" /\ ~Unsettled(o) =>
           receipt'[o] = receipt[o] /\ receiptRev'[o] = receiptRev[o]
<1> DEFINE Final == \A o \in Ops : receipt[o] # "none" /\ ~Unsettled(o) =>
                      receipt'[o] = receipt[o] /\ receiptRev'[o] = receiptRev[o]
<1>1. CASE Quiet
  BY <1>1 DEF Quiet
<1>2. ASSUME NEW o \in Ops, NEW e, NEW r, BeginGranted(o, e, r) PROVE Final
  BY <1>2, GrantLeases
<1>3. ASSUME NEW o \in Ops, NEW fault, CommitApplied(o, fault) PROVE Final
  BY <1>3, CommitRow DEF Unsettled
<1>4. ASSUME NEW o \in Ops, Ends(o) PROVE Final
  BY <1>4 DEF Ends, RowSettled, Unsettled
<1>5. ASSUME NEW s \in Surfaces, NEW fault, ObserveReconciles(s, fault) PROVE Final
  BY <1>5 DEF ObserveReconciles, receiptVars
<1>6. CASE Restart \/ RestartUnreadable
  BY <1>6 DEF Restart, RestartUnreadable, receiptVars
<1> QED
  BY <1>1, <1>2, <1>3, <1>4, <1>5, <1>6, StepKinds

\* No step rewrites or removes a settled row: not a late return, not a second
\* settlement, not a reconciliation of its surface, not a restart.
THEOREM SettledStays == FenceSpec => SettledIsFinal
<1> DEFINE Final == \A o \in Ops : receipt[o] # "none" /\ ~Unsettled(o) =>
                      receipt'[o] = receipt[o] /\ receiptRev'[o] = receiptRev[o]
<1>1. FenceInv /\ [FenceNext]_fenceVars => [Final]_fenceVars
  BY SettledRowsStay DEF FenceInv
<1> QED
  BY <1>1, FenceInvariant, PTL DEF FenceSpec, SettledIsFinal

----------------------------------------------------------------------------
(* The composition runs the fence *)

\* A sweep alone is a read of the epochs, or nothing.
LEMMA SweepAlone ==
  ASSUME TypeOK, Sweep,
         UNCHANGED <<lease, base, revisionVars, owner, unresolved, inFlight,
                     uncertainAge, tx, storeError, receiptVars>>
  PROVE  [FenceNext]_fenceVars
<1>1. CASE Lapsed # {}
  BY <1>1 DEF ReadRevision, FenceNext
<1>2. CASE Lapsed = {}
  <2>1. sched' = sched
    BY <1>2 DEF Sweep, Swept, TypeOK
  <2> QED
    BY <2>1 DEF fenceVars, memoryVars, revisionVars, receiptVars
<1> QED
  BY <1>1, <1>2

\* A grant, or a claim the store refused, happens at the current revisions
\* only, so the fence's own next-state relation covers it.
LEMMA ScheduledBegins ==
  ASSUME TypeOK, NEW o \in Ops, NEW e, Schedulable(o, e, RevisionOfRegion(o)),
         \/ BeginUnclaimed(o, e, RevisionOfRegion(o))
         \/ BeginGranted(o, e, RevisionOfRegion(o))
  PROVE  FenceNext
<1>1. e = surfaceRev[SurfaceOf[o]]
  BY DEF Schedulable
<1>2. e \in Nat /\ RevisionOfRegion(o) \in Nat
  BY <1>1, ConstantsAssumption, TargetType DEF RevisionOfRegion, TypeOK
<1>3. /\ e \in PlannedRevisions(surfaceRev[SurfaceOf[o]])
      /\ RevisionOfRegion(o) \in PlannedRevisions(RevisionOfRegion(o))
  BY <1>1, <1>2 DEF PlannedRevisions
<1> QED
  BY <1>3 DEF FenceNext, BeginAny, Begin

\* Every step of the callers is a step of the fence, or leaves it alone.
LEMMA CallersStepFence == TypeOK /\ [Next]_vars => [FenceNext]_fenceVars
<1> SUFFICES ASSUME TypeOK, [Next]_vars PROVE [FenceNext]_fenceVars
  OBVIOUS
<1>1. ASSUME NEW o \in Ops, Plan(o) PROVE [FenceNext]_fenceVars
  BY <1>1, SweepAlone DEF Plan
<1>2. ASSUME NEW o \in Ops, Request(o) PROVE [FenceNext]_fenceVars
  <2>1. CASE BeginRefused(o, Expected(o), RevisionOfRegion(o))
    BY <2>1, SweepAlone DEF BeginRefused
  <2>2. CASE BeginUnclaimed(o, Expected(o), RevisionOfRegion(o))
    BY <2>2, ScheduledBegins DEF BeginUnclaimed
  <2>3. CASE BeginUnreadable(o) \/ BeginRepeated(o)
    BY <2>3 DEF FenceNext, BeginAny
  <2> QED
    BY <1>2, <2>1, <2>2, <2>3 DEF Request
<1>3. ASSUME NEW o \in Ops, Granted(o) PROVE [FenceNext]_fenceVars
  BY <1>3, ScheduledBegins DEF Granted, BeginGranted
<1>4. ASSUME NEW o \in Ops, NotSent(o) \/ ResultApplied(o) \/ ResultError(o)
                              \/ ClosePending(o) \/ Heartbeat(o)
      PROVE  [FenceNext]_fenceVars
  BY <1>4 DEF NotSent, ResultApplied, ResultError, ClosePending, SettleUncertain,
              Heartbeat, FenceNext, TransactionCall
<1>5. ASSUME NEW s \in Surfaces, ReadReturns(s) PROVE [FenceNext]_fenceVars
  BY <1>5 DEF ReadReturns, FenceNext, Observe
<1>6. CASE Clock \/ Crash
  BY <1>6 DEF Clock, Crash, FenceNext
<1>7. ASSUME UNCHANGED fenceVars PROVE [FenceNext]_fenceVars
  BY <1>7
<1> QED
  BY <1>1, <1>2, <1>3, <1>4, <1>5, <1>6, <1>7
  DEF Next, vars, Send, Close, Capture, ReadFails

\* The composition keeps the fence's inductive invariant.
LEMMA CallersKeepFenceInv == FenceInv /\ [Next]_vars => FenceInv'
  BY CallersStepFence, InvStep DEF FenceInv

LEMMA CallersInit == Init => FenceInv
  BY InitInv DEF Init

\* The fence beneath its two callers behaves as the fence alone may: all its
\* invariants hold there.
THEOREM DispatchRunsFence == Spec => FenceSpec /\ []FenceInv
<1>1. Init => FenceInit
  BY DEF Init
<1>2. FenceInv /\ [Next]_vars => [FenceNext]_fenceVars
  BY CallersStepFence DEF FenceInv
<1> QED
  BY <1>1, <1>2, CallersInit, CallersKeepFenceInv, PTL DEF Spec, FenceSpec

----------------------------------------------------------------------------
(* The callers' invariant *)

\* Every send has a receipt, none is repeated, none precedes its grant.
SendInv ==
  \A o \in Ops :
    /\ sends[o] <= 1
    /\ call[o] = "granted" => sends[o] = 0 /\ receipt[o] # "none"
    /\ sends[o] > 0 => receipt[o] # "none"
    /\ o \in unknown => sends[o] > 0

\* What a caller waits for, before and after the send, is in flight unless an
\* observation dropped it.
GuardInv ==
  \A o \in Ops \ givenUp : call[o] \in {"granted", "sent"} => o \in inFlight

CallerTypeOK ==
  /\ call \in [Ops -> CallStatus]
  /\ closing \subseteq Surfaces
  /\ reading \subseteq Surfaces
  /\ stageClaim \subseteq StageOps
  /\ plan \in [Ops -> Nat \cup {NoPlan}]
  /\ sends \in [Ops -> Nat]
  /\ unknown \subseteq Ops
  /\ givenUp \subseteq Ops
  /\ overtaken \in [Ops -> SUBSET Ops]

CallerInv ==
  /\ CallerTypeOK
  /\ SendInv
  /\ GuardInv
  /\ UnknownOutcomeStaysFenced

----------------------------------------------------------------------------
(* Types *)

LEMMA OvertakeType ==
  ASSUME CallerTypeOK, NEW o \in Ops, Overtake(o)
  PROVE  overtaken' \in [Ops -> SUBSET Ops]
  BY DEF CallerTypeOK, Overtake

LEMMA SettleType ==
  ASSUME CallerTypeOK, NEW o \in Ops, SettleUncertain(o), closing' \subseteq Surfaces
  PROVE  CallerTypeOK'
<1>1. call' \in [Ops -> CallStatus]
  BY DEF SettleUncertain, CallerTypeOK, CallStatus
<1>2. overtaken' \in [Ops -> SUBSET Ops]
  BY OvertakeType DEF SettleUncertain, CallerTypeOK
<1> QED
  BY <1>1, <1>2 DEF SettleUncertain, CallerTypeOK

LEMMA CallerTypeStep == TypeOK /\ CallerTypeOK /\ [Next]_vars => CallerTypeOK'
<1> SUFFICES ASSUME TypeOK, CallerTypeOK, [Next]_vars PROVE CallerTypeOK'
  OBVIOUS
<1> USE DEF CallStatus
<1>1. ASSUME NEW o \in Ops, Plan(o) PROVE CallerTypeOK'
  <2>1. surfaceRev[SurfaceOf[o]] \in Nat
    BY ConstantsAssumption DEF TypeOK
  <2> QED
    BY <1>1, <2>1 DEF Plan, CallerTypeOK
<1>2. ASSUME NEW o \in Ops, Request(o) PROVE CallerTypeOK'
  BY <1>2 DEF Request, CallerTypeOK, callerVars, historyVars
<1>3. ASSUME NEW o \in Ops, Granted(o) PROVE CallerTypeOK'
  BY <1>3 DEF Granted, CallerTypeOK, historyVars
<1>4. ASSUME NEW o \in Ops, Send(o) PROVE CallerTypeOK'
  <2>1. sends' \in [Ops -> Nat] /\ call' \in [Ops -> CallStatus] /\ unknown' \subseteq Ops
    BY <1>4 DEF Send, CallerTypeOK
  <2> QED
    BY <1>4, <2>1 DEF Send, CallerTypeOK
<1>5. ASSUME NEW o \in Ops, NotSent(o) PROVE CallerTypeOK'
  BY <1>5 DEF NotSent, CallerTypeOK, historyVars
<1>6. ASSUME NEW o \in Ops, ResultApplied(o) PROVE CallerTypeOK'
  <2>1. overtaken' \in [Ops -> SUBSET Ops]
    BY <1>6, OvertakeType DEF ResultApplied, CallerTypeOK
  <2>2. unknown' \subseteq Ops
    BY <1>6 DEF ResultApplied, CallerTypeOK
  <2>3. call' \in [Ops -> CallStatus]
    BY <1>6 DEF ResultApplied, CallerTypeOK
  <2> QED
    BY <1>6, <2>1, <2>2, <2>3 DEF ResultApplied, CallerTypeOK
<1>7. ASSUME NEW o \in Ops, ResultError(o) PROVE CallerTypeOK'
  BY <1>7, SettleType DEF ResultError, CallerTypeOK
<1>8. ASSUME NEW o \in Ops, ClosePending(o) PROVE CallerTypeOK'
  BY <1>8, SettleType DEF ClosePending, CallerTypeOK
<1>9. ASSUME NEW o \in Ops, Heartbeat(o) PROVE CallerTypeOK'
  <2>1. overtaken' \in [Ops -> SUBSET Ops]
    BY <1>9, OvertakeType DEF Heartbeat, CallerTypeOK
  <2> QED
    BY <1>9, <2>1 DEF Heartbeat, CallerTypeOK, callerVars
<1>10. ASSUME NEW targets \in SUBSET Surfaces, Close(targets) PROVE CallerTypeOK'
  BY <1>10 DEF Close, CallerTypeOK, historyVars
<1>11. ASSUME NEW s \in Surfaces, Capture(s) \/ ReadFails(s) PROVE CallerTypeOK'
  BY <1>11 DEF Capture, ReadFails, CallerTypeOK
<1>12. ASSUME NEW s \in Surfaces, ReadReturns(s) PROVE CallerTypeOK'
  <2>1. unknown' \subseteq Ops /\ givenUp' \subseteq Ops
    BY <1>12 DEF ReadReturns, CallerTypeOK, InFlightOn, OpsOn
  <2>2. reading' \subseteq Surfaces
    BY <1>12 DEF ReadReturns, CallerTypeOK
  <2> QED
    BY <1>12, <2>1, <2>2 DEF ReadReturns, CallerTypeOK
<1>13. CASE Clock
  BY <1>13 DEF Clock, CallerTypeOK, callerVars, historyVars
<1>14. CASE Crash
  <2>1. call' \in [Ops -> CallStatus]
    BY <1>14 DEF Crash, CallerTypeOK
  <2>2. overtaken' \in [Ops -> SUBSET Ops]
    BY <1>14 DEF Crash, CallerTypeOK
  <2> QED
    BY <1>14, <2>1, <2>2 DEF Crash, CallerTypeOK
<1>15. CASE UNCHANGED vars
  BY <1>15 DEF vars, callerVars, historyVars, CallerTypeOK
<1> QED
  BY <1>1, <1>2, <1>3, <1>4, <1>5, <1>6, <1>7, <1>8, <1>9, <1>10, <1>11, <1>12,
     <1>13, <1>14, <1>15
  DEF Next

----------------------------------------------------------------------------
(* What a settlement does to the row and the guard of its operation *)

\* Settling as uncertain touches no other row and leaves this one unsettled
\* if it was.
LEMMA UncertainRow ==
  ASSUME TypeOK, NEW o \in Ops, NEW fault, Uncertain(o, fault)
  PROVE  /\ \A p \in Ops \ {o} : receipt'[p] = receipt[p]
         /\ receipt'[o] \in {receipt[o], "uncertain"}
<1>1. base[o].surface \in Nat /\ "uncertain" \in ReceiptStatus
  BY DEF TypeOK, Base, ReceiptStatus
<1>2. Persist(o, "uncertain", base[o].surface, fault)
  BY DEF Uncertain
<1> QED
  BY <1>1, <1>2, PersistRow

\* The rows after a caller's settlement or a lapse of its own operation.
OwnRowOnly(o) ==
  /\ \A p \in Ops \ {o} : receipt'[p] = receipt[p]
  /\ receipt'[o] \in {receipt[o], "uncertain"}
  /\ inFlight \ {o} \subseteq inFlight'

LEMMA SettleRow ==
  ASSUME TypeOK, NEW o \in Ops, SettleUncertain(o)
  PROVE  OwnRowOnly(o)
<1>1. ASSUME NEW fault, AbortUncertain(o, fault) PROVE OwnRowOnly(o)
  BY <1>1, UncertainRow DEF AbortUncertain, ReleaseInFlight, OwnRowOnly
<1>2. ASSUME LateReturn(o) PROVE OwnRowOnly(o)
  BY <1>2 DEF LateReturn, ReleaseInFlight, OwnRowOnly, receiptVars
<1> QED
  BY <1>1, <1>2 DEF SettleUncertain

LEMMA ResultRow ==
  ASSUME TypeOK, NEW o \in Ops, ResultApplied(o)
  PROVE  /\ \A p \in Ops \ {o} : receipt'[p] = receipt[p]
         /\ inFlight \ {o} \subseteq inFlight'
         /\ unknown' = unknown \ {o} \/ (unknown' = unknown /\ OwnRowOnly(o))
         /\ receipt[o] # "none" => receipt'[o] # "none"
<1>1. ASSUME NEW fault, CommitApplied(o, fault)
      PROVE  /\ \A p \in Ops \ {o} : receipt'[p] = receipt[p]
             /\ inFlight' = inFlight \ {o}
             /\ receipt'[o] \in {receipt[o], "committed"}
  BY <1>1, CommitRow
<1>2. ASSUME NEW fault, CommitTooLate(o, fault) PROVE OwnRowOnly(o)
  BY <1>2, UncertainRow DEF CommitTooLate, ReleaseInFlight, OwnRowOnly
<1>3. ASSUME LateReturn(o) PROVE OwnRowOnly(o)
  BY <1>3 DEF LateReturn, ReleaseInFlight, OwnRowOnly, receiptVars
<1> QED
  BY <1>1, <1>2, <1>3 DEF ResultApplied, OwnRowOnly

LEMMA HeartbeatRow ==
  ASSUME TypeOK, NEW o \in Ops, Heartbeat(o)
  PROVE  OwnRowOnly(o) /\ inFlight' = inFlight
<1>1. ASSUME HeartbeatRenews(o) PROVE OwnRowOnly(o) /\ inFlight' = inFlight
  BY <1>1 DEF HeartbeatRenews, OwnRowOnly, receiptVars
<1>2. ASSUME NEW fault, HeartbeatLapses(o, fault) PROVE OwnRowOnly(o) /\ inFlight' = inFlight
  BY <1>2, UncertainRow DEF HeartbeatLapses, KeepInFlight, OwnRowOnly
<1> QED
  BY <1>1, <1>2 DEF Heartbeat

\* A request that is not granted touches no row and no guard.
LEMMA RequestKeeps ==
  ASSUME NEW o \in Ops, Request(o)
  PROVE  UNCHANGED <<receipt, inFlight, call, sends, unknown, givenUp>>
  BY DEF Request, BeginRefused, BeginUnclaimed, BeginUnreadable, BeginRepeated,
         callerVars, historyVars, receiptVars

\* A read that returns settles rows together with what is unknown of its
\* surface, and gives up what it drops from the guard.
LEMMA ReadRows ==
  ASSUME TypeOK, NEW s \in Surfaces, ReadReturns(s)
  PROVE  /\ \A p \in Ops : receipt'[p] = receipt[p]
                             \/ (p \in OpsOn(s) /\ receipt'[p] = "reconciled")
         /\ \A p \in Ops : receipt'[p] # receipt[p] => unknown' = unknown \ OpsOn(s)
         /\ unknown' \in {unknown, unknown \ OpsOn(s)}
         /\ givenUp \subseteq givenUp' /\ givenUp' \subseteq givenUp \cup OpsOn(s)
         /\ inFlight \ givenUp' \subseteq inFlight'
         /\ UNCHANGED <<call, sends>>
<1>1. ASSUME ObserveKept(s)
      PROVE  UNCHANGED <<receipt, inFlight>>
  BY <1>1 DEF ObserveKept, receiptVars
<1>2. ASSUME GuardDropped(s) PROVE inFlight \ InFlightOn(s) \subseteq inFlight'
  BY <1>2 DEF GuardDropped, InFlightOn
<1>3. ASSUME ObserveUnderLease(s)
      PROVE  receipt' = receipt /\ inFlight \ InFlightOn(s) \subseteq inFlight'
  BY <1>2, <1>3 DEF ObserveUnderLease, receiptVars
<1>4. ASSUME NEW fault, ObserveReconciles(s, fault)
      PROVE  /\ inFlight \ InFlightOn(s) \subseteq inFlight'
             /\ fault => receipt' = receipt
             /\ \A p \in Ops : receipt'[p] = receipt[p]
                                 \/ (p \in OpsOn(s) /\ receipt'[p] = "reconciled")
  BY <1>2, <1>4 DEF ObserveReconciles, receiptVars
<1>5. InFlightOn(s) \subseteq OpsOn(s)
  BY DEF InFlightOn
<1>6. CASE ObserveKept(s) /\ UNCHANGED <<unknown, givenUp>>
  BY <1>1, <1>6 DEF ReadReturns
<1>7. CASE ObserveUnderLease(s) /\ givenUp' = givenUp \cup InFlightOn(s) /\ UNCHANGED unknown
  BY <1>3, <1>5, <1>7 DEF ReadReturns
<1>8. ASSUME NEW fault \in StoreFaults, ObserveReconciles(s, fault),
             unknown' = IF fault THEN unknown ELSE unknown \ OpsOn(s),
             givenUp' = givenUp \cup InFlightOn(s)
      PROVE  /\ \A p \in Ops : receipt'[p] = receipt[p]
                                 \/ (p \in OpsOn(s) /\ receipt'[p] = "reconciled")
             /\ \A p \in Ops : receipt'[p] # receipt[p] => unknown' = unknown \ OpsOn(s)
             /\ unknown' \in {unknown, unknown \ OpsOn(s)}
             /\ givenUp \subseteq givenUp' /\ givenUp' \subseteq givenUp \cup OpsOn(s)
             /\ inFlight \ givenUp' \subseteq inFlight'
  BY <1>4, <1>5, <1>8
<1> QED
  BY <1>6, <1>7, <1>8 DEF ReadReturns

----------------------------------------------------------------------------
(* The invariant is inductive *)

\* Most steps keep every row, every guard and every history.
LEMMA KeptCallers ==
  ASSUME CallerInv, CallerTypeOK',
         UNCHANGED <<receipt, inFlight, call, sends, unknown, givenUp>>
  PROVE  CallerInv'
  BY DEF CallerInv, SendInv, GuardInv, UnknownOutcomeStaysFenced, Unsettled

\* A caller that settles its own operation, or whose lease lapses, keeps the
\* invariant of all the others.
LEMMA OwnRowCallers ==
  ASSUME CallerInv, CallerTypeOK', NEW o \in Ops, OwnRowOnly(o),
         inFlight' = inFlight \/ call'[o] = "idle",
         \A p \in Ops \ {o} : call'[p] = call[p],
         call'[o] \in {call[o], "idle"},
         UNCHANGED <<sends, unknown, givenUp>>
  PROVE  CallerInv'
<1>1. SendInv' /\ UnknownOutcomeStaysFenced'
  BY DEF CallerInv, CallerTypeOK, SendInv, UnknownOutcomeStaysFenced, OwnRowOnly, Unsettled
<1>2. GuardInv'
  BY DEF CallerInv, GuardInv, OwnRowOnly
<1> QED
  BY <1>1, <1>2 DEF CallerInv

LEMMA CallerStep == FenceInv /\ CallerInv /\ [Next]_vars => CallerInv'
<1> SUFFICES ASSUME FenceInv, CallerInv, [Next]_vars PROVE CallerInv'
  OBVIOUS
<1>0. TypeOK /\ CallerTypeOK /\ CallerTypeOK'
  BY CallerTypeStep DEF FenceInv, CallerInv
<1>1. ASSUME NEW o \in Ops, Plan(o) PROVE CallerInv'
  BY <1>0, <1>1, KeptCallers DEF Plan, receiptVars
<1>2. ASSUME NEW o \in Ops, Request(o) PROVE CallerInv'
  BY <1>0, <1>2, RequestKeeps, KeptCallers
<1>3. ASSUME NEW o \in Ops, Granted(o) PROVE CallerInv'
  <2>1. /\ receipt[o] = "none" /\ receipt'[o] = "claimed"
        /\ \A p \in Ops \ {o} : receipt'[p] = receipt[p]
        /\ inFlight' = inFlight \cup {o}
    BY <1>0, <1>3, GrantLeases DEF Granted, BeginGranted
  <2>2. /\ call' = [call EXCEPT ![o] = "granted"]
        /\ UNCHANGED <<sends, unknown, givenUp>>
    BY <1>3 DEF Granted, historyVars
  <2>3. sends[o] = 0
    BY <1>0, <2>1 DEF CallerInv, SendInv, CallerTypeOK
  <2>4. SendInv' /\ UnknownOutcomeStaysFenced'
    BY <1>0, <2>1, <2>2, <2>3
    DEF CallerInv, SendInv, UnknownOutcomeStaysFenced, Unsettled, CallerTypeOK
  <2>5. GuardInv'
    BY <1>0, <2>1, <2>2 DEF CallerInv, GuardInv, CallerTypeOK
  <2> QED
    BY <1>0, <2>4, <2>5 DEF CallerInv
<1>4. ASSUME NEW o \in Ops, Send(o) PROVE CallerInv'
  <2>1. /\ call' = [call EXCEPT ![o] = "sent"]
        /\ sends' = [sends EXCEPT ![o] = @ + 1]
        /\ unknown' = unknown \cup {o}
        /\ UNCHANGED <<receipt, inFlight, givenUp>>
    BY <1>4 DEF Send, fenceVars, memoryVars
  <2>2. call[o] = "granted" /\ sends[o] = 0 /\ receipt[o] # "none"
    BY <1>4 DEF Send, CallerInv, SendInv
  <2>3. o \notin givenUp => Unsettled(o) /\ o \in inFlight
    BY <2>2 DEF CallerInv, GuardInv, FenceInv, RowsInv
  <2>4. SendInv'
    BY <1>0, <2>1, <2>2 DEF CallerInv, SendInv, CallerTypeOK
  <2>5. GuardInv' /\ UnknownOutcomeStaysFenced'
    BY <1>0, <2>1, <2>2, <2>3
    DEF CallerInv, GuardInv, UnknownOutcomeStaysFenced, Unsettled, CallerTypeOK
  <2> QED
    BY <1>0, <2>4, <2>5 DEF CallerInv
<1>5. ASSUME NEW o \in Ops, NotSent(o) PROVE CallerInv'
  <2>1. /\ call' = [call EXCEPT ![o] = "idle"]
        /\ UNCHANGED <<sends, unknown, givenUp>>
    BY <1>5 DEF NotSent, historyVars
  <2>2. call[o] = "granted" /\ sends[o] = 0 /\ o \notin unknown
    BY <1>5 DEF NotSent, CallerInv, SendInv
  <2>3. /\ \A p \in Ops \ {o} : receipt'[p] = receipt[p]
        /\ inFlight \ {o} \subseteq inFlight'
    <3>1. ASSUME NEW fault, Release(o, fault) PROVE <2>3!1 /\ <2>3!2
      BY <1>0, <3>1 DEF Release, ReleaseInFlight, TypeOK
    <3>2. ASSUME UNCHANGED fenceVars PROVE <2>3!1 /\ <2>3!2
      BY <3>2 DEF fenceVars, memoryVars
    <3> QED
      BY <1>5, <3>1, <3>2 DEF NotSent
  <2>4. SendInv' /\ UnknownOutcomeStaysFenced'
    BY <1>0, <2>1, <2>2, <2>3
    DEF CallerInv, SendInv, UnknownOutcomeStaysFenced, Unsettled, CallerTypeOK
  <2>5. GuardInv'
    BY <1>0, <2>1, <2>3 DEF CallerInv, GuardInv, CallerTypeOK
  <2> QED
    BY <1>0, <2>4, <2>5 DEF CallerInv
<1>6. ASSUME NEW o \in Ops, ResultApplied(o) PROVE CallerInv'
  <2>1. /\ call' = [call EXCEPT ![o] = "idle"]
        /\ UNCHANGED <<sends, givenUp>>
    BY <1>6 DEF ResultApplied
  <2>2. /\ \A p \in Ops \ {o} : receipt'[p] = receipt[p]
        /\ inFlight \ {o} \subseteq inFlight'
        /\ unknown' = unknown \ {o} \/ (unknown' = unknown /\ OwnRowOnly(o))
        /\ receipt[o] # "none" => receipt'[o] # "none"
    BY <1>0, <1>6, ResultRow
  <2>3. SendInv'
    BY <1>0, <2>1, <2>2 DEF CallerInv, SendInv, CallerTypeOK
  <2>4. UnknownOutcomeStaysFenced'
    BY <2>1, <2>2 DEF CallerInv, UnknownOutcomeStaysFenced, Unsettled, OwnRowOnly, CallerTypeOK
  <2>5. GuardInv'
    BY <1>0, <2>1, <2>2 DEF CallerInv, GuardInv, CallerTypeOK
  <2> QED
    BY <1>0, <2>3, <2>4, <2>5 DEF CallerInv
<1>7. ASSUME NEW o \in Ops, ResultError(o) \/ ClosePending(o) PROVE CallerInv'
  <2>1. SettleUncertain(o)
    BY <1>7 DEF ResultError, ClosePending
  <2>2. /\ call' = [call EXCEPT ![o] = "idle"]
        /\ UNCHANGED <<sends, unknown, givenUp>>
    BY <2>1 DEF SettleUncertain
  <2> QED
    BY <1>0, <2>1, <2>2, SettleRow, OwnRowCallers DEF CallerTypeOK
<1>8. ASSUME NEW o \in Ops, Heartbeat(o) PROVE CallerInv'
  <2>1. OwnRowOnly(o) /\ inFlight' = inFlight
    BY <1>0, <1>8, HeartbeatRow
  <2>2. UNCHANGED <<call, sends, unknown, givenUp>>
    BY <1>8 DEF Heartbeat, callerVars
  <2> QED
    BY <1>0, <2>1, <2>2, OwnRowCallers
<1>9. ASSUME NEW s \in Surfaces, ReadReturns(s) PROVE CallerInv'
  <2>1. /\ \A p \in Ops : receipt'[p] = receipt[p]
                            \/ (p \in OpsOn(s) /\ receipt'[p] = "reconciled")
        /\ \A p \in Ops : receipt'[p] # receipt[p] => unknown' = unknown \ OpsOn(s)
        /\ unknown' \in {unknown, unknown \ OpsOn(s)}
        /\ givenUp \subseteq givenUp'
        /\ inFlight \ givenUp' \subseteq inFlight'
        /\ UNCHANGED <<call, sends>>
    BY <1>0, <1>9, ReadRows
  <2>2. SendInv'
    BY <2>1 DEF CallerInv, SendInv
  <2>3. UnknownOutcomeStaysFenced'
    BY <1>0, <2>1 DEF CallerInv, UnknownOutcomeStaysFenced, Unsettled, CallerTypeOK
  <2>4. GuardInv'
    BY <2>1 DEF CallerInv, GuardInv
  <2> QED
    BY <1>0, <2>2, <2>3, <2>4 DEF CallerInv
<1>10. CASE Crash
  <2>1. /\ \A o \in Ops : call'[o] \notin {"granted", "sent"}
        /\ UNCHANGED <<receipt, sends, unknown, givenUp>>
    BY <1>10 DEF Crash, Restart, RestartUnreadable, receiptVars
  <2> QED
    BY <1>0, <2>1
    DEF CallerInv, SendInv, GuardInv, UnknownOutcomeStaysFenced, Unsettled
<1>11. ASSUME UNCHANGED <<receipt, inFlight, call, sends, unknown, givenUp>>
       PROVE  CallerInv'
  BY <1>0, <1>11, KeptCallers
<1> QED
  BY <1>1, <1>2, <1>3, <1>4, <1>5, <1>6, <1>7, <1>8, <1>9, <1>10, <1>11
  DEF Next, vars, fenceVars, memoryVars, callerVars, historyVars, receiptVars,
      Clock, Tick, Close, Capture, ReadFails

----------------------------------------------------------------------------
(* The theorems *)

LEMMA CallerInitInv == Init => CallerInv
<1> SUFFICES ASSUME Init PROVE CallerInv
  OBVIOUS
<1>1. CallerTypeOK
  BY DEF Init, CallerTypeOK, CallStatus
<1>2. SendInv /\ GuardInv /\ UnknownOutcomeStaysFenced
  BY DEF Init, SendInv, GuardInv, UnknownOutcomeStaysFenced
<1> QED
  BY <1>1, <1>2 DEF CallerInv

\* The fence's invariant and the callers' hold together in every behaviour of
\* the composition.
THEOREM DispatchInvariant == Spec => [](FenceInv /\ CallerInv)
<1>1. Init => FenceInv /\ CallerInv
  BY CallersInit, CallerInitInv
<1>2. FenceInv /\ CallerInv /\ [Next]_vars => (FenceInv /\ CallerInv)'
  BY CallersKeepFenceInv, CallerStep
<1> QED
  BY <1>1, <1>2, PTL DEF Spec

\* Every variable of the composition keeps its shape.
THEOREM DispatchTypeCorrect == Spec => []DispatchTypeOK
<1>1. FenceInv /\ CallerInv => DispatchTypeOK
  BY DEF FenceInv, CallerInv, CallerTypeOK, DispatchTypeOK
<1> QED
  BY <1>1, DispatchInvariant, PTL

\* However often an operation is retried, and whatever is lost, lapses, fails
\* or crashes, its input is sent at most once.
THEOREM AtMostOneSend == Spec => []SentAtMostOnce
<1>1. CallerInv => SentAtMostOnce
  BY DEF CallerInv, SendInv, SentAtMostOnce
<1> QED
  BY <1>1, DispatchInvariant, PTL

\* A sent operation whose outcome nobody learnt keeps its open receipt until a
\* read settles or gives it up.
THEOREM UnknownStaysFenced == Spec => []UnknownOutcomeStaysFenced
<1>1. CallerInv => UnknownOutcomeStaysFenced
  BY DEF CallerInv
<1> QED
  BY <1>1, DispatchInvariant, PTL

\* The guard never forgets a caller that is still waiting.
THEOREM WaitingGuarded == Spec => []WaitingCallIsGuarded
<1>1. CallerInv => WaitingCallIsGuarded
  BY DEF CallerInv, GuardInv, WaitingCallIsGuarded
<1> QED
  BY <1>1, DispatchInvariant, PTL

\* The fence with its callers keeps the broker's promise about real input: one
\* send per operation, and none over an overlapping operation whose outcome is
\* unknown and that was not given up.
THEOREM DispatchImplements == Spec => ImplementsSurfaceInput
<1> USE DEF Input!inputVars
<1>1. Init => Input!InputInit
  BY DEF Init, Input!InputInit, InputSent
<1>2. FenceInv /\ CallerInv /\ [Next]_vars => [Input!InputNext]_(Input!inputVars)
  <2> SUFFICES ASSUME FenceInv, CallerInv, [Next]_vars
               PROVE  [Input!InputNext]_(Input!inputVars)
    OBVIOUS
  <2>0. ASSUME UNCHANGED <<sends, unknown, givenUp>>
        PROVE  [Input!InputNext]_(Input!inputVars)
    BY <2>0 DEF InputSent
  <2>a. TypeOK /\ CallerTypeOK
    BY DEF FenceInv, CallerInv
  <2>1. ASSUME NEW o \in Ops, Send(o) PROVE Input!Send(o)
    <3>1. call[o] = "granted" /\ sends[o] = 0 /\ o \notin unknown
      BY <2>1 DEF Send, CallerInv, SendInv
    <3>2. ASSUME NEW p \in unknown \ givenUp, o \notin givenUp
          PROVE  ~Conflicts(p, o)
      <4>1. Unsettled(p) /\ p \in Ops
        BY <2>a, <3>2 DEF CallerInv, UnknownOutcomeStaysFenced, CallerTypeOK
      <4>2. Unsettled(o) /\ p # o
        BY <3>1, <3>2 DEF CallerInv, GuardInv, FenceInv, RowsInv
      <4> QED
        BY <4>1, <4>2 DEF FenceInv, RowsInv
    <3>3. InputSent' = InputSent \cup {o} /\ o \notin InputSent
      BY <2>a, <2>1, <3>1 DEF Send, InputSent, CallerTypeOK
    <3>4. unknown' = unknown \cup {o} /\ givenUp' = givenUp
      BY <2>1 DEF Send
    <3> QED
      BY <3>2, <3>3, <3>4 DEF Input!Send
  <2>2. ASSUME NEW o \in Ops, ResultApplied(o)
        PROVE  [Input!InputNext]_(Input!inputVars)
    <3>1. InputSent' = InputSent /\ givenUp' = givenUp
      BY <2>2 DEF ResultApplied, InputSent
    <3>2. unknown' = unknown \/ unknown' = unknown \ {o}
      BY <2>2 DEF ResultApplied
    <3>3. CASE o \in unknown /\ unknown' = unknown \ {o}
      BY <3>1, <3>3 DEF Input!Learn, Input!InputNext
    <3> QED
      BY <3>1, <3>2, <3>3
  <2>3. ASSUME NEW s \in Surfaces, ReadReturns(s) PROVE Input!Look(s)
    <3>1. /\ unknown' \in {unknown, unknown \ OpsOn(s)}
          /\ givenUp \subseteq givenUp' /\ givenUp' \subseteq givenUp \cup OpsOn(s)
          /\ InputSent' = InputSent
      BY <2>a, <2>3, ReadRows DEF InputSent
    <3>2. Input!OnSurface(s) = OpsOn(s)
      BY DEF Input!OnSurface, OpsOn
    <3> DEFINE given == givenUp' \cap OpsOn(s)
    <3>3. given \in SUBSET OpsOn(s) /\ givenUp' = givenUp \cup given
      BY <3>1
    <3> QED
      BY <3>1, <3>2, <3>3 DEF Input!Look, Input!GiveUp
  <2>4. ASSUME NEW o \in Ops, Request(o) PROVE UNCHANGED <<sends, unknown, givenUp>>
    BY <2>4, RequestKeeps
  <2>5. ASSUME NEW o \in Ops, Plan(o) \/ Granted(o) \/ NotSent(o) \/ ResultError(o)
                                \/ ClosePending(o) \/ Heartbeat(o)
        PROVE  UNCHANGED <<sends, unknown, givenUp>>
    BY <2>5 DEF Plan, Granted, NotSent, ResultError, ClosePending, SettleUncertain,
                Heartbeat, historyVars
  <2>6. CASE Clock \/ Crash \/ UNCHANGED vars
    BY <2>0, <2>6 DEF Clock, Crash, vars, historyVars
  <2>7. ASSUME NEW s \in Surfaces, Capture(s) \/ ReadFails(s)
        PROVE  UNCHANGED <<sends, unknown, givenUp>>
    BY <2>7 DEF Capture, ReadFails
  <2>8. ASSUME NEW targets, Close(targets) PROVE UNCHANGED <<sends, unknown, givenUp>>
    BY <2>8 DEF Close, historyVars
  <2> QED
    BY <2>0, <2>1, <2>2, <2>3, <2>4, <2>5, <2>6, <2>7, <2>8 DEF Next, Input!InputNext
<1> QED
  BY <1>1, <1>2, DispatchInvariant, PTL
  DEF Spec, ImplementsSurfaceInput, Input!InputSpec

----------------------------------------------------------------------------
(* Plans *)

\* Every epoch but the first has a row that is settled, so a restart finds it.
Settled(o) == receipt[o] # "none" /\ ~Unsettled(o)
EpochsDurable ==
  \A s \in Surfaces :
    surfaceRev[s] # 0 => \E o \in OpsOn(s) : Settled(o) /\ receiptRev[o] = surfaceRev[s]

\* An unresolved surface has an unsettled row that its own caller will not
\* withdraw: what an observation settles is there.
Undecided(o) ==
  Unsettled(o) /\ (tx[o] # "open" \/ sched[o] # "active" \/ call[o] # "granted")
RowsToSettle == \A s \in unresolved : \E o \in OpsOn(s) : Undecided(o)

StageClaims == \A o \in StageOps : call[o] = "granted" => o \in stageClaim

\* No plan is ahead of the epoch.
PlansBehind ==
  \A o \in Ops :
    IF plan[o] = NoPlan THEN overtaken[o] = {} ELSE plan[o] <= surfaceRev[SurfaceOf[o]]

\* What overtook a plan is over, and either its row still blocks the plan's
\* operation or the epoch has left the plan behind.
Seen(o, p) == Unsettled(p) \/ surfaceRev[SurfaceOf[o]] > plan[o]
OvertakenSeen ==
  \A o \in Ops : \A p \in overtaken[o] :
    /\ p # o /\ Conflicts(o, p) /\ receipt[p] # "none" /\ tx[p] # "open"
    /\ p \in EpochEvents(o) => Seen(o, p)

PlanInv == EpochsDurable /\ RowsToSettle /\ StageClaims /\ PlansBehind /\ OvertakenSeen

\* A step of the callers over a store that works.
Working == FenceInv /\ CallerInv /\ PlanInv /\ [Next]_vars /\ ~storeError /\ ~storeError'

LEMMA WorkingFence ==
  ASSUME Working
  PROVE  /\ TypeOK /\ TypeOK' /\ LeaseInv /\ RowsInv /\ EpochsCover
         /\ CallerTypeOK /\ CallerTypeOK'
         /\ [FenceNext]_fenceVars
         /\ \A o \in Ops : SurfaceOf[o] \in Surfaces
         /\ \A s \in Surfaces : surfaceRev[s] \in Nat /\ surfaceRev'[s] \in Nat
<1>1. FenceInv' /\ CallerInv'
  BY CallersKeepFenceInv, CallerStep DEF Working
<1>2. TypeOK /\ TypeOK' /\ CallerTypeOK /\ CallerTypeOK'
  BY <1>1 DEF Working, FenceInv, CallerInv
<1>3. EpochsCover
  BY CoversUnlessClosed DEF Working, FenceInv
<1>4. [FenceNext]_fenceVars
  BY <1>2, CallersStepFence DEF Working
<1>5. LeaseInv /\ RowsInv
  BY DEF Working, FenceInv
<1> QED
  BY <1>2, <1>3, <1>4, <1>5, ConstantsAssumption DEF TypeOK

\* While the store works, a settlement as uncertain leaves the row uncertain.
LEMMA UncertainRecorded ==
  ASSUME TypeOK, ~storeError, ~storeError', NEW o \in Ops, NEW fault, Uncertain(o, fault)
  PROVE  /\ receipt'[o] = "uncertain" /\ tx'[o] = "uncertain"
         /\ \A p \in Ops \ {o} : receipt'[p] = receipt[p] /\ tx'[p] = tx[p]
         /\ unresolved' = unresolved \cup {SurfaceOf[o]}
<1>1. Persist(o, "uncertain", base[o].surface, fault)
  BY DEF Uncertain
<1>2. receipt'[o] = "uncertain" /\ \A p \in Ops \ {o} : receipt'[p] = receipt[p]
  BY <1>1 DEF Persist, MayRecord, TypeOK, receiptVars
<1> QED
  BY <1>2 DEF Uncertain, TypeOK

\* A commit while the store works leaves its epoch in a committed row.
LEMMA CommitRecorded ==
  ASSUME TypeOK, LeaseInv, ~storeError, ~storeError', NEW o \in Ops, NEW fault,
         CommitApplied(o, fault)
  PROVE  receipt'[o] = "committed" /\ receiptRev'[o] = EpochAfterCommit(o)
<1>1. Persist(o, "committed", EpochAfterCommit(o), fault) /\ receipt[o] = "claimed"
  BY DEF CommitApplied, CommitSucceeds, LeaseInv
<1> QED
  BY <1>1 DEF Persist, MayRecord, TypeOK

\* A reconciliation while the store works leaves its epoch in the rows it
\* settles, and touches no other.
LEMMA ReconcileRecorded ==
  ASSUME TypeOK, ~storeError', NEW s \in Surfaces, NEW fault, ObserveReconciles(s, fault)
  PROVE  /\ s \in unresolved /\ unresolved' = unresolved \ {s}
         /\ surfaceRev' = [surfaceRev EXCEPT ![s] = @ + 1]
         /\ \A o \in Ops :
              IF o \in OpsOn(s) /\ Unsettled(o)
                THEN receipt'[o] = "reconciled" /\ receiptRev'[o] = surfaceRev[s] + 1
                ELSE receipt'[o] = receipt[o] /\ receiptRev'[o] = receiptRev[o]
  BY DEF ObserveReconciles, GuardDropped, TypeOK

\* A restart finds every epoch again.
LEMMA RestartKeepsEpochs ==
  ASSUME Working, Restart
  PROVE  \A s \in Surfaces : surfaceRev'[s] = surfaceRev[s]
<1>0. /\ TypeOK /\ EpochsCover
      /\ \A s \in Surfaces : surfaceRev[s] \in Nat
      /\ \A o \in Ops : receiptRev[o] \in Nat
  BY WorkingFence DEF TypeOK
<1> SUFFICES ASSUME NEW s \in Surfaces PROVE surfaceRev'[s] = surfaceRev[s]
  OBVIOUS
<1>1. PICK r \in RestoredEpochs : surfaceRev' = r
  BY DEF Restart
<1>2. /\ \A o \in OpsOn(s) : receipt[o] # "none" => receiptRev[o] <= r[s]
      /\ r[s] = 0 \/ \E o \in OpsOn(s) : receipt[o] # "none" /\ receiptRev[o] = r[s]
      /\ r[s] \in Nat
  BY <1>0, <1>1 DEF RestoredEpochs
<1>3. r[s] <= surfaceRev[s]
  BY <1>0, <1>2 DEF EpochsCover, OpsOn
<1>4. surfaceRev[s] <= r[s]
  BY <1>0, <1>2 DEF Working, PlanInv, EpochsDurable, Settled, OpsOn
<1> QED
  BY <1>0, <1>1, <1>2, <1>3, <1>4

\* While the store works no epoch moves back, restarts included.
LEMMA EpochsNeverBack ==
  ASSUME Working
  PROVE  \A s \in Surfaces : surfaceRev[s] <= surfaceRev'[s]
<1>0. /\ TypeOK /\ [FenceNext]_fenceVars
      /\ \A s \in Surfaces : surfaceRev[s] \in Nat /\ surfaceRev'[s] \in Nat
  BY WorkingFence
<1>1. CASE Quiet
  BY <1>0, <1>1 DEF Quiet
<1>2. ASSUME NEW o \in Ops, (\E e, r : BeginGranted(o, e, r)) \/ Ends(o)
      PROVE  \A s \in Surfaces : surfaceRev[s] <= surfaceRev'[s]
  BY <1>0, <1>2 DEF BeginGranted, Ends, revisionVars
<1>3. ASSUME \/ \E o \in Ops : \E fault : CommitApplied(o, fault)
             \/ \E t \in Surfaces : \E fault : ObserveReconciles(t, fault)
      PROVE  \A s \in Surfaces : surfaceRev[s] <= surfaceRev'[s]
  BY <1>0, <1>3, EpochsGrow
<1>4. CASE Restart
  BY <1>0, <1>4, RestartKeepsEpochs
<1>5. CASE RestartUnreadable
  BY <1>5 DEF RestartUnreadable, Working
<1> QED
  BY <1>0, <1>1, <1>2, <1>3, <1>4, <1>5, StepKinds

LEMMA DurableStep == ASSUME Working PROVE EpochsDurable'
<1>0. /\ TypeOK /\ LeaseInv /\ [FenceNext]_fenceVars /\ ~storeError /\ ~storeError'
      /\ EpochsDurable /\ RowsToSettle
      /\ \A o \in Ops : SurfaceOf[o] \in Surfaces
      /\ \A s \in Surfaces : surfaceRev[s] \in Nat /\ surfaceRev'[s] \in Nat
  BY WorkingFence DEF Working, PlanInv
<1>1. \A o \in Ops : Settled(o) => Settled(o)' /\ receiptRev'[o] = receiptRev[o]
  BY <1>0, SettledRowsStay DEF Settled, Unsettled
<1>2. ASSUME NEW s \in Surfaces, surfaceRev'[s] = surfaceRev[s], surfaceRev'[s] # 0
      PROVE  \E o \in OpsOn(s) : Settled(o)' /\ receiptRev'[o] = surfaceRev'[s]
  BY <1>0, <1>1, <1>2 DEF EpochsDurable, OpsOn
<1>3. ASSUME \A s \in Surfaces : surfaceRev'[s] = surfaceRev[s] PROVE EpochsDurable'
  BY <1>2, <1>3 DEF EpochsDurable, OpsOn
<1>4. CASE Quiet
  BY <1>3, <1>4 DEF Quiet
<1>5. ASSUME NEW o \in Ops, (\E e, r : BeginGranted(o, e, r)) \/ Ends(o)
      PROVE  EpochsDurable'
  BY <1>3, <1>5 DEF BeginGranted, Ends, revisionVars
<1>6. ASSUME NEW o \in Ops, NEW fault, CommitApplied(o, fault) PROVE EpochsDurable'
  <2>1. surfaceRev' = [surfaceRev EXCEPT ![SurfaceOf[o]] = EpochAfterCommit(o)]
    BY <1>6 DEF CommitApplied
  <2>2. Settled(o)' /\ receiptRev'[o] = EpochAfterCommit(o)
    BY <1>0, <1>6, CommitRecorded DEF Settled, Unsettled
  <2>3. ASSUME NEW s \in Surfaces, surfaceRev'[s] # 0
        PROVE  \E p \in OpsOn(s) : Settled(p)' /\ receiptRev'[p] = surfaceRev'[s]
    <3>1. CASE s = SurfaceOf[o]
      <4>1. surfaceRev'[s] = EpochAfterCommit(o) /\ o \in OpsOn(s)
        BY <1>0, <1>6, <3>1, EpochsTyped DEF OpsOn
      <4> QED
        BY <2>2, <4>1
    <3>2. CASE s # SurfaceOf[o]
      <4>1. surfaceRev'[s] = surfaceRev[s]
        BY <2>1, <3>2 DEF TypeOK
      <4> QED
        BY <1>2, <2>3, <4>1
    <3> QED
      BY <3>1, <3>2
  <2> QED
    BY <2>3 DEF EpochsDurable, OpsOn
<1>7. ASSUME NEW t \in Surfaces, NEW fault, ObserveReconciles(t, fault) PROVE EpochsDurable'
  <2>1. /\ t \in unresolved
        /\ surfaceRev' = [surfaceRev EXCEPT ![t] = @ + 1]
        /\ \A o \in Ops : o \in OpsOn(t) /\ Unsettled(o) =>
             receipt'[o] = "reconciled" /\ receiptRev'[o] = surfaceRev[t] + 1
    BY <1>0, <1>7, ReconcileRecorded
  <2>2. PICK o \in OpsOn(t) : Unsettled(o)
    BY <1>0, <2>1 DEF RowsToSettle, Undecided
  <2>3. o \in Ops /\ Settled(o)' /\ receiptRev'[o] = surfaceRev'[t]
    BY <1>0, <2>1, <2>2 DEF OpsOn, Settled, Unsettled, TypeOK
  <2>4. \A s \in Surfaces \ {t} : surfaceRev'[s] = surfaceRev[s]
    BY <1>0, <2>1 DEF TypeOK
  <2> QED
    BY <1>2, <2>2, <2>3, <2>4 DEF EpochsDurable, OpsOn
<1>8. CASE Restart
  BY <1>3, <1>8, RestartKeepsEpochs
<1>9. CASE RestartUnreadable
  BY <1>0, <1>9 DEF RestartUnreadable
<1> QED
  BY <1>0, <1>4, <1>5, <1>6, <1>7, <1>8, <1>9, StepKinds

\* What a caller may still withdraw, and what it may not.
LEMMA UndecidedKept ==
  ASSUME NEW o \in Ops, Undecided(o), receipt'[o] = receipt[o],
         tx'[o] = "open" => tx[o] = "open",
         sched'[o] = "active" => sched[o] = "active",
         call'[o] = "granted" => call[o] = "granted"
  PROVE  Undecided(o)'
  BY DEF Undecided, Unsettled

\* Where no surface becomes unresolved and no row changes, neither caller nor
\* transaction turns back.
LEMMA RowsToSettleKept ==
  ASSUME RowsToSettle, unresolved' \subseteq unresolved, NoNewLease, receipt' = receipt,
         \A o \in Ops : /\ tx'[o] = "open" => tx[o] = "open"
                        /\ call'[o] = "granted" => call[o] = "granted"
  PROVE  RowsToSettle'
  BY UndecidedKept DEF RowsToSettle, OpsOn, NoNewLease

\* A surface that is closed for its own operation's uncertain end.
LEMMA UncertainRowsToSettle ==
  ASSUME Working, NEW o \in Ops, NEW fault, Uncertain(o, fault), NoNewLease,
         \A p \in Ops : call'[p] = "granted" => call[p] = "granted"
  PROVE  RowsToSettle'
<1>1. /\ receipt'[o] = "uncertain" /\ tx'[o] = "uncertain"
      /\ \A p \in Ops \ {o} : receipt'[p] = receipt[p] /\ tx'[p] = tx[p]
      /\ unresolved' = unresolved \cup {SurfaceOf[o]}
  BY WorkingFence, UncertainRecorded DEF Working
<1>2. Undecided(o)'
  BY <1>1 DEF Undecided, Unsettled
<1>3. \A p \in Ops \ {o} : Undecided(p) => Undecided(p)'
  BY <1>1, UndecidedKept DEF NoNewLease
<1> QED
  BY <1>1, <1>2, <1>3 DEF Working, PlanInv, RowsToSettle, OpsOn

LEMMA RowsToSettleStep == ASSUME Working PROVE RowsToSettle'
<1>0. /\ TypeOK /\ LeaseInv /\ RowsInv /\ CallerTypeOK /\ RowsToSettle /\ StageClaims
      /\ ~storeError /\ ~storeError' /\ [Next]_vars
  BY WorkingFence DEF Working, PlanInv
<1>1. ASSUME NEW o \in Ops, Plan(o) PROVE RowsToSettle'
  BY <1>0, <1>1, SweepTakesNone, RowsToSettleKept DEF Plan, receiptVars
<1>2. ASSUME NEW o \in Ops, Request(o) PROVE RowsToSettle'
  <2>1. call' = call /\ o \notin stageClaim /\ TurnFree
    BY <1>2 DEF Request, callerVars
  <2>2. CASE BeginRefused(o, Expected(o), RevisionOfRegion(o))
    BY <1>0, <2>1, <2>2, SweepTakesNone, RowsToSettleKept DEF BeginRefused, receiptVars
  <2>3. CASE BeginUnclaimed(o, Expected(o), RevisionOfRegion(o))
    <3>1. /\ NoNewLease /\ receipt' = receipt /\ tx' = tx
          /\ unresolved' = unresolved \/ (BlockedInStore(o) /\ unresolved' = unresolved \cup {SurfaceOf[o]})
          /\ Schedulable(o, Expected(o), RevisionOfRegion(o)) /\ sched' = Swept
      BY <1>0, <2>3, SweepTakesNone DEF BeginUnclaimed, Sweep, receiptVars
    <3>2. \A p \in Ops : Undecided(p) => Undecided(p)'
      BY <2>1, <3>1, UndecidedKept DEF NoNewLease
    <3>3. ASSUME NEW p \in Ops, Unsettled(p), StoreBlocks(p, o) PROVE Undecided(p)'
      <4>1. Conflicts(p, o)
        BY <3>3 DEF StoreBlocks, Conflicts, TargetOf
      <4>2. sched'[p] # "active"
        BY <3>1, <4>1 DEF Schedulable
      <4> QED
        BY <3>1, <3>3, <4>2 DEF Undecided, Unsettled
    <3> QED
      BY <1>0, <3>1, <3>2, <3>3 DEF BlockedInStore, StoreBlocks, RowsToSettle, OpsOn
  <2>4. CASE BeginUnreadable(o)
    BY <1>0, <2>4 DEF BeginUnreadable
  <2>5. CASE BeginRepeated(o)
    <3>1. /\ NoNewLease /\ receipt' = receipt /\ tx' = tx
          /\ unresolved' = unresolved \/ (Unsettled(o) /\ unresolved' = unresolved \cup {SurfaceOf[o]})
      BY <1>0, <2>5, SweepTakesNone DEF BeginRepeated, receiptVars
    <3>2. call[o] # "granted"
      BY <1>0, <2>1 DEF StageClaims, TurnFree, StageOps
    <3>3. \A p \in Ops : Undecided(p) => Undecided(p)'
      BY <2>1, <3>1, UndecidedKept DEF NoNewLease
    <3>4. Unsettled(o) => Undecided(o)'
      BY <2>1, <3>1, <3>2 DEF Undecided, Unsettled
    <3> QED
      BY <1>0, <3>1, <3>3, <3>4 DEF RowsToSettle, OpsOn
  <2> QED
    BY <1>2, <2>2, <2>3, <2>4, <2>5 DEF Request
<1>3. ASSUME NEW o \in Ops, Granted(o) PROVE RowsToSettle'
  <2>1. /\ receipt[o] = "none" /\ unresolved' = unresolved
        /\ \A p \in Ops \ {o} : /\ sched'[p] = "active" => sched[p] = "active"
                                /\ tx'[p] = tx[p] /\ receipt'[p] = receipt[p]
    BY <1>0, <1>3, GrantLeases DEF Granted, BeginGranted
  <2>2. \A p \in Ops \ {o} : call'[p] = call[p]
    BY <1>0, <1>3 DEF Granted, CallerTypeOK
  <2>3. \A p \in Ops : Undecided(p) => Undecided(p)'
    BY <2>1, <2>2, UndecidedKept DEF Undecided, Unsettled
  <2> QED
    BY <1>0, <2>1, <2>3 DEF RowsToSettle, OpsOn
<1>4. ASSUME NEW o \in Ops, Send(o) PROVE RowsToSettle'
  BY <1>0, <1>4, RowsToSettleKept DEF Send, fenceVars, memoryVars, NoNewLease, CallerTypeOK
<1>5. ASSUME NEW o \in Ops, NotSent(o) PROVE RowsToSettle'
  <2>1. call[o] = "granted" /\ call' = [call EXCEPT ![o] = "idle"]
    BY <1>5 DEF NotSent
  <2>2. CASE UNCHANGED fenceVars
    BY <1>0, <2>1, <2>2, RowsToSettleKept DEF fenceVars, memoryVars, NoNewLease, CallerTypeOK
  <2>3. ASSUME NEW fault, Release(o, fault) PROVE RowsToSettle'
    <3>1. ~Undecided(o) /\ unresolved' = unresolved
      BY <2>1, <2>3 DEF Release, Undecided
    <3>2. \A p \in Ops \ {o} : /\ sched'[p] = sched[p] /\ tx'[p] = tx[p]
                               /\ receipt'[p] = receipt[p] /\ call'[p] = call[p]
      BY <1>0, <2>1, <2>3 DEF Release, EndLease, TypeOK, CallerTypeOK
    <3>3. \A p \in Ops : Undecided(p) => Undecided(p)'
      BY <3>1, <3>2, UndecidedKept
    <3> QED
      BY <1>0, <3>1, <3>3 DEF RowsToSettle, OpsOn
  <2> QED
    BY <1>5, <2>2, <2>3 DEF NotSent
<1>6. ASSUME NEW o \in Ops, NEW fault, CommitApplied(o, fault), UNCHANGED call
             \/ call' = [call EXCEPT ![o] = "idle"]
      PROVE  RowsToSettle'
  <2>1. /\ \A p \in Ops \ {o} : tx'[p] = tx[p] /\ receipt'[p] = receipt[p]
        /\ NoNewLease
    BY <1>0, <1>6, CommitRow
  <2>2. unresolved' = unresolved \ {SurfaceOf[o]}
    BY <1>6 DEF CommitApplied
  <2>3. \A p \in Ops \ {o} : call'[p] = call[p]
    BY <1>0, <1>6 DEF CallerTypeOK
  <2>4. \A p \in Ops \ {o} : Undecided(p) => Undecided(p)'
    BY <2>1, <2>3, UndecidedKept DEF NoNewLease
  <2> QED
    BY <1>0, <2>2, <2>4 DEF RowsToSettle, OpsOn
<1>7. ASSUME NEW o \in Ops, NEW fault,
             \/ CommitTooLate(o, fault) \/ AbortUncertain(o, fault) \/ HeartbeatLapses(o, fault),
             UNCHANGED call \/ call' = [call EXCEPT ![o] = "idle"]
      PROVE  RowsToSettle'
  <2>1. Uncertain(o, fault)
    BY <1>7 DEF CommitTooLate, AbortUncertain, HeartbeatLapses
  <2>2. CASE CommitTooLate(o, fault) \/ AbortUncertain(o, fault)
    BY <1>0, <2>2, EndTakesNone, <1>7, <2>1, UncertainRowsToSettle
    DEF CommitTooLate, AbortUncertain, CallerTypeOK
  <2>3. CASE HeartbeatLapses(o, fault)
    <3>1. NoNewLease
      BY <1>0, <2>3 DEF HeartbeatLapses, Swept, Lapsed, NoNewLease, TypeOK
    <3> QED
      BY <1>0, <1>7, <2>1, <3>1, UncertainRowsToSettle DEF CallerTypeOK
  <2> QED
    BY <1>7, <2>2, <2>3
<1>8. ASSUME NEW o \in Ops, LateReturn(o) \/ HeartbeatRenews(o),
             UNCHANGED call \/ call' = [call EXCEPT ![o] = "idle"]
      PROVE  RowsToSettle'
  BY <1>0, <1>8, RowsToSettleKept
  DEF LateReturn, HeartbeatRenews, NoNewLease, receiptVars, CallerTypeOK
<1>9. ASSUME NEW o \in Ops, ResultApplied(o) PROVE RowsToSettle'
  BY <1>6, <1>7, <1>8, <1>9 DEF ResultApplied
<1>10. ASSUME NEW o \in Ops, ResultError(o) \/ ClosePending(o) PROVE RowsToSettle'
  BY <1>7, <1>8, <1>10 DEF ResultError, ClosePending, SettleUncertain
<1>11. ASSUME NEW o \in Ops, Heartbeat(o) PROVE RowsToSettle'
  BY <1>7, <1>8, <1>11 DEF Heartbeat, callerVars
<1>12. ASSUME NEW s \in Surfaces, ReadReturns(s) PROVE RowsToSettle'
  <2>1. call' = call
    BY <1>12 DEF ReadReturns
  <2>2. CASE ObserveKept(s) \/ ObserveUnderLease(s)
    BY <1>0, <2>1, <2>2, SweepTakesNone, RowsToSettleKept
    DEF ObserveKept, ObserveUnderLease, receiptVars
  <2>3. ASSUME NEW fault, ObserveReconciles(s, fault) PROVE RowsToSettle'
    <3>1. /\ unresolved' = unresolved \ {s}
          /\ \A o \in Ops : o \notin OpsOn(s) => receipt'[o] = receipt[o]
      BY <1>0, <2>3, ReconcileRecorded
    <3>2. NoNewLease /\ tx' = tx
      BY <1>0, <2>3, SweepTakesNone DEF ObserveReconciles
    <3>3. \A o \in Ops : o \notin OpsOn(s) /\ Undecided(o) => Undecided(o)'
      BY <2>1, <3>1, <3>2, UndecidedKept DEF NoNewLease
    <3> QED
      BY <1>0, <3>1, <3>3 DEF RowsToSettle, OpsOn
  <2> QED
    BY <1>12, <2>2, <2>3 DEF ReadReturns
<1>13. CASE Crash
  <2>1. CASE Restart
    <3>1. /\ unresolved' = {SurfaceOf[o] : o \in {p \in Ops : Unsettled(p)}}
          /\ receipt' = receipt /\ \A o \in Ops : tx'[o] = "none"
      BY <2>1 DEF Restart, EmptyMemory, receiptVars
    <3> QED
      BY <3>1 DEF RowsToSettle, OpsOn, Undecided, Unsettled
  <2>2. CASE RestartUnreadable
    BY <1>0, <2>2 DEF RestartUnreadable
  <2> QED
    BY <1>13, <2>1, <2>2 DEF Crash
<1>14. ASSUME UNCHANGED <<sched, tx, unresolved, receipt, call>> PROVE RowsToSettle'
  BY <1>0, <1>14, RowsToSettleKept DEF NoNewLease
<1> QED
  BY <1>0, <1>1, <1>2, <1>3, <1>4, <1>5, <1>9, <1>10, <1>11, <1>12, <1>13, <1>14
  DEF Next, vars, fenceVars, memoryVars, callerVars, receiptVars, Clock, Tick, Close,
      Capture, ReadFails

LEMMA StageClaimsStep == ASSUME Working PROVE StageClaims'
<1>0. TypeOK /\ CallerTypeOK /\ StageClaims /\ [Next]_vars
  BY WorkingFence DEF Working, PlanInv
<1>1. ASSUME NEW o \in Ops, Granted(o) PROVE StageClaims'
  BY <1>0, <1>1 DEF Granted, StageClaims, StageOps, CallerTypeOK
<1>2. ASSUME NEW o \in Ops, NotSent(o) PROVE StageClaims'
  BY <1>0, <1>2 DEF NotSent, StageClaims, StageOps, CallerTypeOK
<1>3. ASSUME stageClaim' = stageClaim, \A o \in Ops : call'[o] = "granted" => call[o] = "granted"
      PROVE  StageClaims'
  BY <1>0, <1>3 DEF StageClaims, StageOps
<1>4. ASSUME NEW o \in Ops, Send(o) \/ ResultApplied(o) \/ ResultError(o) \/ ClosePending(o)
      PROVE  StageClaims'
  BY <1>0, <1>3, <1>4
  DEF Send, ResultApplied, ResultError, ClosePending, SettleUncertain, CallerTypeOK
<1>5. CASE Crash
  BY <1>0, <1>3, <1>5 DEF Crash
<1>6. ASSUME UNCHANGED <<call, stageClaim>> PROVE StageClaims'
  BY <1>3, <1>6
<1> QED
  BY <1>0, <1>1, <1>2, <1>4, <1>5, <1>6
  DEF Next, vars, callerVars, Plan, Request, Heartbeat, Close, Capture, ReadReturns,
      ReadFails, Clock

\* A row whose transaction is over stays as it is, or is reconciled under a
\* later epoch.
LEMMA EndedRowsStay ==
  ASSUME Working, NEW p \in Ops, receipt[p] # "none", tx[p] # "open"
  PROVE  /\ receipt'[p] # "none" /\ tx'[p] # "open"
         /\ \/ receipt'[p] = receipt[p]
            \/ /\ receipt[p] # "committed" /\ receipt'[p] = "reconciled"
               /\ surfaceRev'[SurfaceOf[p]] > surfaceRev[SurfaceOf[p]]
<1> DEFINE Stays ==
      /\ receipt'[p] # "none" /\ tx'[p] # "open"
      /\ \/ receipt'[p] = receipt[p]
         \/ /\ receipt[p] # "committed" /\ receipt'[p] = "reconciled"
            /\ surfaceRev'[SurfaceOf[p]] > surfaceRev[SurfaceOf[p]]
<1>0. /\ TypeOK /\ [FenceNext]_fenceVars /\ ~storeError /\ ~storeError'
      /\ SurfaceOf[p] \in Surfaces /\ surfaceRev[SurfaceOf[p]] \in Nat
  BY WorkingFence DEF Working
<1>1. CASE Quiet
  BY <1>1 DEF Quiet
<1>2. ASSUME NEW o \in Ops, NEW e, NEW r, BeginGranted(o, e, r) PROVE Stays
  BY <1>0, <1>2, GrantLeases
<1>3. ASSUME NEW o \in Ops, NEW fault, CommitApplied(o, fault) PROVE Stays
  BY <1>0, <1>3, CommitRow
<1>4. ASSUME NEW o \in Ops, Ends(o) PROVE Stays
  BY <1>4 DEF Ends, RowSettled
<1>5. ASSUME NEW s \in Surfaces, NEW fault, ObserveReconciles(s, fault) PROVE Stays
  <2>1. tx' = tx
    BY <1>5 DEF ObserveReconciles
  <2>2. CASE p \in OpsOn(s) /\ Unsettled(p)
    <3>1. receipt'[p] = "reconciled" /\ surfaceRev' = [surfaceRev EXCEPT ![s] = @ + 1]
      BY <1>0, <1>5, <2>2, ReconcileRecorded
    <3>2. surfaceRev'[SurfaceOf[p]] > surfaceRev[SurfaceOf[p]]
      BY <1>0, <2>2, <3>1 DEF OpsOn, TypeOK
    <3> QED
      BY <2>1, <2>2, <3>1, <3>2 DEF Unsettled
  <2>3. CASE ~(p \in OpsOn(s) /\ Unsettled(p))
    BY <1>0, <1>5, <2>1, <2>3, ReconcileRecorded
  <2> QED
    BY <2>2, <2>3
<1>6. CASE Restart
  BY <1>6 DEF Restart, EmptyMemory, receiptVars
<1>7. CASE RestartUnreadable
  BY <1>0, <1>7 DEF RestartUnreadable
<1> QED
  BY <1>0, <1>1, <1>2, <1>3, <1>4, <1>5, <1>6, <1>7, StepKinds

\* How the plans and what overtook them may change in a step: a new plan, or
\* an operation that ended and left its row or a new epoch.
Overtook(o, p) ==
  /\ plan[o] # NoPlan /\ p # o /\ Conflicts(o, p)
  /\ receipt'[p] # "none" /\ tx'[p] # "open"
  /\ \/ Unsettled(p)'
     \/ p \in givenUp'
     \/ RegionOf[p] # Whole /\ receipt'[p] = "committed"
     \/ surfaceRev'[SurfaceOf[o]] > surfaceRev[SurfaceOf[o]]
PlanMoves ==
  \A o \in Ops :
    \/ plan'[o] # NoPlan /\ plan'[o] <= surfaceRev'[SurfaceOf[o]] /\ overtaken'[o] = {}
    \/ plan'[o] = plan[o] /\ \A p \in overtaken'[o] \ overtaken[o] : Overtook(o, p)

\* Such a change keeps both parts of the invariant.
LEMMA PlansKept == ASSUME Working, PlanMoves PROVE PlansBehind' /\ OvertakenSeen'
<1>0. /\ CallerTypeOK /\ CallerTypeOK' /\ PlansBehind /\ OvertakenSeen
      /\ \A o \in Ops : SurfaceOf[o] \in Surfaces
      /\ \A s \in Surfaces : /\ surfaceRev[s] \in Nat /\ surfaceRev'[s] \in Nat
                             /\ surfaceRev[s] <= surfaceRev'[s]
      /\ NoPlan \notin Nat
  BY WorkingFence, EpochsNeverBack, DispatchAssumption DEF Working, PlanInv
<1>1. givenUp \subseteq givenUp'
  <2>1. ASSUME NEW s \in Surfaces, ReadReturns(s) PROVE givenUp \subseteq givenUp'
    BY <2>1 DEF ReadReturns
  <2>2. ASSUME UNCHANGED givenUp PROVE givenUp \subseteq givenUp'
    BY <2>2
  <2> QED
    BY <2>1, <2>2
    DEF Working, Next, vars, historyVars, Plan, Request, Granted, Send, NotSent, ResultApplied,
        ResultError, ClosePending, SettleUncertain, Heartbeat, Close, Capture, ReadFails,
        Clock, Crash
<1>2. PlansBehind'
  <2> SUFFICES ASSUME NEW o \in Ops
               PROVE  IF plan'[o] = NoPlan THEN overtaken'[o] = {}
                      ELSE plan'[o] <= surfaceRev'[SurfaceOf[o]]
    BY DEF PlansBehind
  <2>1. CASE plan'[o] = NoPlan
    BY <1>0, <2>1 DEF PlanMoves, PlansBehind, Overtook
  <2>2. CASE plan'[o] # NoPlan /\ plan'[o] = plan[o]
    <3>1. plan[o] \in Nat /\ plan[o] <= surfaceRev[SurfaceOf[o]]
      BY <1>0, <2>2 DEF PlansBehind, CallerTypeOK
    <3> QED
      BY <1>0, <2>2, <3>1
  <2> QED
    BY <2>1, <2>2 DEF PlanMoves
<1>3. OvertakenSeen'
  <2> SUFFICES ASSUME NEW o \in Ops, NEW p \in overtaken'[o]
               PROVE  /\ p # o /\ Conflicts(o, p) /\ receipt'[p] # "none" /\ tx'[p] # "open"
                      /\ p \in EpochEvents(o)' => Seen(o, p)'
    BY DEF OvertakenSeen, Conflicts
  <2>1. plan'[o] = plan[o] /\ p \in Ops /\ (p \in overtaken[o] \/ Overtook(o, p))
    BY <1>0 DEF PlanMoves, CallerTypeOK
  <2>2. plan[o] \in Nat /\ plan[o] <= surfaceRev[SurfaceOf[o]]
    BY <1>0, <2>1 DEF PlansBehind, CallerTypeOK, Overtook
  <2>3. CASE Overtook(o, p)
    <3>1. surfaceRev'[SurfaceOf[o]] > surfaceRev[SurfaceOf[o]] =>
            surfaceRev'[SurfaceOf[o]] > plan'[o]
      BY <1>0, <2>1, <2>2
    <3> QED
      BY <2>3, <3>1 DEF Overtook, EpochEvents, Seen
  <2>4. CASE p \in overtaken[o]
    <3>1. /\ p # o /\ Conflicts(o, p) /\ receipt[p] # "none" /\ tx[p] # "open"
          /\ p \in EpochEvents(o) => Seen(o, p)
      BY <1>0, <2>4 DEF OvertakenSeen
    <3>2. /\ receipt'[p] # "none" /\ tx'[p] # "open"
          /\ \/ receipt'[p] = receipt[p]
             \/ /\ receipt[p] # "committed" /\ receipt'[p] = "reconciled"
                /\ surfaceRev'[SurfaceOf[p]] > surfaceRev[SurfaceOf[p]]
      BY <2>1, <3>1, EndedRowsStay
    <3>3. surfaceRev[SurfaceOf[o]] > plan[o] => surfaceRev'[SurfaceOf[o]] > plan'[o]
      BY <1>0, <2>1, <2>2
    <3>4. CASE receipt'[p] = receipt[p]
      <4>1. p \in EpochEvents(o)' => p \in EpochEvents(o)
        BY <1>1, <2>4, <3>4 DEF EpochEvents
      <4> QED
        BY <3>1, <3>2, <3>3, <3>4, <4>1 DEF Seen, Unsettled
    <3>5. CASE surfaceRev'[SurfaceOf[p]] > surfaceRev[SurfaceOf[p]]
      <4>1. SurfaceOf[p] = SurfaceOf[o]
        BY <3>1 DEF Conflicts
      <4>2. surfaceRev'[SurfaceOf[o]] > plan'[o]
        BY <1>0, <2>1, <2>2, <3>5, <4>1
      <4> QED
        BY <3>1, <3>2, <4>2 DEF Seen
    <3> QED
      BY <3>2, <3>4, <3>5
  <2> QED
    BY <2>1, <2>3, <2>4
<1> QED
  BY <1>2, <1>3

\* An operation that settles overtakes the plans it conflicts with.
LEMMA OvertakeMoves ==
  ASSUME CallerTypeOK, NEW p \in Ops, Overtake(p), plan' = plan,
         receipt'[p] # "none", tx'[p] # "open",
         \/ Unsettled(p)'
         \/ RegionOf[p] # Whole /\ receipt'[p] = "committed"
         \/ surfaceRev'[SurfaceOf[p]] > surfaceRev[SurfaceOf[p]]
  PROVE  PlanMoves
<1> SUFFICES ASSUME NEW o \in Ops, NEW q \in overtaken'[o] \ overtaken[o]
             PROVE  Overtook(o, q)
  BY DEF PlanMoves
<1>1. q = p /\ p # o /\ plan[o] # NoPlan /\ Conflicts(o, p)
  BY DEF Overtake, CallerTypeOK
<1> QED
  BY <1>1 DEF Overtook, Conflicts

LEMMA PlanMovesStep == ASSUME Working PROVE PlanMoves
<1>0. /\ TypeOK /\ LeaseInv /\ CallerTypeOK /\ CallerInv
      /\ ~storeError /\ ~storeError' /\ [Next]_vars
      /\ \A o \in Ops : SurfaceOf[o] \in Surfaces
      /\ \A s \in Surfaces : surfaceRev[s] \in Nat
      /\ NoPlan \notin Nat
  BY WorkingFence, DispatchAssumption DEF Working
<1>1. ASSUME UNCHANGED <<plan, overtaken>> PROVE PlanMoves
  BY <1>1 DEF PlanMoves
<1>2. ASSUME NEW o \in Ops, Plan(o) PROVE PlanMoves
  <2>1. /\ plan' = [plan EXCEPT ![o] = surfaceRev[SurfaceOf[o]]]
        /\ overtaken' = [overtaken EXCEPT ![o] = {}] /\ surfaceRev' = surfaceRev
    BY <1>2 DEF Plan, revisionVars
  <2>2. surfaceRev[SurfaceOf[o]] \in Nat
    BY <1>0
  <2>3. plan'[o] # NoPlan /\ plan'[o] <= surfaceRev'[SurfaceOf[o]] /\ overtaken'[o] = {}
    BY <1>0, <2>1, <2>2 DEF CallerTypeOK
  <2>4. \A q \in Ops \ {o} : plan'[q] = plan[q] /\ overtaken'[q] = overtaken[q]
    BY <1>0, <2>1 DEF CallerTypeOK
  <2> QED
    BY <2>3, <2>4 DEF PlanMoves
<1>3. ASSUME NEW o \in Ops, NEW fault, CommitApplied(o, fault), Overtake(o), plan' = plan
      PROVE  PlanMoves
  <2>1. receipt'[o] = "committed" /\ tx'[o] = "committed"
    BY <1>0, <1>3, CommitRecorded, CommitRow
  <2>2. RegionOf[o] = Whole => surfaceRev'[SurfaceOf[o]] > surfaceRev[SurfaceOf[o]]
    BY <1>0, <1>3, EpochsTyped DEF EpochAfterCommit
  <2> QED
    BY <1>0, <1>3, <2>1, <2>2, OvertakeMoves
<1>4. ASSUME NEW o \in Ops, NEW fault, Uncertain(o, fault), Overtake(o), plan' = plan
      PROVE  PlanMoves
  <2>1. receipt'[o] = "uncertain" /\ tx'[o] = "uncertain"
    BY <1>0, <1>4, UncertainRecorded
  <2> QED
    BY <1>0, <1>4, <2>1, OvertakeMoves DEF Unsettled
<1>5. ASSUME NEW o \in Ops, ResultApplied(o) PROVE PlanMoves
  BY <1>1, <1>3, <1>4, <1>5 DEF ResultApplied, CommitTooLate
<1>6. ASSUME NEW o \in Ops, ResultError(o) \/ ClosePending(o) PROVE PlanMoves
  BY <1>1, <1>4, <1>6 DEF ResultError, ClosePending, SettleUncertain, AbortUncertain
<1>7. ASSUME NEW o \in Ops, Heartbeat(o) PROVE PlanMoves
  BY <1>1, <1>4, <1>7 DEF Heartbeat, HeartbeatLapses, callerVars
<1>8. CASE Crash
  <2>1. /\ plan' = plan /\ givenUp' = givenUp /\ receipt' = receipt
        /\ \A p \in Ops : tx'[p] = "none"
    BY <1>0, <1>8 DEF Crash, Restart, RestartUnreadable, EmptyMemory, receiptVars
  <2> SUFFICES ASSUME NEW o \in Ops, NEW p \in overtaken'[o] \ overtaken[o]
               PROVE  Overtook(o, p)
    BY <2>1 DEF PlanMoves
  <2>2. plan[o] # NoPlan /\ p \in unknown \ {o} /\ tx[p] = "open" /\ Conflicts(o, p)
    BY <1>0, <1>8 DEF Crash, CallerTypeOK
  <2>3. p \in Ops /\ receipt[p] # "none" /\ (p \in givenUp \/ Unsettled(p))
    BY <1>0, <2>2 DEF CallerTypeOK, LeaseInv, CallerInv, UnknownOutcomeStaysFenced
  <2> QED
    BY <2>1, <2>2, <2>3 DEF Overtook, Unsettled
<1> QED
  BY <1>0, <1>1, <1>2, <1>5, <1>6, <1>7, <1>8
  DEF Next, vars, callerVars, historyVars, Request, Granted, Send, NotSent, Close, Capture,
      ReadReturns, ReadFails, Clock

LEMMA PlanStep == Working => PlanInv'
  BY DurableStep, RowsToSettleStep, StageClaimsStep, PlanMovesStep, PlansKept DEF PlanInv

LEMMA PlanInit == Init => PlanInv
<1> SUFFICES ASSUME Init PROVE PlanInv
  OBVIOUS
<1>1. EpochsDurable /\ RowsToSettle
  BY DEF Init, FenceInit, EpochsDurable, RowsToSettle
<1>2. StageClaims /\ PlansBehind /\ OvertakenSeen
  BY DEF Init, StageClaims, StageOps, PlansBehind, OvertakenSeen
<1> QED
  BY <1>1, <1>2 DEF PlanInv

\* A grant finds the plan's epoch current and no open row in its way.
LEMMA GrantSeesEpoch ==
  ASSUME Working, NEW o \in Ops, call[o] = "idle", call'[o] = "granted"
  PROVE  EpochEvents(o) = {}
<1>0. TypeOK /\ CallerTypeOK /\ PlansBehind /\ OvertakenSeen
  BY WorkingFence DEF Working, PlanInv
<1>1. Granted(o)
  <2>1. ASSUME NEW p \in Ops, Granted(p) PROVE p = o
    BY <1>0, <2>1 DEF Granted, CallerTypeOK
  <2>2. ASSUME NEW p \in Ops, Send(p) \/ NotSent(p) \/ ResultApplied(p) \/ ResultError(p)
                                \/ ClosePending(p)
        PROVE  FALSE
    BY <1>0, <2>2
    DEF Send, NotSent, ResultApplied, ResultError, ClosePending, SettleUncertain, CallerTypeOK
  <2>3. CASE Crash
    BY <1>0, <2>3 DEF Crash
  <2>4. call' # call
    OBVIOUS
  <2> QED
    BY <2>1, <2>2, <2>3, <2>4
    DEF Working, Next, vars, callerVars, Plan, Request, Heartbeat, Close, Capture,
        ReadReturns, ReadFails, Clock
<1>2. Expected(o) = surfaceRev[SurfaceOf[o]] /\ ~BlockedInStore(o)
  BY <1>1 DEF Granted, BeginGranted, Schedulable
<1> SUFFICES ASSUME NEW p \in EpochEvents(o) PROVE FALSE
  OBVIOUS
<1>3. p \in overtaken[o] /\ p \in Ops
  BY <1>0 DEF EpochEvents, CallerTypeOK
<1>4. p # o /\ Conflicts(o, p) /\ Seen(o, p)
  BY <1>0, <1>3 DEF OvertakenSeen
<1>5. ~Unsettled(p)
  BY <1>2, <1>3, <1>4, StoreAgrees DEF BlockedInStore
<1>6. plan[o] # NoPlan /\ surfaceRev[SurfaceOf[o]] \in Nat
  BY <1>0, <1>3, WorkingFence DEF PlansBehind
<1> QED
  BY <1>2, <1>4, <1>5, <1>6 DEF Expected, Seen

\* While the fence has met no store failure and no row that stayed behind, an
\* operation granted on the epoch its agent planned on was overtaken by no
\* surface-wide commit and by no uncertain end that was not given up, restarts
\* of the broker included.  A fence that closed keeps observing and hands out
\* epochs it cannot record, which is what lost_epoch shows.
THEOREM PlansSeeEpochs == Spec /\ [](~storeError) => PlanSeesEpoch
<1> DEFINE Sees == \A o \in Ops :
             call[o] = "idle" /\ call'[o] = "granted" => EpochEvents(o) = {}
<1>1. FenceInv /\ CallerInv /\ PlanInv /\ [Next]_vars /\ ~storeError /\ (~storeError)'
        => PlanInv' /\ [Sees]_vars
  <2> SUFFICES ASSUME Working PROVE PlanInv' /\ Sees
    BY DEF Working
  <2> QED
    BY PlanStep, GrantSeesEpoch
<1> QED
  BY <1>1, PlanInit, DispatchInvariant, PTL DEF Spec, PlanSeesEpoch
=============================================================================
