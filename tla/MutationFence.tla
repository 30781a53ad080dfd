--------------------------- MODULE MutationFence ---------------------------
(***************************************************************************)
(* The owner broker's mutation fence.  Every agent that wants to act on a  *)
(* browser tab or a desktop window goes through this one object: it leases *)
(* the surface (or one semantic region of it) in memory, reserves a        *)
(* durable receipt in the local store, keeps the lease alive with a        *)
(* heartbeat while the input is in flight, and settles the receipt when    *)
(* the outcome is known.  A broker restart loses the memory and keeps the  *)
(* receipts.                                                               *)
(*                                                                         *)
(* Four source files make one module because they never run apart: the     *)
(* dispatch fence owns the mutation scheduler, the target registry and the *)
(* receipt rows, and each of its methods is one synchronous JavaScript     *)
(* turn, hence one action.                                                 *)
(*                                                                         *)
(* The callers of the fence are unconstrained here: any method of an open  *)
(* transaction may be called at any time, late and more than once.  The    *)
(* callers the repository has are modelled in OwnerDispatch.               *)
(*                                                                         *)
(* Clocks are kept as differences.  The code compares now() with expiresAt *)
(* and with inFlightUncertainSince; lease[o] is expiresAt - now (0 once    *)
(* past) and uncertainAge[s] is now - inFlightUncertainSince (capped where *)
(* the comparison no longer changes).                                      *)
(***************************************************************************)
EXTENDS Integers, FiniteSets

CONSTANTS
  Ops,           \* operations, by the store's key: surface and operation ID
  Agents,        \* authenticated agent sessions
  Surfaces,      \* tabs and windows
  Regions,       \* semantic regions of a surface (fields, forms)
  Whole,         \* the region of a surface-wide mutation
  AgentOf,       \* the session that makes each operation; a retry from another
                 \* session meets the same receipt, so one owner is enough
  SurfaceOf,     \* the surface each operation targets
  RegionOf,      \* the region each operation targets, or Whole
  NoAgent,       \* no owner
  LeaseTtl,      \* ticks a fresh lease lasts
  MaxReceipts,   \* MAX_MUTATION_RECEIPTS
  MaxRevision,   \* bound: observations stop advancing an epoch here
  StoreFaults    \* {FALSE}, or BOOLEAN when a store call may throw

ASSUME ConstantsAssumption ==
  /\ Whole \notin Regions
  /\ NoAgent \notin Agents
  /\ AgentOf \in [Ops -> Agents]
  /\ SurfaceOf \in [Ops -> Surfaces]
  /\ RegionOf \in [Ops -> Regions \cup {Whole}]
  /\ LeaseTtl \in Nat \ {0}
  /\ MaxReceipts \in Nat
  /\ MaxRevision \in Nat
  /\ StoreFaults \subseteq BOOLEAN

VARIABLES
  \* memory of the broker process, lost when it restarts
  sched,         \* scheduler receipt of each operation, "active" while leased
  lease,         \* time left on an active lease
  base,          \* revisions the lease was granted against
  surfaceRev,    \* surfaceRevisions
  mutationRev,   \* surfaceMutationRevisions
  regionRev,     \* regionRevisions
  owner,         \* target registry: the agent bound to each exact target
  unresolved,    \* unresolvedSurfaces
  inFlight,      \* inFlightSurfaceByOperation (the surface is SurfaceOf)
  uncertainAge,  \* age of inFlightUncertainSince, NoMark when absent
  tx,            \* the transaction object: "open" or its terminal status
  storeError,    \* the fail-closed flag
  \* rows of the local store
  receipt,       \* status of the durable receipt, "none" when absent
  receiptRev     \* its surfaceRevision

memoryVars == <<sched, lease, base, surfaceRev, mutationRev, regionRev, owner,
                unresolved, inFlight, uncertainAge, tx, storeError>>
fenceVars == <<memoryVars, receipt, receiptRev>>

revisionVars == <<surfaceRev, mutationRev, regionRev>>
receiptVars == <<receipt, receiptRev>>

----------------------------------------------------------------------------
(* Identities *)

Targets == Surfaces \X (Regions \cup {Whole})
TargetOf(o) == <<SurfaceOf[o], RegionOf[o]>>
OpsOn(s) == {o \in Ops : SurfaceOf[o] = s}

NoMark == -1
StaleInFlightTimeout == 5 * LeaseTtl

SchedStatus == {"none", "active", "committed", "aborted", "expired", "stale"}
TxStatus == {"none", "open", "committed", "aborted", "expired", "stale", "uncertain"}
ReceiptStatus == {"none", "claimed", "committed", "aborted", "expired", "stale",
                  "uncertain", "reconciled"}

\* A receipt whose outcome nobody has established yet.
Unsettled(o) == receipt[o] \in {"claimed", "uncertain"}

\* Two mutations the scheduler never leases together.
Conflicts(a, b) ==
  /\ SurfaceOf[a] = SurfaceOf[b]
  /\ RegionOf[a] = Whole \/ RegionOf[b] = Whole \/ RegionOf[a] = RegionOf[b]

\* The store's own test, by receipt target key.
StoreBlocks(held, wanted) ==
  /\ SurfaceOf[held] = SurfaceOf[wanted]
  /\ \/ RegionOf[wanted] = Whole
     \/ RegionOf[held] = Whole
     \/ TargetOf(held) = TargetOf(wanted)

RevisionOfRegion(o) ==
  IF RegionOf[o] = Whole THEN 0 ELSE regionRev[TargetOf(o)]

CurrentBase(o) ==
  [surface |-> surfaceRev[SurfaceOf[o]],
   mutation |-> IF RegionOf[o] = Whole THEN mutationRev[SurfaceOf[o]] ELSE 0,
   region |-> RevisionOfRegion(o)]

----------------------------------------------------------------------------
(* The scheduler, the registry and the store, as the fence calls them *)

\* sweepExpired: every entry point that reads a revision runs it first.
Lapsed == {o \in Ops : sched[o] = "active" /\ lease[o] = 0}
Swept == [o \in Ops |-> IF o \in Lapsed THEN "expired" ELSE sched[o]]
Sweep == sched' = Swept

\* Dropping an active transaction.
EndLease(o, status) ==
  /\ sched' = [sched EXCEPT ![o] = status]
  /\ lease' = [lease EXCEPT ![o] = 0]

\* Faulty variant: the binding outlives the transaction
ForgetTargetNever(o) == UNCHANGED owner

\* targetRegistry.forget: the binding goes unless an operation still holds it.
ForgetTarget(o) ==
  owner' = IF \E p \in Ops : sched'[p] = "active" /\ TargetOf(p) = TargetOf(o)
             THEN owner
             ELSE [owner EXCEPT ![TargetOf(o)] = NoAgent]

\* The scheduler takes a lease: no receipt yet, revisions as planned, no
\* overlapping lease, and the exact target unowned or owned by this agent.
\* For a surface-wide operation the fence passes the scheduler's current
\* mutation revision as the expected one, so that comparison cannot fail.
ExpectedMutationRevision(o) == mutationRev[SurfaceOf[o]]
Schedulable(o, surfaceExpected, regionExpected) ==
  /\ Swept[o] = "none"
  /\ surfaceExpected = surfaceRev[SurfaceOf[o]]
  /\ IF RegionOf[o] = Whole
       THEN ExpectedMutationRevision(o) = mutationRev[SurfaceOf[o]]
       ELSE regionExpected = RevisionOfRegion(o)
  /\ \A p \in Ops : Swept[p] = "active" => ~Conflicts(p, o)
  /\ owner[TargetOf(o)] \in {NoAgent, AgentOf[o]}

\* claimMutationReceipt: the row that refuses the claim, if there is one.
StoreFull == Cardinality({o \in Ops : receipt[o] # "none"}) >= MaxReceipts
BlockedInStore(o) == \E p \in Ops \ {o} : Unsettled(p) /\ StoreBlocks(p, o)

\* recordMutationReceipt through persist: a row only moves forward, and a row
\* that stayed behind closes the fence.
MayRecordAlways(o, status) == TRUE  \* Faulty variant: last write wins
MayRecord(o, status) ==
  \/ receipt[o] \in {"none", "claimed"}
  \/ receipt[o] = "uncertain" /\ status = "reconciled"
Persist(o, status, revision, fault) ==
  \/ /\ storeError
     /\ UNCHANGED <<storeError, receiptVars>>
  \/ /\ ~storeError /\ fault
     /\ storeError' = TRUE
     /\ UNCHANGED receiptVars
  \/ /\ ~storeError /\ ~fault /\ MayRecord(o, status)
     /\ receipt' = [receipt EXCEPT ![o] = status]
     /\ receiptRev' = [receiptRev EXCEPT ![o] = revision]
     /\ UNCHANGED storeError
  \/ /\ ~storeError /\ ~fault /\ ~MayRecord(o, status)
     /\ storeError' = (receipt[o] # status)
     /\ UNCHANGED receiptVars

\* Faulty variant: only the mark is deleted
ReleaseMarkOnly(o) ==
  /\ inFlight' = inFlight
  /\ uncertainAge' = [uncertainAge EXCEPT ![SurfaceOf[o]] = NoMark]

\* releaseInFlight: the operation leaves, and takes the surface's mark with it.
ReleaseInFlight(o) ==
  /\ inFlight' = inFlight \ {o}
  /\ uncertainAge' = [uncertainAge EXCEPT ![SurfaceOf[o]] = NoMark]

\* A lapsed lease marks the surface and leaves the operation in flight.
KeepInFlightReleased(o) == ReleaseInFlight(o)  \* Faulty variant: lapsed means finished
KeepInFlight(o) ==
  /\ inFlight' = inFlight
  /\ uncertainAge' = [uncertainAge EXCEPT ![SurfaceOf[o]] = IF @ = NoMark THEN 0 ELSE @]

----------------------------------------------------------------------------
(* begin *)

\* Refusals that leave nothing but the sweep behind: the surface is known to
\* be unresolved, or the scheduler says no.
BeginRefused(o, surfaceExpected, regionExpected) ==
  /\ ~storeError
  /\ \/ SurfaceOf[o] \in unresolved
     \/ receipt[o] = "none" /\ ~Schedulable(o, surfaceExpected, regionExpected)
  /\ Sweep
  /\ UNCHANGED <<lease, base, revisionVars, owner, unresolved, inFlight,
                 uncertainAge, tx, storeError, receiptVars>>

\* The receipt cannot be inspected: the fence closes.
BeginUnreadable(o) ==
  /\ ~storeError
  /\ SurfaceOf[o] \notin unresolved
  /\ TRUE \in StoreFaults
  /\ Sweep
  /\ storeError' = TRUE
  /\ UNCHANGED <<lease, base, revisionVars, owner, unresolved, inFlight,
                 uncertainAge, tx, receiptVars>>

\* The operation already has a receipt; an unsettled one closes the surface.
BeginRepeated(o) ==
  /\ ~storeError
  /\ SurfaceOf[o] \notin unresolved
  /\ receipt[o] # "none"
  /\ Sweep
  /\ unresolved' = IF Unsettled(o) THEN unresolved \cup {SurfaceOf[o]} ELSE unresolved
  /\ UNCHANGED <<lease, base, revisionVars, owner, inFlight, uncertainAge, tx,
                 storeError, receiptVars>>

\* The scheduler leased, the store did not: the lease and the binding are
\* dropped in the same turn.  A throw closes the fence, a blocking row closes
\* the surface.
BeginUnclaimed(o, surfaceExpected, regionExpected) ==
  /\ ~storeError
  /\ SurfaceOf[o] \notin unresolved
  /\ receipt[o] = "none"
  /\ Schedulable(o, surfaceExpected, regionExpected)
  /\ \/ /\ TRUE \in StoreFaults \/ (StoreFull /\ ~BlockedInStore(o))
        /\ storeError' = TRUE
        /\ UNCHANGED unresolved
     \/ /\ BlockedInStore(o)
        /\ unresolved' = unresolved \cup {SurfaceOf[o]}
        /\ UNCHANGED storeError
  /\ Sweep
  /\ ForgetTarget(o)
  /\ UNCHANGED <<lease, base, revisionVars, inFlight, uncertainAge, tx, receiptVars>>

BeginGranted(o, surfaceExpected, regionExpected) ==
  /\ ~storeError
  /\ SurfaceOf[o] \notin unresolved
  /\ receipt[o] = "none"
  /\ Schedulable(o, surfaceExpected, regionExpected)
  /\ ~BlockedInStore(o)
  /\ ~StoreFull
  /\ sched' = [Swept EXCEPT ![o] = "active"]
  /\ lease' = [lease EXCEPT ![o] = LeaseTtl]
  /\ base' = [base EXCEPT ![o] = CurrentBase(o)]
  /\ owner' = [owner EXCEPT ![TargetOf(o)] = AgentOf[o]]
  /\ receipt' = [receipt EXCEPT ![o] = "claimed"]
  /\ receiptRev' = [receiptRev EXCEPT ![o] = surfaceRev[SurfaceOf[o]]]
  /\ inFlight' = inFlight \cup {o}
  /\ tx' = [tx EXCEPT ![o] = "open"]
  /\ UNCHANGED <<revisionVars, unresolved, uncertainAge, storeError>>

----------------------------------------------------------------------------
(* The transaction object *)

\* Settling with an unknown outcome.  schedStatus is what the scheduler's own
\* receipt becomes when its lease was still held.
Uncertain(o, fault) ==
  /\ unresolved' = unresolved \cup {SurfaceOf[o]}
  /\ tx' = [tx EXCEPT ![o] = "uncertain"]
  /\ Persist(o, "uncertain", base[o].surface, fault)
  /\ ForgetTarget(o)
  /\ UNCHANGED <<base, revisionVars>>

CommitSucceeds(o) ==
  /\ sched[o] = "active"
  /\ lease[o] > 0
  /\ base[o] = CurrentBase(o)

\* A surface-wide commit advances the surface epoch, a region commit does not.
EpochAfterCommitUnmoved(o) == surfaceRev[SurfaceOf[o]]  \* Faulty variant.
EpochAfterCommit(o) ==
  IF RegionOf[o] = Whole THEN surfaceRev[SurfaceOf[o]] + 1 ELSE surfaceRev[SurfaceOf[o]]

\* commit({status: "applied"}) while the lease still stands.
CommitApplied(o, fault) ==
  /\ tx[o] = "open"
  /\ CommitSucceeds(o)
  /\ EndLease(o, "committed")
  /\ LET s == SurfaceOf[o]
     IN /\ surfaceRev' = [surfaceRev EXCEPT ![s] = EpochAfterCommit(o)]
        /\ mutationRev' = [mutationRev EXCEPT ![s] = @ + 1]
        /\ regionRev' = IF RegionOf[o] = Whole
                          THEN regionRev
                          ELSE [regionRev EXCEPT ![TargetOf(o)] = @ + 1]
        /\ Persist(o, "committed", EpochAfterCommit(o), fault)
        /\ unresolved' = unresolved \ {s}
  /\ tx' = [tx EXCEPT ![o] = "committed"]
  /\ ForgetTarget(o)
  /\ ReleaseInFlight(o)
  /\ UNCHANGED base

\* commit({status: "applied"}) whose lease is gone: the input may have landed,
\* so the outcome is uncertain.
CommitTooLate(o, fault) ==
  /\ tx[o] = "open"
  /\ ~CommitSucceeds(o)
  /\ EndLease(o, IF sched[o] # "active" THEN sched[o]
                 ELSE IF lease[o] = 0 THEN "expired" ELSE "stale")
  /\ ReleaseInFlight(o)
  /\ Uncertain(o, fault)

\* abort(reason, {status: "uncertain"}): an error, a closed tab, a lost
\* transport.
AbortUncertain(o, fault) ==
  /\ tx[o] = "open"
  /\ EndLease(o, IF sched[o] = "active" THEN "aborted" ELSE sched[o])
  /\ ReleaseInFlight(o)
  /\ Uncertain(o, fault)

\* abort(reason): the caller says the action was refused before it applied.
AbortRefused(o, fault) ==
  /\ tx[o] = "open"
  /\ EndLease(o, IF sched[o] = "active" THEN "aborted" ELSE sched[o])
  /\ LET status == IF sched[o] \in {"expired", "stale"} THEN sched[o] ELSE "aborted"
     IN /\ tx' = [tx EXCEPT ![o] = status]
        /\ Persist(o, status, base[o].surface, fault)
  /\ ForgetTarget(o)
  /\ unresolved' = unresolved \ {SurfaceOf[o]}
  /\ ReleaseInFlight(o)
  /\ UNCHANGED <<base, revisionVars>>

\* Any later call on a transaction that already ended uncertain only says that
\* the dispatch has come back.
LateReturn(o) ==
  /\ tx[o] = "uncertain"
  /\ ReleaseInFlight(o)
  /\ UNCHANGED <<sched, lease, base, revisionVars, owner, unresolved, tx,
                 storeError, receiptVars>>

\* release: only while the scheduler still holds the lease.  A store that
\* throws here leaves the claim behind.
Release(o, fault) ==
  /\ tx[o] = "open"
  /\ sched[o] = "active"
  /\ EndLease(o, "none")
  /\ receipt' = IF receipt[o] = "claimed" /\ ~fault
                  THEN [receipt EXCEPT ![o] = "none"] ELSE receipt
  /\ receiptRev' = IF receipt[o] = "claimed" /\ ~fault
                     THEN [receiptRev EXCEPT ![o] = 0] ELSE receiptRev
  /\ tx' = [tx EXCEPT ![o] = "aborted"]
  /\ ForgetTarget(o)
  /\ ReleaseInFlight(o)
  /\ UNCHANGED <<base, revisionVars, unresolved, storeError>>

\* The heartbeat timer: a live lease is renewed.
HeartbeatRenews(o) ==
  /\ tx[o] = "open"
  /\ sched[o] = "active"
  /\ lease[o] > 0
  /\ lease' = [lease EXCEPT ![o] = LeaseTtl]
  /\ UNCHANGED <<sched, base, revisionVars, owner, unresolved, inFlight,
                 uncertainAge, tx, storeError, receiptVars>>

\* The heartbeat finds its lease gone: the outcome is uncertain and the
\* dispatch may still be running, so the operation stays in flight.
HeartbeatLapses(o, fault) ==
  /\ tx[o] = "open"
  /\ sched[o] # "active" \/ lease[o] = 0
  /\ sched' = IF sched[o] = "active" THEN Swept ELSE sched
  /\ UNCHANGED lease
  /\ KeepInFlight(o)
  /\ Uncertain(o, fault)

----------------------------------------------------------------------------
(* observeSurface *)

InFlightOn(s) == inFlight \cap OpsOn(s)
StaleMark(s) == uncertainAge[s] >= StaleInFlightTimeout
NeverLeased(s) == FALSE  \* Faulty variant: observations ignore leases
SurfaceLeased(s) == \E o \in OpsOn(s) : Swept[o] = "active"

\* Nothing to reconcile, or a dispatch that may still land: only the sweep.
ObserveKept(s) ==
  /\ \/ s \notin unresolved
     \/ InFlightOn(s) # {} /\ ~StaleMark(s)
  /\ Sweep
  /\ UNCHANGED <<lease, base, revisionVars, owner, unresolved, inFlight,
                 uncertainAge, tx, storeError, receiptVars>>

GuardIgnored(s) ==  \* Faulty variant: observations ignore dispatches in flight
  /\ s \in unresolved
  /\ UNCHANGED <<inFlight, uncertainAge>>

\* The in-flight guard is absent, or stale and therefore dropped.
GuardDropped(s) ==
  /\ s \in unresolved
  /\ \/ /\ InFlightOn(s) = {}
        /\ UNCHANGED <<inFlight, uncertainAge>>
     \/ /\ InFlightOn(s) # {} /\ StaleMark(s)
        /\ inFlight' = inFlight \ OpsOn(s)
        /\ uncertainAge' = [uncertainAge EXCEPT ![s] = NoMark]

\* The scheduler will not move an epoch under a live lease.
ObserveUnderLease(s) ==
  /\ GuardDropped(s)
  /\ SurfaceLeased(s)
  /\ Sweep
  /\ UNCHANGED <<lease, base, revisionVars, owner, unresolved, tx, storeError,
                 receiptVars>>

\* A fresh observation settles every open receipt of the surface under a new
\* epoch, unless the store throws after the epoch moved.
ObserveReconciles(s, fault) ==
  /\ GuardDropped(s)
  /\ ~SurfaceLeased(s)
  /\ surfaceRev[s] < MaxRevision
  /\ Sweep
  /\ surfaceRev' = [surfaceRev EXCEPT ![s] = @ + 1]
  /\ mutationRev' = [mutationRev EXCEPT ![s] = @ + 1]
  /\ LET settled == {o \in OpsOn(s) : Unsettled(o)}
     IN IF fault
          THEN /\ storeError' = TRUE
               /\ UNCHANGED <<receiptVars, unresolved>>
          ELSE /\ receipt' = [o \in Ops |-> IF o \in settled THEN "reconciled" ELSE receipt[o]]
               /\ receiptRev' = [o \in Ops |-> IF o \in settled THEN surfaceRev[s] + 1
                                               ELSE receiptRev[o]]
               /\ unresolved' = unresolved \ {s}
               /\ UNCHANGED storeError
  /\ UNCHANGED <<lease, base, regionRev, owner, tx>>

\* surfaceRevision and snapshot: reading an epoch sweeps.
ReadRevision ==
  /\ Lapsed # {}
  /\ Sweep
  /\ UNCHANGED <<lease, base, revisionVars, owner, unresolved, inFlight,
                 uncertainAge, tx, storeError, receiptVars>>

----------------------------------------------------------------------------
(* Time, and the life of the broker process *)

CountdownUnclamped(n) == n - 1  \* Faulty variant.
Countdown(n) == IF n > 0 THEN n - 1 ELSE 0
Tick ==
  /\ lease' = [o \in Ops |-> Countdown(lease[o])]
  /\ uncertainAge' = [s \in Surfaces |->
       IF uncertainAge[s] = NoMark \/ StaleMark(s) THEN uncertainAge[s]
       ELSE uncertainAge[s] + 1]
  /\ <<lease, uncertainAge>>' # <<lease, uncertainAge>>
  /\ UNCHANGED <<sched, base, revisionVars, owner, unresolved, inFlight, tx,
                 storeError, receiptVars>>

NoBase == [surface |-> 0, mutation |-> 0, region |-> 0]
EmptyMemory ==
  /\ sched' = [o \in Ops |-> "none"]
  /\ lease' = [o \in Ops |-> 0]
  /\ base' = [o \in Ops |-> NoBase]
  /\ regionRev' = [t \in Targets |-> 0]
  /\ owner' = [t \in Targets |-> NoAgent]
  /\ inFlight' = {}
  /\ uncertainAge' = [s \in Surfaces |-> NoMark]
  /\ tx' = [o \in Ops |-> "none"]

\* Faulty variants: nothing is restored; only the committed receipts are
EpochsForgotten == {[s \in Surfaces |-> 0]}
CommittedOn(s) == {o \in OpsOn(s) : receipt[o] = "committed"}
EpochsOfCommitted ==
  {r \in [Surfaces -> {receiptRev[o] : o \in Ops} \cup {0}] :
     \A s \in Surfaces :
       /\ \A o \in CommittedOn(s) : receiptRev[o] <= r[s]
       /\ r[s] = 0 \/ \E o \in CommittedOn(s) : receiptRev[o] = r[s]}

\* The largest revision any receipt of the surface carries, 0 without one.
RestoredEpochs ==
  {r \in [Surfaces -> {receiptRev[o] : o \in Ops} \cup {0}] :
     \A s \in Surfaces :
       /\ \A o \in OpsOn(s) : receipt[o] # "none" => receiptRev[o] <= r[s]
       /\ r[s] = 0 \/ \E o \in OpsOn(s) : receipt[o] # "none" /\ receiptRev[o] = r[s]}

\* The broker dies and a new one reads the receipts back.
Restart ==
  /\ EmptyMemory
  /\ \E r \in RestoredEpochs : surfaceRev' = r /\ mutationRev' = r
  /\ unresolved' = {SurfaceOf[o] : o \in {p \in Ops : Unsettled(p)}}
  /\ storeError' = FALSE
  /\ UNCHANGED receiptVars

\* The new broker cannot read them: it refuses every mutation of its life.
RestartUnreadable ==
  /\ TRUE \in StoreFaults
  /\ EmptyMemory
  /\ surfaceRev' = [s \in Surfaces |-> 0]
  /\ mutationRev' = [s \in Surfaces |-> 0]
  /\ unresolved' = {}
  /\ storeError' = TRUE
  /\ UNCHANGED receiptVars

----------------------------------------------------------------------------
FenceInit ==
  /\ sched = [o \in Ops |-> "none"]
  /\ lease = [o \in Ops |-> 0]
  /\ base = [o \in Ops |-> NoBase]
  /\ surfaceRev = [s \in Surfaces |-> 0]
  /\ mutationRev = [s \in Surfaces |-> 0]
  /\ regionRev = [t \in Targets |-> 0]
  /\ owner = [t \in Targets |-> NoAgent]
  /\ unresolved = {}
  /\ inFlight = {}
  /\ uncertainAge = [s \in Surfaces |-> NoMark]
  /\ tx = [o \in Ops |-> "none"]
  /\ storeError = FALSE
  /\ receipt = [o \in Ops |-> "none"]
  /\ receiptRev = [o \in Ops |-> 0]

\* Plans carry the current revisions or the ones before; any other value is
\* refused in the same way.
PlannedRevisions(current) == {current, current - 1} \cap Nat

Begin(o, surfaceExpected, regionExpected) ==
  \/ BeginRefused(o, surfaceExpected, regionExpected)
  \/ BeginUnclaimed(o, surfaceExpected, regionExpected)
  \/ BeginGranted(o, surfaceExpected, regionExpected)

BeginAny(o) ==
  \/ BeginUnreadable(o)
  \/ BeginRepeated(o)
  \/ \E surfaceExpected \in PlannedRevisions(surfaceRev[SurfaceOf[o]]),
        regionExpected \in PlannedRevisions(RevisionOfRegion(o)) :
       Begin(o, surfaceExpected, regionExpected)

TransactionCall(o) ==
  \/ LateReturn(o)
  \/ HeartbeatRenews(o)
  \/ \E fault \in StoreFaults :
       \/ CommitApplied(o, fault)
       \/ CommitTooLate(o, fault)
       \/ AbortUncertain(o, fault)
       \/ AbortRefused(o, fault)
       \/ Release(o, fault)
       \/ HeartbeatLapses(o, fault)

Observe(s) ==
  \/ ObserveKept(s)
  \/ ObserveUnderLease(s)
  \/ \E fault \in StoreFaults : ObserveReconciles(s, fault)

FenceNext ==
  \/ \E o \in Ops : BeginAny(o) \/ TransactionCall(o)
  \/ \E s \in Surfaces : Observe(s)
  \/ ReadRevision
  \/ Tick
  \/ Restart
  \/ RestartUnreadable

FenceSpec == FenceInit /\ [][FenceNext]_fenceVars

----------------------------------------------------------------------------
(* Properties *)

Base == [surface : Nat, mutation : Nat, region : Nat]

\* Every variable keeps its shape.
TypeOK ==
  /\ sched \in [Ops -> SchedStatus]
  /\ lease \in [Ops -> 0..LeaseTtl]
  /\ base \in [Ops -> Base]
  /\ surfaceRev \in [Surfaces -> Nat]
  /\ mutationRev \in [Surfaces -> Nat]
  /\ regionRev \in [Targets -> Nat]
  /\ owner \in [Targets -> Agents \cup {NoAgent}]
  /\ unresolved \subseteq Surfaces
  /\ inFlight \subseteq Ops
  /\ uncertainAge \in [Surfaces -> {NoMark} \cup 0..StaleInFlightTimeout]
  /\ tx \in [Ops -> TxStatus]
  /\ storeError \in BOOLEAN
  /\ receipt \in [Ops -> ReceiptStatus]
  /\ receiptRev \in [Ops -> Nat]

\* Whatever the store and the clock do, an operation the fence still counts as
\* in flight has an open row in the durable store, and no two operations in
\* flight overlap: the in-memory guard never outlives its receipt.
ExclusiveInFlight ==
  /\ \A o \in inFlight : Unsettled(o)
  /\ \A a, b \in inFlight : a # b => ~Conflicts(a, b)

\* A held lease pins the revisions it was granted against: neither a
\* concurrent region commit nor an observation can move them underneath it
\* (the scheduler's "stale" commit result is unreachable through the fence).
LeasePinsRevisions ==
  \A o \in Ops : sched[o] = "active" =>
    /\ base[o] = CurrentBase(o)
    /\ tx[o] = "open"

\* The epoch in memory is never behind a receipt of the same surface, across
\* restarts and failed writes; the only exception is a broker that could not
\* read its store, and that one never opens a transaction.
EpochCoversReceipts ==
  \/ \A o \in Ops : receipt[o] # "none" => receiptRev[o] <= surfaceRev[SurfaceOf[o]]
  \/ /\ storeError
     /\ unresolved = {}
     /\ \A o \in Ops : tx[o] = "none"

\* Two surface-wide mutations committed to the store never share an epoch, so
\* an agent can order them by the epoch alone even across restarts.
DistinctCommittedEpochs ==
  \A a, b \in Ops :
    /\ a # b
    /\ SurfaceOf[a] = SurfaceOf[b]
    /\ RegionOf[a] = Whole /\ RegionOf[b] = Whole
    /\ receipt[a] = "committed" /\ receipt[b] = "committed"
    => receiptRev[a] # receiptRev[b]

\* A target stays bound to an agent only while some transaction on it is open;
\* otherwise other agents would be refused for good.
NoOrphanedTarget ==
  \A t \in Targets : owner[t] # NoAgent =>
    \E o \in Ops : TargetOf(o) = t /\ tx[o] = "open"

\* A settled receipt is never rewritten or removed.
SettledIsFinal ==
  [][\A o \in Ops : receipt[o] # "none" /\ ~Unsettled(o) =>
        receipt'[o] = receipt[o] /\ receiptRev'[o] = receiptRev[o]]_fenceVars
=============================================================================
