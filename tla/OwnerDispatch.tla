--------------------------- MODULE OwnerDispatch ---------------------------
(***************************************************************************)
(* The two callers the mutation fence has, composed with it.               *)
(*                                                                         *)
(* The browser path (web-broker-core) begins and sends a command in one    *)
(* synchronous turn, keeps it pending through timeouts, and settles it on  *)
(* the extension's result, a closed tab or a closed transport.  The        *)
(* desktop path (task-desktop-stage) begins, then awaits the driver: the   *)
(* input is sent some time later, or a typed gate refuses it first.        *)
(* Reads of a surface run beside both and reconcile it when they return.   *)
(* Agents plan against the epoch they last saw and may retry an operation  *)
(* ID at any time.                                                         *)
(***************************************************************************)
EXTENDS MutationFence

CONSTANTS
  WebOps,        \* the operations that go to the extension
  NoPlan         \* no expectedMutationRevision in the request

ASSUME DispatchAssumption ==
  /\ WebOps \subseteq Ops
  /\ NoPlan \notin Nat
  \* a desktop target is one window or the whole desktop, never a region of
  \* it, and never a browser tab
  /\ \A o \in Ops \ WebOps :
       /\ RegionOf[o] = Whole
       /\ \A w \in WebOps : SurfaceOf[w] # SurfaceOf[o]

VARIABLES
  call,       \* where the caller of each operation is
  closing,    \* surfaces whose pending commands this turn is aborting
  reading,    \* surfaces with a read whose page state is already captured
  stageClaim, \* durable stage receipts: desktop operations not to be repeated
  plan,       \* the epoch each agent will send with its operation
  \* history, for the properties only
  sends,      \* times each operation's input was sent
  unknown,    \* sent operations whose outcome nobody has learnt
  givenUp,    \* operations whose in-flight guard an observation dropped
  overtaken   \* per planned operation, what settled since it was planned

callerVars == <<call, closing, reading, stageClaim, plan>>
historyVars == <<sends, unknown, givenUp, overtaken>>
vars == <<fenceVars, callerVars, historyVars>>

StageOps == Ops \ WebOps

----------------------------------------------------------------------------
(* One JavaScript turn at a time *)

\* No browser command is between begin and send, and no close is under way.
TurnFree ==
  /\ closing = {}
  /\ \A o \in WebOps : call[o] # "granted"

\* What settled on o's behalf for every plan that overlaps it.
Overtake(o) ==
  overtaken' = [p \in Ops |->
    IF p # o /\ plan[p] # NoPlan /\ Conflicts(p, o)
      THEN overtaken[p] \cup {o} ELSE overtaken[p]]

----------------------------------------------------------------------------
(* Agents *)

\* An agent reads the surface's epoch and plans its next operation on it.
Plan(o) ==
  /\ TurnFree
  /\ call[o] = "idle" /\ receipt[o] = "none"
  /\ plan[o] # surfaceRev[SurfaceOf[o]]
  /\ Sweep
  /\ plan' = [plan EXCEPT ![o] = surfaceRev[SurfaceOf[o]]]
  /\ overtaken' = [overtaken EXCEPT ![o] = {}]
  /\ UNCHANGED <<lease, base, revisionVars, owner, unresolved, inFlight,
                 uncertainAge, tx, storeError, receiptVars, call, closing,
                 reading, stageClaim, sends, unknown, givenUp>>

Expected(o) == IF plan[o] = NoPlan THEN surfaceRev[SurfaceOf[o]] ELSE plan[o]

\* The request reaches the broker, for the first time or again.  No client
\* sends an expectedRegionRevision, so the fence takes the current one.  The
\* desktop path repeats nothing it holds a stage receipt for, and a refusal
\* gives that receipt back.
Request(o) ==
  /\ TurnFree
  /\ o \notin stageClaim
  /\ \/ BeginRefused(o, Expected(o), RevisionOfRegion(o))
     \/ BeginUnclaimed(o, Expected(o), RevisionOfRegion(o))
     \/ BeginUnreadable(o)
     \/ BeginRepeated(o)
  /\ UNCHANGED <<callerVars, historyVars>>

Granted(o) ==
  /\ TurnFree
  /\ call[o] = "idle"
  /\ o \notin stageClaim
  /\ BeginGranted(o, Expected(o), RevisionOfRegion(o))
  /\ call' = [call EXCEPT ![o] = "granted"]
  /\ stageClaim' = IF o \in StageOps THEN stageClaim \cup {o} ELSE stageClaim
  /\ UNCHANGED <<closing, reading, plan, historyVars>>

----------------------------------------------------------------------------
(* Sending *)

\* The extension or the driver gets the input.  A transport exception while
\* sending looks the same to the broker: the command stays pending.
Send(o) ==
  /\ closing = {}
  /\ call[o] = "granted"
  /\ o \in StageOps => TurnFree
  /\ call' = [call EXCEPT ![o] = "sent"]
  /\ sends' = [sends EXCEPT ![o] = @ + 1]
  /\ unknown' = unknown \cup {o}
  /\ UNCHANGED <<fenceVars, closing, reading, stageClaim, plan, givenUp, overtaken>>

\* Faulty variant: an exception while sending counts as not sent
NotSentAfterSend(o) ==
  /\ TurnFree
  /\ call[o] = "sent"
  /\ call' = [call EXCEPT ![o] = "idle"]
  /\ stageClaim' = stageClaim \ {o}
  /\ \E fault \in StoreFaults : Release(o, fault)
  /\ UNCHANGED <<closing, reading, plan, historyVars>>

\* Provably not sent: no extension was connected, or the desktop gate refused.
NotSent(o) ==
  /\ closing = {}
  /\ call[o] = "granted"
  /\ o \in StageOps => TurnFree
  /\ call' = [call EXCEPT ![o] = "idle"]
  /\ stageClaim' = stageClaim \ {o}
  /\ \/ \E fault \in StoreFaults : Release(o, fault)
     \/ /\ tx[o] # "open" \/ sched[o] # "active"
        /\ UNCHANGED fenceVars
  /\ UNCHANGED <<closing, reading, plan, historyVars>>

----------------------------------------------------------------------------
(* Results *)

ResultApplied(o) ==
  /\ TurnFree
  /\ call[o] = "sent"
  /\ call' = [call EXCEPT ![o] = "idle"]
  /\ \/ \E fault \in StoreFaults : CommitApplied(o, fault)
        /\ unknown' = unknown \ {o}
        /\ Overtake(o)
     \/ \E fault \in StoreFaults : CommitTooLate(o, fault)
        /\ Overtake(o)
        /\ UNCHANGED unknown
     \/ LateReturn(o) /\ UNCHANGED <<unknown, overtaken>>
  /\ UNCHANGED <<closing, reading, stageClaim, plan, sends, givenUp>>

\* Faulty variant: an ambiguous end is settled as a refusal
SettleRefused(o) ==
  /\ call' = [call EXCEPT ![o] = "idle"]
  /\ \/ (\E fault \in StoreFaults : AbortRefused(o, fault)) /\ UNCHANGED overtaken
     \/ LateReturn(o) /\ UNCHANGED overtaken
  /\ UNCHANGED <<reading, stageClaim, plan, sends, unknown, givenUp>>

\* The settlement of every ambiguous end: an error result, a closed tab, a
\* closed transport, a driver that threw.
SettleUncertain(o) ==
  /\ call' = [call EXCEPT ![o] = "idle"]
  /\ \/ \E fault \in StoreFaults : AbortUncertain(o, fault)
        /\ Overtake(o)
     \/ LateReturn(o) /\ UNCHANGED overtaken
  /\ UNCHANGED <<reading, stageClaim, plan, sends, unknown, givenUp>>

ResultError(o) ==
  /\ TurnFree
  /\ call[o] = "sent" \/ (call[o] = "granted" /\ o \in StageOps)
  /\ SettleUncertain(o)
  /\ UNCHANGED closing

\* A closed tab or a closed transport aborts every pending command it
\* carried, all in one turn.
Close(targets) ==
  /\ TurnFree
  /\ \E o \in WebOps : SurfaceOf[o] \in targets /\ call[o] = "sent"
  /\ closing' = targets
  /\ UNCHANGED <<fenceVars, call, reading, stageClaim, plan, historyVars>>
ClosePending(o) ==
  /\ o \in WebOps /\ SurfaceOf[o] \in closing
  /\ call[o] = "sent"
  /\ SettleUncertain(o)
  /\ closing' = IF \E p \in WebOps \ {o} : SurfaceOf[p] \in closing /\ call[p] = "sent"
                  THEN closing ELSE {}

----------------------------------------------------------------------------
(* Reads *)

Capture(s) ==
  /\ TurnFree
  /\ s \notin reading
  /\ reading' = reading \cup {s}
  /\ UNCHANGED <<fenceVars, call, closing, stageClaim, plan, sends, unknown, givenUp,
                 overtaken>>

\* A successful read reconciles; a failed one is dropped.
ReadReturns(s) ==
  /\ TurnFree
  /\ s \in reading
  /\ reading' = reading \ {s}
  /\ \/ /\ ObserveKept(s)
        /\ UNCHANGED <<unknown, givenUp>>
     \/ /\ ObserveUnderLease(s)
        /\ givenUp' = givenUp \cup InFlightOn(s)
        /\ UNCHANGED unknown
     \/ \E fault \in StoreFaults :
          /\ ObserveReconciles(s, fault)
          /\ unknown' = IF fault THEN unknown ELSE unknown \ OpsOn(s)
          /\ givenUp' = givenUp \cup InFlightOn(s)
  /\ UNCHANGED <<call, closing, stageClaim, plan, sends, overtaken>>

ReadFails(s) ==
  /\ TurnFree
  /\ s \in reading
  /\ reading' = reading \ {s}
  /\ UNCHANGED <<fenceVars, call, closing, stageClaim, plan, sends, unknown, givenUp,
                 overtaken>>

----------------------------------------------------------------------------
(* Timers and the broker process *)

Heartbeat(o) ==
  /\ TurnFree
  /\ \/ HeartbeatRenews(o) /\ UNCHANGED overtaken
     \/ /\ \E fault \in StoreFaults : HeartbeatLapses(o, fault)
        /\ Overtake(o)
  /\ UNCHANGED <<callerVars, sends, unknown, givenUp>>

Clock ==
  /\ TurnFree
  /\ Tick
  /\ UNCHANGED <<callerVars, historyVars>>

\* The callers die with the broker; input already sent may still land, and
\* the agents, in other processes, keep their plans, and the stage receipts stay.
Crash ==
  /\ Restart \/ RestartUnreadable
  /\ call' = [o \in Ops |-> IF call[o] \in {"sent", "orphan"} THEN "orphan" ELSE "idle"]
  /\ closing' = {}
  /\ reading' = {}
  /\ overtaken' = [p \in Ops |->
       IF plan[p] = NoPlan THEN {}
       ELSE overtaken[p] \cup {o \in unknown \ {p} : tx[o] = "open" /\ Conflicts(p, o)}]
  /\ UNCHANGED <<stageClaim, plan, sends, unknown, givenUp>>

----------------------------------------------------------------------------
Init ==
  /\ FenceInit
  /\ call = [o \in Ops |-> "idle"]
  /\ closing = {}
  /\ reading = {}
  /\ stageClaim = {}
  /\ plan = [o \in Ops |-> NoPlan]
  /\ sends = [o \in Ops |-> 0]
  /\ unknown = {}
  /\ givenUp = {}
  /\ overtaken = [o \in Ops |-> {}]

Next ==
  \/ \E o \in Ops :
       \/ Plan(o) \/ Request(o) \/ Granted(o)
       \/ Send(o) \/ NotSent(o)
       \/ ResultApplied(o) \/ ResultError(o) \/ ClosePending(o)
       \/ Heartbeat(o)
  \/ \E s \in Surfaces : Close({s}) \/ Capture(s) \/ ReadReturns(s) \/ ReadFails(s)
  \/ Close(Surfaces)
  \/ Clock
  \/ Crash

Spec == Init /\ [][Next]_vars

\* The event loop runs every callback it queued (it is never starved for good,
\* but other turns come in between), time passes, and somebody keeps reading
\* every surface with a read that succeeds now and then.  Nothing is said of
\* the calls themselves, nor of the agents' requests.
LoopFairness ==
  /\ SF_vars(Clock)
  /\ \A o \in Ops :
       /\ SF_vars(Heartbeat(o))
       /\ SF_vars(Send(o) \/ NotSent(o))
       /\ WF_vars(ClosePending(o))
  /\ \A s \in Surfaces :
       /\ SF_vars(Capture(s))
       /\ SF_vars(ReadReturns(s))
LoopSpec == Spec /\ LoopFairness

\* Moreover calls return, sooner or later.
ReturningSpec == LoopSpec /\ \A o \in Ops : SF_vars(ResultApplied(o) \/ ResultError(o))

\* Moreover a call returns while its transaction is open.  One whose lease
\* lapsed may hang for good.
OpenCallReturns(o) == tx[o] = "open" /\ (ResultApplied(o) \/ ResultError(o))
HangingSpec == LoopSpec /\ \A o \in Ops : SF_vars(OpenCallReturns(o))

----------------------------------------------------------------------------
(* Properties *)

CallStatus == {"idle", "granted", "sent", "orphan"}

\* Every variable keeps its shape.
DispatchTypeOK ==
  /\ TypeOK
  /\ call \in [Ops -> CallStatus]
  /\ closing \subseteq Surfaces
  /\ reading \subseteq Surfaces
  /\ stageClaim \subseteq StageOps
  /\ plan \in [Ops -> Nat \cup {NoPlan}]
  /\ sends \in [Ops -> Nat]
  /\ unknown \subseteq Ops
  /\ givenUp \subseteq Ops
  /\ overtaken \in [Ops -> SUBSET Ops]

\* An operation's input reaches its surface at most once, whatever is retried,
\* released, crashed or lost: "a retry with the same ID cannot replay".
SentAtMostOnce == \A o \in Ops : sends[o] <= 1

\* An operation that was sent and whose outcome nobody learnt keeps an open
\* durable receipt until a read reconciles its surface, through lapsed
\* leases, late results, failed writes and restarts.
UnknownOutcomeStaysFenced == \A o \in unknown \ givenUp : Unsettled(o)

\* A dispatch whose caller is still waiting is never forgotten by the guard
\* that keeps a second action off its surface, unless the bounded staleness
\* window ended.
WaitingCallIsGuarded ==
  \A o \in Ops \ givenUp :
    call[o] = "sent" => o \in inFlight

\* The abstract promise: at most one send, none over an unknown outcome.
InputSent == {o \in Ops : sends[o] > 0}
Input == INSTANCE SurfaceInput WITH
  Overlaps <- Conflicts, sent <- InputSent, open <- unknown, abandoned <- givenUp
ImplementsSurfaceInput == Input!InputSpec

\* A granted operation's plan was not overtaken by anything the surface epoch
\* stands for: a surface-wide commit, or an action that ended uncertain and
\* was not given up.
EpochEvents(o) ==
  {p \in overtaken[o] \ givenUp : RegionOf[p] = Whole \/ receipt[p] # "committed"}
PlanSeesEpoch ==
  [][\A o \in Ops :
       call[o] = "idle" /\ call'[o] = "granted" => EpochEvents(o) = {}]_vars

\* A surface with an unknown outcome is recovered if the clock runs, calls
\* return and somebody keeps looking, whatever restarts come in between: no
\* lapsed lease, late result or receipt of a dead broker closes it for good.
SurfaceRecovers ==
  \A s \in Surfaces :
    s \in unresolved ~> s \notin unresolved \/ surfaceRev[s] = MaxRevision

----------------------------------------------------------------------------
(* What the documentation says and the code does not do *)

\* "Without this seed a restarted broker [...] could accept a stale plan against
\* a surface it had already mutated": the seed should make that impossible.
PlanSeesEpochAcrossRestarts == PlanSeesEpoch

\* "Bound it: once a lease-expiry mark has sat in-flight [...] let a fresh
\* observation through instead of refusing indefinitely", for the calls that
\* never return.
HungSurfaceRecovers == SurfaceRecovers
=============================================================================
