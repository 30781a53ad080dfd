--------------------------- MODULE DeliveryProofs ---------------------------
(***************************************************************************)
(* Task delivery for every value of the constants.                         *)
(*                                                                         *)
(* A record that a session holds stays with it: deliveredSession never     *)
(* changes once it is set, a target is the only session that may take a    *)
(* targeted task, and whoever is in the middle of a delivery works for the *)
(* session of the record.  The first lemmas say what each of the store's   *)
(* methods does to a record, as seen by these facts; the steps follow.     *)
(***************************************************************************)
EXTENDS TaskDelivery, TLAPS, FiniteSetTheorems

\* A record r whose task was given h[s] times to session s.
Held(r, h) ==
  /\ r.target # NoSession /\ r.session # NoSession => r.session = r.target
  /\ \A s \in Sessions : h[s] > 0 => r.session = s
  /\ r.delivered => r.session \in Sessions /\ h[r.session] > 0
  /\ Answered(r) => r.delivered /\ r.result = r.session

Unsent(r) ==
  /\ r.approval = "pending" /\ r.target = NoSession /\ r.session = NoSession
  /\ ~r.delivered /\ ~Answered(r)

HeldInv == \A t \in Tasks : Held(task[t], handed[t])
UnsentInv == \A t \in Tasks : t > sent => Unsent(task[t])

\* Whoever delivers a task works for the session of its record.
RunnerInv ==
  \A t \in Tasks :
    /\ runner[t].at \in {"binding", "bound", "spawned"} =>
         runner[t].session \in Sessions /\ task[t].session = runner[t].session
    /\ runner[t].took => runner[t].at = "spawned" /\ handed[t][runner[t].session] > 0
PluginInv ==
  \A s \in Sessions :
    /\ plugin[s].at # "ready" => plugin[s].id \in Tasks
    /\ plugin[s].at \in {"prompt", "settle"} =>
         /\ task[plugin[s].id].session = s
         /\ plugin[s].outcome = "queued" => handed[plugin[s].id][s] > 0
         /\ plugin[s].at = "settle" => plugin[s].outcome # "none"
TurnInv ==
  turn # NoTurn =>
    /\ turn.at # "idle" /\ turn.id \in Tasks /\ task[turn.id].session = Managed
    /\ turn.took => handed[turn.id][Managed] > 0

CallersInv == RunnerInv /\ PluginInv /\ TurnInv

\* What an OpenCode session may list and claim is held by nobody.
Unheld(r) ==
  r.delivery \in {"none", "deferred"} /\ ~r.delivered => r.session = NoSession
PollsInv == to = "opencode" => \A t \in Tasks : Unheld(task[t])

IInv == DeliveryTypeOK /\ HeldInv /\ UnsentInv /\ CallersInv

----------------------------------------------------------------------------
(* What the store's methods do to a record *)

\* A change that concerns nobody's hold of the task.
Quiet(r, u) ==
  /\ u \in TaskRecord /\ u.target = r.target /\ u.session = r.session
  /\ u.delivered = r.delivered /\ u.result = r.result /\ u.approval = r.approval

\* A change that leaves the task with whom it is.
Fixed(r, u) ==
  /\ u \in TaskRecord /\ u.target = r.target
  /\ r.session # NoSession => u.session = r.session

LEMMA AdvanceType ==
  ASSUME NEW r \in Receipts, NEW a \in Receipts
  PROVE  Advance(r, a) \in Receipts
BY DEF Advance

LEMMA DispatchedType ==
  ASSUME NEW r \in Receipts
  PROVE  Dispatched(r) \in Receipts
BY AdvanceType DEF Dispatched, Receipts

LEMMA ReceiptForType ==
  ASSUME NEW r \in TaskRecord,
         NEW st \in {"sending", "queued", "deferred", "uncertain", "failed"}
  PROVE  ReceiptFor(r, st) \in Receipts
<1>1. r.receipt \in Receipts
  BY DEF TaskRecord
<1>2. Dispatched(r.receipt) \in Receipts
  BY <1>1, DispatchedType
<1>3. \A a \in Receipts : Advance(r.receipt, a) \in Receipts
  BY <1>1, AdvanceType
<1>4. {"provider_received", "retryable", "uncertain", "failed"} \subseteq Receipts
  BY DEF Receipts
<1> QED
  BY <1>1, <1>2, <1>3, <1>4 DEF ReceiptFor

\* A report of a transport, but for "queued", changes nobody's hold.
LEMMA ReportQuiet ==
  ASSUME NEW r \in TaskRecord, NEW thread \in MaybeSession,
         NEW st \in {"sending", "deferred", "uncertain", "failed"}
  PROVE  Quiet(r, SetDelivery(r, st, thread))
<1>1. ReceiptFor(r, st) \in Receipts
  BY ReceiptForType
<1>2. st \in Deliveries
  BY DEF Deliveries
<1> QED
  BY <1>1, <1>2 DEF Quiet, SetDelivery, TaskRecord

\* An acceptance, for a record that is the session's already.
LEMMA QueuedFixed ==
  ASSUME NEW r \in TaskRecord, NEW s \in Sessions, r.session = s
  PROVE  LET u == SetDelivery(r, "queued", s)
         IN  /\ u \in TaskRecord /\ u.target = r.target /\ u.session = s
             /\ u.result = r.result /\ u.approval = r.approval
             /\ r.delivered => u.delivered
<1>1. ReceiptFor(r, "queued") \in Receipts
  BY ReceiptForType
<1>2. "queued" \in Deliveries /\ s # NoSession /\ s \in MaybeSession
  BY ReceiptsAssumption DEF Deliveries, MaybeSession
<1> QED
  BY <1>1, <1>2 DEF SetDelivery, TaskRecord

LEMMA EndedQuiet ==
  ASSUME NEW r \in TaskRecord, NEW a \in {"paused", "canceled"}
  PROVE  Quiet(r, Ended(r, a))
<1>1. Advance(r.receipt, a) \in Receipts
  BY AdvanceType DEF TaskRecord, Receipts
<1> QED
  BY <1>1 DEF Quiet, Ended, TaskRecord

LEMMA FailedQuiet ==
  ASSUME NEW r \in TaskRecord
  PROVE  Quiet(r, Failed(r))
<1>1. Advance(r.receipt, "failed") \in Receipts
  BY AdvanceType DEF TaskRecord, Receipts
<1> QED
  BY <1>1 DEF Quiet, Failed, TaskRecord, Deliveries

LEMMA RestartQuiet ==
  ASSUME NEW r \in TaskRecord, NEW old \in BOOLEAN
  PROVE  Quiet(r, Reconciled(Retired(r), old))
<1>1. Quiet(r, Retired(r))
  BY DEF Quiet, Retired, TaskRecord
<1>2. ASSUME NEW u \in TaskRecord
      PROVE  Quiet(u, Reconciled(u, old))
  <2>1. Advance(u.receipt, "uncertain") \in Receipts
    BY AdvanceType DEF TaskRecord, Receipts
  <2> DEFINE lapsed == [u EXCEPT !.delivery = "uncertain",
                                 !.receipt = Advance(@, "uncertain")]
  <2>2. Quiet(u, u)
    BY DEF Quiet
  <2>3. Quiet(u, lapsed)
    BY <2>1 DEF Quiet, TaskRecord, Deliveries
  <2>4. Reconciled(u, old) = u \/ Reconciled(u, old) = lapsed
    BY DEF Reconciled
  <2> QED
    BY <2>2, <2>3, <2>4
<1> QED
  BY <1>1, <1>2 DEF Quiet

LEMMA SettledQuiet ==
  ASSUME NEW r \in TaskRecord, NEW st \in {"failed", "uncertain"}
  PROVE  Quiet(r, Settled(r, st))
<1>1. Advance(r.receipt, st) \in Receipts
  BY AdvanceType DEF TaskRecord, Receipts
<1> QED
  BY <1>1 DEF Quiet, Settled, TaskRecord, Deliveries

LEMMA SettledQueued ==
  ASSUME NEW r \in TaskRecord
  PROVE  LET u == Settled(r, "queued")
         IN  /\ u \in TaskRecord /\ u.target = r.target /\ u.session = r.session
             /\ u.result = r.result /\ u.approval = r.approval
             /\ r.delivered => u.delivered
<1>1. Advance(r.receipt, "provider_received") \in Receipts
  BY AdvanceType DEF TaskRecord, Receipts
<1> QED
  BY <1>1 DEF Settled, TaskRecord, Deliveries

\* The claims of OpenCode and Claude.
LEMMA ClaimGives ==
  ASSUME NEW r \in TaskRecord, NEW s \in Sessions
  PROVE  LET u == SessionClaimed(r, s)
         IN  /\ u \in TaskRecord /\ u.target = r.target /\ u.session = s
             /\ u.result = r.result /\ u.approval = r.approval
             /\ u.delivered = r.delivered
<1>1. Dispatched(r.receipt) \in Receipts
  BY DispatchedType DEF TaskRecord
<1> QED
  BY <1>1 DEF SessionClaimed, TaskRecord, Deliveries, MaybeSession

LEMMA TakenGives ==
  ASSUME NEW r \in TaskRecord, NEW s \in Sessions, Takes(r, s),
         r.target # NoSession /\ r.session # NoSession => r.session = r.target
  PROVE  LET u == Taken(r, s)
         IN  /\ u \in TaskRecord /\ u.target = r.target /\ u.session = s
             /\ u.result = r.result /\ u.approval = r.approval
             /\ u.delivered /\ r.session \in {NoSession, s}
             /\ r.target \in {NoSession, s}
<1>1. Advance(r.receipt, "provider_received") \in Receipts
  BY AdvanceType DEF TaskRecord, Receipts
<1>2. r.session \in {NoSession, s} /\ r.target \in {NoSession, s}
  BY DEF Takes, Elsewhere, Owner
<1> QED
  BY <1>1, <1>2 DEF Taken, TaskRecord, MaybeSession

LEMMA CompletedFixed ==
  ASSUME NEW r \in TaskRecord, NEW s \in Sessions
  PROVE  LET u == Completed(r, s)
         IN  /\ u \in TaskRecord /\ u.target = r.target /\ u.session = r.session
             /\ u.result = s /\ u.approval = r.approval
             /\ u.delivered = r.delivered
<1>1. Advance(r.receipt, "completed") \in Receipts
  BY AdvanceType DEF TaskRecord, Receipts
<1> QED
  BY <1>1 DEF Completed, TaskRecord, Deliveries, MaybeSession

\* The binding of a Codex runner.
LEMMA BindGives ==
  ASSUME NEW r \in TaskRecord, NEW s \in Sessions, Bindable(r, s),
         r.target \in {NoSession, s},
         r.target # NoSession /\ r.session # NoSession => r.session = r.target
  PROVE  LET u == Bound(r, s)
         IN  /\ u \in TaskRecord /\ u.target = r.target /\ u.session = s
             /\ u.result = r.result /\ u.approval = r.approval
             /\ u.delivered = r.delivered /\ r.session \in {NoSession, s}
             /\ r.approval = "granted" /\ ~Answered(r)
<1> DEFINE b == Bound(r, s)
<1>1. /\ b \in TaskRecord /\ b.target = r.target /\ b.session = s
      /\ b.result = r.result /\ b.approval = r.approval
      /\ b.delivered = r.delivered
  BY DEF Bound, TaskRecord, MaybeSession
<1>2. /\ r.session \in {NoSession, s} /\ r.approval = "granted"
      /\ ~Answered(r)
  BY DEF Bindable, Owner, CanQueue
<1> QED
  BY <1>1, <1>2

----------------------------------------------------------------------------
(* What a step does to all the records *)

QuietStep == task' \in [Tasks -> TaskRecord] /\ \A t \in Tasks : Quiet(task[t], task'[t])
FixedStep == \A t \in Tasks : Fixed(task[t], task'[t])
HandedOn ==
  /\ handed' \in [Tasks -> [Sessions -> Nat]]
  /\ \A t \in Tasks, s \in Sessions : handed'[t][s] >= handed[t][s]

LEMMA WriteQuiet ==
  ASSUME DeliveryTypeOK, NEW t \in Tasks, NEW r, Quiet(task[t], r), Write(t, r)
  PROVE  QuietStep
BY DEF DeliveryTypeOK, Quiet, Write, QuietStep

LEMMA ReportQuietly ==
  ASSUME DeliveryTypeOK, NEW t \in Tasks, NEW thread \in MaybeSession,
         NEW st \in {"sending", "deferred", "uncertain", "failed"},
         Report(t, st, thread)
  PROVE  QuietStep
<1>1. task[t] \in TaskRecord
  BY DEF DeliveryTypeOK
<1>2. Quiet(task[t], SetDelivery(task[t], st, thread))
  BY <1>1, ReportQuiet
<1> QED
  BY <1>2, WriteQuiet DEF Report

LEMMA QuietKeeps ==
  ASSUME DeliveryTypeOK, HeldInv, UnsentInv, QuietStep, handed' = handed,
         sent' = sent
  PROVE  HeldInv' /\ UnsentInv' /\ FixedStep /\ HandedOn
<1>1. HeldInv'
  BY DEF HeldInv, QuietStep, Quiet, Held, Answered
<1>2. UnsentInv'
  BY DEF UnsentInv, QuietStep, Quiet, Unsent, Answered
<1>3. FixedStep
  BY DEF FixedStep, QuietStep, Quiet, Fixed
<1>4. HandedOn
  BY DEF HandedOn, DeliveryTypeOK
<1> QED
  BY <1>1, <1>2, <1>3, <1>4

LEMMA CallersKept ==
  ASSUME DeliveryTypeOK, CallersInv, FixedStep, HandedOn
  PROVE  /\ runner' = runner => RunnerInv'
         /\ plugin' = plugin => PluginInv'
         /\ turn' = turn => TurnInv'
<1>1. \A t \in Tasks, s \in Sessions :
        /\ task[t].session = s => task'[t].session = s
        /\ handed[t][s] > 0 => handed'[t][s] > 0
  <2> TAKE t \in Tasks, s \in Sessions
  <2>1. task[t].session = s => task'[t].session = s
    BY ReceiptsAssumption DEF FixedStep, Fixed
  <2>2. /\ handed[t][s] \in Nat /\ handed'[t][s] \in Nat
        /\ handed'[t][s] >= handed[t][s]
    BY DEF HandedOn, DeliveryTypeOK
  <2> QED
    BY <2>1, <2>2
<1>2. ASSUME runner' = runner PROVE RunnerInv'
  BY <1>1, <1>2 DEF CallersInv, RunnerInv
<1>3. ASSUME plugin' = plugin PROVE PluginInv'
  BY <1>1, <1>3 DEF CallersInv, PluginInv
<1>4. ASSUME turn' = turn PROVE TurnInv'
  BY <1>1, <1>4, DeliveryAssumption DEF CallersInv, TurnInv
<1> QED
  BY <1>2, <1>3, <1>4

LEMMA HandGives ==
  ASSUME DeliveryTypeOK, NEW ids, NEW s \in Sessions, Hand(ids, s)
  PROVE  /\ HandedOn
         /\ \A t \in Tasks, v \in Sessions :
              handed'[t][v] = handed[t][v] + IF v = s /\ t \in ids THEN 1 ELSE 0
BY DEF DeliveryTypeOK, Hand, HandedOn

\* A session that is given a task holds its record.
LEMMA HandHeld ==
  ASSUME DeliveryTypeOK, HeldInv, NEW ids, NEW s \in Sessions, Hand(ids, s),
         task' \in [Tasks -> TaskRecord], FixedStep,
         \A t \in Tasks : /\ t \in ids => task'[t].session = s
                          /\ task'[t].result = task[t].result
                          /\ Answered(task[t]) => task[t].session = task'[t].session
                          /\ task'[t].delivered = task[t].delivered
                          /\ task'[t].target # NoSession /\ task'[t].session # NoSession
                               => task'[t].session = task'[t].target
  PROVE  HeldInv'
<1> SUFFICES ASSUME NEW t \in Tasks PROVE Held(task'[t], handed'[t])
  BY DEF HeldInv
<1>1. /\ HandedOn
      /\ \A v \in Sessions :
           handed'[t][v] = handed[t][v] + IF v = s /\ t \in ids THEN 1 ELSE 0
  BY HandGives
<1>2. Held(task[t], handed[t]) /\ Fixed(task[t], task'[t])
  BY DEF HeldInv, FixedStep
<1>3. \A v \in Sessions : handed'[t][v] > 0 => task'[t].session = v
  <2>1. \A v \in Sessions : handed[t][v] \in Nat
    BY DEF DeliveryTypeOK
  <2> QED
    BY <1>1, <1>2, <2>1, ReceiptsAssumption DEF Held, Fixed
<1>4. task'[t].delivered => task'[t].session \in Sessions /\ handed'[t][task'[t].session] > 0
  BY <1>1, <1>2, ReceiptsAssumption DEF Held, Fixed, DeliveryTypeOK, HandedOn
<1> QED
  BY <1>2, <1>3, <1>4 DEF Held, Answered

----------------------------------------------------------------------------
(* Senders, the person, time, and readers *)

\* The records of an owner's, another agent's, or nobody's new task.
LEMMA NewTaskGives ==
  ASSUME NEW owner \in BOOLEAN, NEW approval \in {"pending", "granted"},
         NEW target \in MaybeSession
  PROVE  LET r == NewTask(owner, approval, target)
         IN  /\ r \in TaskRecord /\ r.target = target /\ r.session = NoSession
             /\ ~r.delivered /\ ~Answered(r)
BY DEF NewTask, TaskRecord, MaybeSession, Deliveries, Receipts, Answered

\* A step that sends one task and is quiet about the others.
LEMMA SentKeeps ==
  ASSUME DeliveryTypeOK, HeldInv, UnsentInv, sent < MaxTasks, sent' = sent + 1,
         task' \in [Tasks -> TaskRecord], handed' = handed,
         task'[sent + 1].session = NoSession, ~task'[sent + 1].delivered,
         ~Answered(task'[sent + 1]),
         \A t \in Tasks \ {sent + 1} : Quiet(task[t], task'[t])
  PROVE  /\ HeldInv' /\ UnsentInv' /\ HandedOn
         /\ \A t \in Tasks, s \in Sessions :
              task[t].session = s => task'[t].session = s
<1>1. sent \in Nat /\ sent + 1 \in Tasks /\ sent + 1 > sent
  BY DeliveryAssumption DEF DeliveryTypeOK, Tasks
<1>2. Unsent(task[sent + 1]) /\ Held(task[sent + 1], handed[sent + 1])
  BY <1>1 DEF UnsentInv, HeldInv
<1>3. HeldInv'
  <2> SUFFICES ASSUME NEW t \in Tasks PROVE Held(task'[t], handed'[t])
    BY DEF HeldInv
  <2>1. CASE t = sent + 1
    BY <1>2, <2>1, ReceiptsAssumption DEF Held, Unsent
  <2>2. CASE t # sent + 1
    BY <2>2 DEF HeldInv, Held, Quiet, Answered
  <2> QED
    BY <2>1, <2>2
<1>4. UnsentInv'
  <2> SUFFICES ASSUME NEW t \in Tasks, t > sent + 1 PROVE Unsent(task'[t])
    BY DEF UnsentInv
  <2>1. t # sent + 1 /\ t > sent
    BY <1>1 DEF Tasks
  <2> QED
    BY <2>1 DEF UnsentInv, Unsent, Quiet, Answered
<1>5. HandedOn
  BY DEF HandedOn, DeliveryTypeOK
<1>6. ASSUME NEW t \in Tasks, NEW s \in Sessions, task[t].session = s
      PROVE  task'[t].session = s
  BY <1>2, <1>6, ReceiptsAssumption DEF Unsent, Quiet
<1> QED
  BY <1>3, <1>4, <1>5, <1>6

LEMMA CallersHeld ==
  ASSUME DeliveryTypeOK, CallersInv, HandedOn, UNCHANGED <<runner, plugin>>,
         \A t \in Tasks, s \in Sessions : task[t].session = s => task'[t].session = s
  PROVE  RunnerInv' /\ PluginInv' /\ (UNCHANGED turn => TurnInv')
<1>1. \A t \in Tasks, s \in Sessions : handed[t][s] > 0 => handed'[t][s] > 0
  <2> TAKE t \in Tasks, s \in Sessions
  <2>1. /\ handed[t][s] \in Nat /\ handed'[t][s] \in Nat
        /\ handed'[t][s] >= handed[t][s]
    BY DEF HandedOn, DeliveryTypeOK
  <2> QED
    BY <2>1
<1>2. RunnerInv'
  BY <1>1 DEF CallersInv, RunnerInv
<1>3. PluginInv'
  BY <1>1 DEF CallersInv, PluginInv
<1>4. ASSUME UNCHANGED turn PROVE TurnInv'
  BY <1>1, <1>4, DeliveryAssumption DEF CallersInv, TurnInv
<1> QED
  BY <1>2, <1>3, <1>4

LEMMA SendKeeps ==
  ASSUME IInv, NEW owner \in BOOLEAN, NEW approval \in {"pending", "granted"},
         NEW target \in MaybeSession, Send(owner, approval, target)
  PROVE  IInv'
<1> USE DEF IInv
<1> DEFINE r == NewTask(owner, approval, target)
<1>1. /\ r \in TaskRecord /\ r.session = NoSession /\ ~r.delivered /\ ~Answered(r)
  BY NewTaskGives
<1> HIDE DEF r
<1>2. /\ task' = [task EXCEPT ![sent + 1] = r] /\ sent < MaxTasks /\ sent' = sent + 1
      /\ UNCHANGED <<to, cursor, preview, transports, handed, faults>>
  BY DEF Send, Write, r
<1>3. sent + 1 \in Tasks /\ sent' \in 0..MaxTasks /\ task \in [Tasks -> TaskRecord]
  BY <1>2, DeliveryAssumption DEF DeliveryTypeOK, Tasks
<1>4. /\ task' \in [Tasks -> TaskRecord] /\ task'[sent + 1] = r
      /\ \A t \in Tasks \ {sent + 1} : Quiet(task[t], task'[t])
  BY <1>1, <1>2, <1>3 DEF Quiet
<1>5. /\ HeldInv' /\ UnsentInv' /\ HandedOn
      /\ \A t \in Tasks, s \in Sessions : task[t].session = s => task'[t].session = s
  BY <1>1, <1>2, <1>4, SentKeeps
<1>6. CallersInv'
  BY <1>2, <1>5, CallersHeld DEF CallersInv, transports
<1>7. DeliveryTypeOK'
  BY <1>2, <1>3, <1>4 DEF DeliveryTypeOK, transports
<1> QED
  BY <1>5, <1>6, <1>7

\* A quiet step beside which only shapes change.
LEMMA QuietInv ==
  ASSUME IInv, QuietStep,
         UNCHANGED <<to, sent, cursor, preview, transports, handed>>,
         faults' \in 0..MaxFaults
  PROVE  IInv'
<1> USE DEF IInv
<1>1. HeldInv' /\ UnsentInv' /\ FixedStep /\ HandedOn
  BY QuietKeeps
<1>2. CallersInv'
  BY <1>1, CallersKept DEF CallersInv, transports
<1>3. DeliveryTypeOK'
  BY DEF DeliveryTypeOK, QuietStep, transports
<1> QED
  BY <1>1, <1>2, <1>3

LEMMA FaultBounded ==
  ASSUME DeliveryTypeOK, Fault
  PROVE  faults' \in 0..MaxFaults
BY DeliveryAssumption DEF DeliveryTypeOK, Fault

\* The person's answer, for a task that was sent.
LEMMA DecideKeeps ==
  ASSUME IInv, NEW t \in Tasks, NEW yes \in BOOLEAN, Decide(t, yes)
  PROVE  IInv'
<1> USE DEF IInv
<1> DEFINE r == IF yes THEN Approved(task[t], to = "claude")
                       ELSE [task[t] EXCEPT !.approval = "refused"]
<1>1. /\ task \in [Tasks -> TaskRecord] /\ task[t] \in TaskRecord
      /\ UNCHANGED <<to, sent, cursor, preview, transports, handed, faults>>
      /\ task' = [task EXCEPT ![t] = r] /\ t \in 1..sent
  BY DEF DeliveryTypeOK, Decide, Write, Sent
<1>2. /\ r \in TaskRecord /\ r.target = task[t].target /\ r.session = task[t].session
      /\ r.delivered = task[t].delivered /\ r.result = task[t].result
  BY <1>1 DEF Approved, TaskRecord, Deliveries
<1> HIDE DEF r
<1>3. task' \in [Tasks -> TaskRecord] /\ \A u \in Tasks : u # t => task'[u] = task[u]
  BY <1>1, <1>2
<1>4. \A u \in Tasks :
        /\ task'[u].target = task[u].target /\ task'[u].session = task[u].session
        /\ task'[u].delivered = task[u].delivered /\ task'[u].result = task[u].result
  BY <1>1, <1>2
<1>5. HeldInv' /\ FixedStep
  BY <1>1, <1>3, <1>4 DEF HeldInv, Held, FixedStep, Fixed, Answered
<1>6. UnsentInv'
  BY <1>1, <1>3, DeliveryAssumption DEF UnsentInv, Tasks, DeliveryTypeOK
<1>7. HandedOn
  BY <1>1 DEF HandedOn, DeliveryTypeOK
<1>8. CallersInv'
  BY <1>1, <1>5, <1>7, CallersKept DEF CallersInv, transports
<1>9. DeliveryTypeOK'
  BY <1>1, <1>3 DEF DeliveryTypeOK, transports
<1> QED
  BY <1>5, <1>6, <1>8, <1>9

LEMMA SendersKeep ==
  ASSUME IInv, Senders
  PROVE  IInv'
<1> USE DEF IInv
<1>1. ASSUME NEW owner \in BOOLEAN, NEW approval \in {"pending", "granted"},
             NEW target \in MaybeSession, Send(owner, approval, target)
      PROVE  IInv'
  BY <1>1, SendKeeps
<1>2. ASSUME NEW t \in Tasks, Defer(t) PROVE IInv'
  <2>1. QuietStep
    BY <1>2, ReportQuietly DEF Defer, MaybeSession
  <2> QED
    BY <1>2, <2>1, QuietInv DEF Defer, DeliveryTypeOK
<1>3. ASSUME NEW t \in Tasks, GrowStale(t) PROVE IInv'
  <2>1. Quiet(task[t], [task[t] EXCEPT !.age = "stale"])
    <3>1. task[t] \in TaskRecord
      BY DEF DeliveryTypeOK
    <3> QED
      BY <3>1 DEF Quiet, TaskRecord
  <2>2. QuietStep
    BY <1>3, <2>1, WriteQuiet DEF GrowStale
  <2> QED
    BY <1>3, <2>2, QuietInv, FaultBounded DEF GrowStale
<1>4. ASSUME NEW t \in Tasks, PauseStage(t) PROVE IInv'
  <2>1. Quiet(task[t], Ended(task[t], "paused"))
    BY EndedQuiet DEF DeliveryTypeOK
  <2>2. QuietStep
    BY <1>4, <2>1, WriteQuiet DEF PauseStage
  <2> QED
    BY <1>4, <2>2, QuietInv, FaultBounded DEF PauseStage
<1>5. ASSUME NEW t \in Tasks, NEW yes \in BOOLEAN, Decide(t, yes) PROVE IInv'
  BY <1>5, DecideKeeps
<1> QED
  BY <1>1, <1>2, <1>3, <1>4, <1>5 DEF Senders

\* An answer to a delivered task that is the session's or nobody's.
LEMMA CompleteKeeps ==
  ASSUME DeliveryTypeOK, HeldInv, UnsentInv, NEW t \in Tasks, NEW s \in Sessions,
         task[t].delivered, ~Answered(task[t]), Owner(task[t]) \in {NoSession, s},
         Write(t, Completed(task[t], s)), handed' = handed, sent' = sent
  PROVE  /\ HeldInv' /\ UnsentInv' /\ FixedStep /\ HandedOn
         /\ task' \in [Tasks -> TaskRecord]
<1> DEFINE r == Completed(task[t], s)
<1>1. task[t] \in TaskRecord /\ task \in [Tasks -> TaskRecord] /\ Held(task[t], handed[t])
  BY DEF DeliveryTypeOK, HeldInv
<1>2. /\ r \in TaskRecord /\ r.target = task[t].target /\ r.session = task[t].session
      /\ r.result = s /\ r.approval = task[t].approval
      /\ r.delivered = task[t].delivered
  BY <1>1, CompletedFixed
<1>3. task' = [task EXCEPT ![t] = r]
  BY DEF Write
<1> HIDE DEF r
<1>4. task[t].session = s
  BY <1>1, ReceiptsAssumption DEF Held, Owner
<1>5. Held(r, handed[t])
  BY <1>1, <1>2, <1>4 DEF Held, Answered
<1>6. /\ task' \in [Tasks -> TaskRecord] /\ task'[t] = r
      /\ \A u \in Tasks : u # t => task'[u] = task[u]
  BY <1>1, <1>2, <1>3
<1>7. HeldInv'
  BY <1>5, <1>6 DEF HeldInv
<1>8. UnsentInv'
  BY <1>6 DEF UnsentInv, Unsent
<1>9. FixedStep
  BY <1>1, <1>2, <1>6 DEF FixedStep, Fixed
<1> QED
  BY <1>6, <1>7, <1>8, <1>9 DEF HandedOn, DeliveryTypeOK

LEMMA AnswerKeeps ==
  ASSUME IInv, NEW t \in Tasks, NEW s \in Sessions,
         task[t].delivered, ~Answered(task[t]), Owner(task[t]) \in {NoSession, s},
         Write(t, Completed(task[t], s)),
         UNCHANGED <<to, sent, cursor, preview, transports, handed, faults>>
  PROVE  IInv'
<1> USE DEF IInv
<1>1. /\ HeldInv' /\ UnsentInv' /\ FixedStep /\ HandedOn
      /\ task' \in [Tasks -> TaskRecord]
  BY CompleteKeeps
<1>2. CallersInv'
  BY <1>1, CallersKept DEF CallersInv, transports
<1>3. DeliveryTypeOK'
  BY <1>1 DEF DeliveryTypeOK, transports
<1> QED
  BY <1>1, <1>2, <1>3

\* claimInboxTasks takes tasks that are the session's or nobody's.
LEMMA ReadKeeps ==
  ASSUME IInv, NEW s \in Sessions, Read(s)
  PROVE  IInv'
<1> USE DEF IInv
<1> DEFINE scope == preview[s].scope
           Moves(t) == t > cursor[s][scope] /\ (Takes(task[t], s) \/ Passes(task[t], s))
           moved == {t \in preview[s].ids : Moves(t)}
           taken == {t \in moved : Takes(task[t], s)}
<1>1. /\ task \in [Tasks -> TaskRecord] /\ preview[s].ids \in SUBSET Tasks
      /\ scope \in Scopes
  BY DEF DeliveryTypeOK
<1>2. /\ task' = [t \in Tasks |-> IF t \in taken THEN Taken(task[t], s) ELSE task[t]]
      /\ preview' = [preview EXCEPT ![s] = NoPreview] /\ Hand(taken, s)
      /\ UNCHANGED <<to, sent, transports, faults>>
      /\ \/ cursor' = cursor
         \/ \E t \in moved : cursor' = [cursor EXCEPT ![s][scope] = t]
  BY DEF Read
<1>3. taken \subseteq Tasks /\ moved \subseteq Tasks
      /\ \A t \in taken : Takes(task[t], s)
  BY <1>1
<1> HIDE DEF taken, moved, scope
<1>4. \A t \in Tasks : /\ t \in taken => task'[t] = Taken(task[t], s)
                       /\ t \notin taken => task'[t] = task[t]
                       /\ task[t] \in TaskRecord /\ Held(task[t], handed[t])
  BY <1>1, <1>2 DEF HeldInv
<1>5. \A t \in taken :
        LET u == Taken(task[t], s)
        IN  /\ u \in TaskRecord /\ u.target = task[t].target /\ u.session = s
            /\ u.result = task[t].result /\ u.approval = task[t].approval
            /\ u.delivered /\ task[t].session \in {NoSession, s}
            /\ task[t].target \in {NoSession, s}
            /\ task[t].approval # "pending" /\ ~Answered(task[t])
  BY <1>3, <1>4, TakenGives DEF Held, Takes, Over
<1>6. task' \in [Tasks -> TaskRecord]
  BY <1>1, <1>2, <1>3, <1>5
<1>7. FixedStep
  BY <1>4, <1>5 DEF FixedStep, Fixed
<1>8. /\ HandedOn
      /\ \A t \in Tasks, v \in Sessions :
           handed'[t][v] = handed[t][v] + IF v = s /\ t \in taken THEN 1 ELSE 0
  BY <1>2, HandGives
<1>9. HeldInv'
  <2> SUFFICES ASSUME NEW t \in Tasks PROVE Held(task'[t], handed'[t])
    BY DEF HeldInv
  <2>1. CASE t \in taken
    <3>1. \A v \in Sessions : handed'[t][v] > 0 => v = s
      <4>1. \A v \in Sessions : handed[t][v] \in Nat
        BY DEF DeliveryTypeOK
      <4> QED
        BY <1>4, <1>5, <1>8, <2>1, <4>1, ReceiptsAssumption DEF Held
    <3>2. handed[t][s] \in Nat /\ handed'[t][s] > 0
      BY <1>8, <2>1 DEF DeliveryTypeOK
    <3> QED
      BY <1>4, <1>5, <2>1, <3>1, <3>2 DEF Held, Answered
  <2>2. CASE t \notin taken
    <3>1. \A v \in Sessions : handed'[t][v] = handed[t][v]
      BY <1>8, <2>2 DEF DeliveryTypeOK
    <3> QED
      BY <1>4, <2>2, <3>1 DEF Held
  <2> QED
    BY <2>1, <2>2
<1>10. UnsentInv'
  BY <1>2, <1>4, <1>5 DEF UnsentInv, Unsent
<1>11. CallersInv'
  BY <1>2, <1>7, <1>8, CallersKept DEF CallersInv, transports
<1>12. cursor' \in [Sessions -> [Scopes -> 0..MaxTasks]]
  <2>1. CASE cursor' = cursor
    BY <2>1 DEF DeliveryTypeOK
  <2>2. CASE \E t \in moved : cursor' = [cursor EXCEPT ![s][scope] = t]
    BY <1>1, <1>3, <2>2, DeliveryAssumption DEF DeliveryTypeOK, Tasks
  <2> QED
    BY <1>2, <2>1, <2>2
<1>13. DeliveryTypeOK'
  BY <1>2, <1>6, <1>8, <1>12
     DEF DeliveryTypeOK, transports, NoPreview, HandedOn, Scopes
<1> QED
  BY <1>9, <1>10, <1>11, <1>13

LEMMA ReadersKeep ==
  ASSUME IInv, Readers
  PROVE  IInv'
<1> USE DEF IInv
<1>1. ASSUME NEW s \in Sessions, Read(s) PROVE IInv'
  BY <1>1, ReadKeeps
<1>2. ASSUME NEW s \in Sessions, NEW named \in BOOLEAN, EndTurn(s, named) PROVE IInv'
  <2>1. PICK t \in Sent :
          /\ task[t].delivered /\ ~Answered(task[t])
          /\ Owner(task[t]) \in {NoSession, s}
          /\ Write(t, Completed(task[t], s))
          /\ UNCHANGED <<to, sent, cursor, preview, transports, handed, faults>>
    BY <1>2 DEF EndTurn
  <2>2. t \in Tasks
    BY DeliveryAssumption DEF Sent, Tasks, DeliveryTypeOK
  <2> QED
    BY <2>1, <2>2, AnswerKeeps
<1>3. ASSUME NEW t \in Tasks, NEW s \in Sessions, ReportResult(t, s) PROVE IInv'
  <2>1. /\ task[t].delivered /\ ~Answered(task[t]) /\ Owner(task[t]) = s
        /\ Write(t, Completed(task[t], s))
        /\ UNCHANGED <<to, sent, cursor, preview, transports, handed, faults>>
    BY <1>3 DEF ReportResult, ResultFits
  <2> QED
    BY <2>1, AnswerKeeps
<1>4. ASSUME NEW s \in Sessions, NEW scope \in Scopes, Look(s, scope) PROVE IInv'
  <2>1. /\ UNCHANGED <<to, sent, task, cursor, transports, handed, faults>>
        /\ \E ids \in SUBSET Visible(s, scope) :
             preview' = [preview EXCEPT ![s] = [scope |-> scope, ids |-> ids]]
    BY <1>4 DEF Look
  <2>2. Visible(s, scope) \subseteq Tasks
    BY DeliveryAssumption DEF Visible, Sent, Tasks, DeliveryTypeOK
  <2>3. preview' \in [Sessions -> [scope : Scopes, ids : SUBSET Tasks]]
    BY <2>1, <2>2 DEF DeliveryTypeOK
  <2>4. DeliveryTypeOK'
    BY <2>1, <2>3 DEF DeliveryTypeOK, transports
  <2> QED
    BY <2>1, <2>4 DEF HeldInv, UnsentInv, CallersInv, RunnerInv, PluginInv, TurnInv, transports
<1> QED
  BY <1>1, <1>2, <1>3, <1>4 DEF Readers

----------------------------------------------------------------------------
(* Codex *)

\* A step of a runner that is quiet about the tasks.
LEMMA RunnerQuiet ==
  ASSUME IInv, QuietStep, NEW t \in Tasks,
         Run(t, NoRunner) \/ Run(t, [NoRunner EXCEPT !.at = "claimed"]),
         faults' \in 0..MaxFaults,
         UNCHANGED <<to, sent, cursor, preview, plugin, watched, turn, waiting, late,
                     handed>>
  PROVE  IInv'
<1> USE DEF IInv
<1>1. HeldInv' /\ UnsentInv' /\ FixedStep /\ HandedOn
  BY QuietKeeps
<1>2. PluginInv' /\ TurnInv'
  BY <1>1, CallersKept
<1>3. /\ \A u \in Tasks : u # t => runner'[u] = runner[u]
      /\ runner'[t].at \in {"idle", "claimed"} /\ ~runner'[t].took
      /\ runner' \in [Tasks -> [at : {"idle", "claimed", "binding", "bound", "spawned"},
                                session : MaybeSession, took : BOOLEAN]]
  <2> DEFINE States == [at : {"idle", "claimed", "binding", "bound", "spawned"},
                        session : MaybeSession, took : BOOLEAN]
  <2>1. PICK state : /\ runner' = [runner EXCEPT ![t] = state]
                     /\ state = NoRunner \/ state = [NoRunner EXCEPT !.at = "claimed"]
    BY DEF Run
  <2>2. state \in States /\ state.at \in {"idle", "claimed"} /\ ~state.took
    <3>1. CASE state = NoRunner
      BY <3>1 DEF NoRunner, MaybeSession
    <3>2. CASE state = [NoRunner EXCEPT !.at = "claimed"]
      BY <3>2 DEF NoRunner, MaybeSession
    <3> QED
      BY <2>1, <3>1, <3>2
  <2>3. runner \in [Tasks -> States]
    BY DEF DeliveryTypeOK
  <2> HIDE DEF States
  <2>4. runner' \in [Tasks -> States] /\ runner'[t] = state
        /\ \A u \in Tasks : u # t => runner'[u] = runner[u]
    BY <2>1, <2>2, <2>3
  <2> QED
    BY <2>2, <2>4 DEF States
<1>4. RunnerInv'
  BY <1>3 DEF RunnerInv, CallersInv, QuietStep, Quiet
<1>5. DeliveryTypeOK'
  BY <1>3 DEF DeliveryTypeOK, QuietStep
<1> QED
  BY <1>1, <1>2, <1>4, <1>5 DEF CallersInv

\* A runner binds the session, which is the task's or the task is free.
LEMMA BindKeeps ==
  ASSUME IInv, NEW t \in Tasks, NEW s \in Sessions, CodexBind(t, s)
  PROVE  IInv'
<1> USE DEF IInv
<1> DEFINE r == Bound(task[t], s)
<1>1. /\ task \in [Tasks -> TaskRecord] /\ task[t] \in TaskRecord
      /\ Held(task[t], handed[t]) /\ Bindable(task[t], s)
      /\ task[t].target \in {NoSession, s} /\ task' = [task EXCEPT ![t] = r]
      /\ runner' = [runner EXCEPT ![t] = [NoRunner EXCEPT !.at = "binding", !.session = s]]
      /\ UNCHANGED <<to, sent, cursor, preview, plugin, watched, turn, waiting, late,
                     handed, faults>>
  BY DEF CodexBind, DeliveryTypeOK, HeldInv, Write, Run
<1>2. /\ r \in TaskRecord /\ r.target = task[t].target /\ r.session = s
      /\ r.result = task[t].result /\ r.approval = task[t].approval
      /\ r.delivered = task[t].delivered /\ task[t].session \in {NoSession, s}
      /\ task[t].approval = "granted" /\ ~Answered(task[t])
  BY <1>1, BindGives DEF Held
<1> HIDE DEF r
<1>3. /\ task' \in [Tasks -> TaskRecord] /\ task'[t] = r
      /\ \A u \in Tasks : u # t => task'[u] = task[u]
  BY <1>1, <1>2
<1>4. FixedStep /\ HandedOn
  BY <1>1, <1>2, <1>3 DEF FixedStep, Fixed, HandedOn, DeliveryTypeOK
<1>5. Held(r, handed[t])
  BY <1>1, <1>2, ReceiptsAssumption DEF Held, Answered
<1>6. HeldInv'
  BY <1>1, <1>3, <1>5 DEF HeldInv
<1>7. UnsentInv'
  BY <1>1, <1>2, <1>3 DEF UnsentInv, Unsent
<1>8. PluginInv' /\ TurnInv'
  BY <1>1, <1>4, CallersKept
<1>9. RunnerInv'
  BY <1>1, <1>2, <1>3 DEF RunnerInv, CallersInv, NoRunner, DeliveryTypeOK
<1>10. DeliveryTypeOK'
  BY <1>1, <1>3 DEF DeliveryTypeOK, NoRunner, MaybeSession
<1> QED
  BY <1>6, <1>7, <1>8, <1>9, <1>10 DEF CallersInv

\* The claim records the session that the runner has bound.
LEMMA RecordKeeps ==
  ASSUME IInv, NEW t \in Tasks, CodexRecord(t)
  PROVE  IInv'
<1> USE DEF IInv
<1>1. /\ runner[t].session \in Sessions /\ runner[t].at = "binding"
      /\ Report(t, "sending", runner[t].session)
      /\ runner' = [runner EXCEPT ![t] = [@ EXCEPT !.at = "bound"]]
      /\ UNCHANGED <<to, sent, cursor, preview, plugin, watched, turn, waiting, late,
                     handed, faults>>
  BY DEF CodexRecord, Running, Run, CallersInv, RunnerInv
<1>2. QuietStep
  BY <1>1, ReportQuietly DEF MaybeSession
<1>3. HeldInv' /\ UnsentInv' /\ FixedStep /\ HandedOn
  BY <1>1, <1>2, QuietKeeps
<1>4. PluginInv' /\ TurnInv'
  BY <1>1, <1>3, CallersKept
<1>5. /\ runner' \in [Tasks -> [at : {"idle", "claimed", "binding", "bound", "spawned"},
                                session : MaybeSession, took : BOOLEAN]]
      /\ runner'[t].at = "bound" /\ runner'[t].session = runner[t].session
      /\ runner'[t].took = runner[t].took
      /\ \A u \in Tasks : u # t => runner'[u] = runner[u]
  BY <1>1 DEF DeliveryTypeOK
<1>6. RunnerInv'
  BY <1>1, <1>2, <1>5 DEF RunnerInv, CallersInv, QuietStep, Quiet
<1>7. DeliveryTypeOK'
  BY <1>1, <1>2, <1>5 DEF DeliveryTypeOK, QuietStep
<1> QED
  BY <1>3, <1>4, <1>6, <1>7 DEF CallersInv

\* codex queue gives the task to the session it is bound to.
LEMMA SpawnKeeps ==
  ASSUME IInv, NEW t \in Tasks, NEW took \in BOOLEAN, CodexSpawn(t, took)
  PROVE  IInv'
<1> USE DEF IInv
<1> DEFINE s == runner[t].session
           ids == IF took THEN {t} ELSE {}
<1>1. /\ s \in Sessions /\ task[t].session = s
      /\ runner' = [runner EXCEPT ![t] = [at |-> "spawned", session |-> s, took |-> took]]
      /\ Report(t, "sending", s) /\ Hand(ids, s)
      /\ UNCHANGED <<to, sent, cursor, preview, plugin, watched, turn, waiting, late,
                     faults>>
  BY DEF CodexSpawn, Running, Run, CallersInv, RunnerInv
<1> HIDE DEF s
<1>2. QuietStep
  BY <1>1, ReportQuietly DEF MaybeSession
<1>3. /\ HandedOn
      /\ \A u \in Tasks, v \in Sessions :
           handed'[u][v] = handed[u][v] + IF v = s /\ u \in ids THEN 1 ELSE 0
  BY <1>1, HandGives
<1>4. FixedStep /\ task' \in [Tasks -> TaskRecord]
  BY <1>2 DEF FixedStep, QuietStep, Quiet, Fixed
<1>5. HeldInv'
  <2>1. \A u \in Tasks :
          /\ u \in ids => task'[u].session = s
          /\ task'[u].result = task[u].result
          /\ Answered(task[u]) => task[u].session = task'[u].session
          /\ task'[u].delivered = task[u].delivered
          /\ task'[u].target # NoSession /\ task'[u].session # NoSession
               => task'[u].session = task'[u].target
    BY <1>1, <1>2 DEF QuietStep, Quiet, HeldInv, Held
  <2> QED
    BY <1>1, <1>4, <2>1, HandHeld
<1>6. UnsentInv'
  BY <1>1, <1>2 DEF UnsentInv, Unsent, QuietStep, Quiet, Answered
<1>7. PluginInv' /\ TurnInv'
  BY <1>1, <1>3, <1>4, CallersKept
<1>8. \A u \in Tasks : u # t => runner'[u] = runner[u]
  BY <1>1 DEF DeliveryTypeOK
<1>9. /\ runner'[t].at = "spawned" /\ runner'[t].session = s
      /\ runner'[t].took = took /\ task'[t].session = s
      /\ took => handed'[t][s] > 0
  <2>1. handed[t][s] \in Nat
    BY <1>1 DEF DeliveryTypeOK
  <2> QED
    BY <1>1, <1>2, <1>3, <2>1 DEF DeliveryTypeOK, QuietStep, Quiet
<1>10. RunnerInv'
  <2> SUFFICES ASSUME NEW u \in Tasks
               PROVE  /\ runner'[u].at \in {"binding", "bound", "spawned"} =>
                           /\ runner'[u].session \in Sessions
                           /\ task'[u].session = runner'[u].session
                      /\ runner'[u].took => /\ runner'[u].at = "spawned"
                                            /\ handed'[u][runner'[u].session] > 0
    BY DEF RunnerInv
  <2>1. CASE u = t
    BY <1>1, <1>9, <2>1
  <2>2. CASE u # t
    <3>1. handed'[u] = handed[u]
      <4>1. \A v \in Sessions : handed'[u][v] = handed[u][v]
        BY <1>3, <2>2 DEF DeliveryTypeOK
      <4> QED
        BY <4>1, <1>3 DEF HandedOn, DeliveryTypeOK
    <3> QED
      BY <1>2, <1>8, <2>2, <3>1 DEF RunnerInv, CallersInv, QuietStep, Quiet
  <2> QED
    BY <2>1, <2>2
<1>11. DeliveryTypeOK'
  BY <1>1, <1>3, <1>4 DEF DeliveryTypeOK, HandedOn, MaybeSession
<1> QED
  BY <1>5, <1>6, <1>7, <1>10, <1>11 DEF CallersInv

\* An acceptance, for a session that was given the task.
LEMMA QueuedKeeps ==
  ASSUME DeliveryTypeOK, HeldInv, UnsentInv, NEW t \in Tasks, NEW s \in Sessions, NEW r,
         task[t].session = s, handed[t][s] > 0, Write(t, r),
         r \in TaskRecord, r.target = task[t].target, r.session = s,
         r.result = task[t].result, r.approval = task[t].approval,
         task[t].delivered => r.delivered, handed' = handed, sent' = sent
  PROVE  /\ HeldInv' /\ UnsentInv' /\ FixedStep /\ HandedOn
         /\ task' \in [Tasks -> TaskRecord]
<1>1. /\ task \in [Tasks -> TaskRecord] /\ Held(task[t], handed[t])
      /\ task' = [task EXCEPT ![t] = r] /\ s # NoSession
  BY ReceiptsAssumption DEF DeliveryTypeOK, HeldInv, Write
<1>2. /\ task' \in [Tasks -> TaskRecord] /\ task'[t] = r
      /\ \A u \in Tasks : u # t => task'[u] = task[u]
  BY <1>1
<1>3. Held(r, handed[t])
  BY <1>1 DEF Held, Answered
<1>4. HeldInv'
  BY <1>2, <1>3 DEF HeldInv
<1>5. UnsentInv'
  BY <1>1, <1>2 DEF UnsentInv, Unsent
<1>6. FixedStep /\ HandedOn
  BY <1>1, <1>2 DEF FixedStep, Fixed, HandedOn, DeliveryTypeOK
<1> QED
  BY <1>2, <1>4, <1>5, <1>6

LEMMA ReturnKeeps ==
  ASSUME IInv, NEW t \in Tasks, NEW ok \in BOOLEAN, CodexReturn(t, ok)
  PROVE  IInv'
<1> USE DEF IInv
<1>1. /\ runner[t].session \in Sessions /\ task[t].session = runner[t].session
      /\ ok => handed[t][runner[t].session] > 0
      /\ Run(t, NoRunner)
      /\ UNCHANGED <<to, sent, cursor, preview, plugin, watched, turn, waiting, late,
                     handed, faults>>
  BY DEF CodexReturn, Running, CallersInv, RunnerInv, NoRunner
<1>2. CASE ~ok
  <2>1. QuietStep
    BY <1>2, ReportQuietly DEF CodexReturn, MaybeSession
  <2> QED
    BY <1>1, <2>1, RunnerQuiet DEF DeliveryTypeOK
<1>3. CASE ok
  <2> DEFINE s == runner[t].session
             r == SetDelivery(task[t], "queued", s)
  <2>1. Write(t, r) /\ task[t] \in TaskRecord
    BY <1>3 DEF CodexReturn, Report, DeliveryTypeOK
  <2>2. /\ r \in TaskRecord /\ r.target = task[t].target /\ r.session = s
        /\ r.result = task[t].result /\ r.approval = task[t].approval
        /\ task[t].delivered => r.delivered
    BY <1>1, <2>1, QueuedFixed
  <2> HIDE DEF r, s
  <2>3. s = runner[t].session
    BY DEF s
  <2>4. /\ HeldInv' /\ UnsentInv' /\ FixedStep /\ HandedOn
        /\ task' \in [Tasks -> TaskRecord]
    BY <1>1, <1>3, <2>1, <2>2, <2>3, QueuedKeeps
  <2>5. PluginInv' /\ TurnInv'
    BY <1>1, <2>4, CallersKept
  <2>6. /\ runner' = [runner EXCEPT ![t] = NoRunner]
        /\ runner' \in [Tasks -> [at : {"idle", "claimed", "binding", "bound", "spawned"},
                                 session : MaybeSession, took : BOOLEAN]]
    BY <1>1 DEF Run, NoRunner, MaybeSession, DeliveryTypeOK
  <2>7. RunnerInv'
    <3>1. /\ runner'[t] = NoRunner
          /\ \A u \in Tasks : u # t => runner'[u] = runner[u]
      BY <2>6 DEF DeliveryTypeOK
    <3>2. \A u \in Tasks, v \in Sessions :
            task[u].session = v => task'[u].session = v
      BY <2>4, ReceiptsAssumption DEF FixedStep, Fixed
    <3> QED
      BY <1>1, <3>1, <3>2 DEF RunnerInv, CallersInv, NoRunner
  <2>8. DeliveryTypeOK'
    BY <1>1, <2>4, <2>6 DEF DeliveryTypeOK
  <2> QED
    BY <2>4, <2>5, <2>7, <2>8 DEF CallersInv
<1> QED
  BY <1>2, <1>3

LEMMA CodexKeeps ==
  ASSUME IInv, NEW t \in Tasks, Codex(t)
  PROVE  IInv'
<1> USE DEF IInv
<1>1. CASE CodexClaim(t)
  <2>1. task[t] \in TaskRecord
    BY DEF DeliveryTypeOK
  <2>2. Dispatched(task[t].receipt) \in Receipts
    BY <2>1, DispatchedType DEF TaskRecord
  <2>3. Quiet(task[t], CodexClaimed(task[t]))
    BY <2>1, <2>2 DEF Quiet, CodexClaimed, TaskRecord, Deliveries, MaybeSession
  <2>4. QuietStep
    BY <1>1, <2>3, WriteQuiet DEF CodexClaim
  <2> QED
    BY <1>1, <2>4, RunnerQuiet DEF CodexClaim, DeliveryTypeOK
<1>2. CASE CodexFail(t)
  <2>1. QuietStep
    BY <1>2, ReportQuietly DEF CodexFail, MaybeSession
  <2> QED
    BY <1>2, <2>1, RunnerQuiet DEF CodexFail, DeliveryTypeOK
<1>3. CASE RunnerCrash(t)
  <2>1. QuietStep
    BY <1>3 DEF RunnerCrash, QuietStep, Quiet, DeliveryTypeOK
  <2> QED
    BY <1>3, <2>1, RunnerQuiet, FaultBounded DEF RunnerCrash
<1>4. ASSUME NEW s \in Sessions, CodexBind(t, s) PROVE IInv'
  BY <1>4, BindKeeps
<1>5. ASSUME NEW s \in Sessions, CodexDefer(t, s) PROVE IInv'
  <2>1. QuietStep
    BY <1>5, ReportQuietly DEF CodexDefer, MaybeSession
  <2> QED
    BY <1>5, <2>1, RunnerQuiet DEF CodexDefer, DeliveryTypeOK
<1>6. ASSUME NEW b \in BOOLEAN, CodexSpawn(t, b) \/ CodexReturn(t, b) PROVE IInv'
  BY <1>6, SpawnKeeps, ReturnKeeps
<1>7. CASE CodexRecord(t)
  BY <1>7, RecordKeeps
<1> QED
  BY <1>1, <1>2, <1>3, <1>4, <1>5, <1>6, <1>7 DEF Codex

----------------------------------------------------------------------------
(* OpenCode *)

\* The steps after a claim concern one poller and its record.
PluginShape(p) ==
  p \in [at : {"ready", "listed", "prompt", "settle"}, id : Tasks \cup {NoTask},
        outcome : {"none", "queued", "failed", "uncertain"}]

LEMMA PollClaimKeeps ==
  ASSUME IInv, PollsInv, NEW s \in Sessions, NEW arrives \in BOOLEAN,
         PollClaim(s, arrives)
  PROVE  IInv'
<1> USE DEF IInv
<1>0. PICK t \in Tasks : t = plugin[s].id
  BY DEF PollClaim, Polls, CallersInv, PluginInv
<1> DEFINE r == SessionClaimed(task[t], s)
           state == IF arrives THEN [Ready EXCEPT !.at = "prompt", !.id = t] ELSE Ready
<1>1. /\ task \in [Tasks -> TaskRecord] /\ task[t] \in TaskRecord
      /\ Held(task[t], handed[t]) /\ to = "opencode"
      /\ OpenCodeClaimable(task[t], s) /\ task' = [task EXCEPT ![t] = r]
      /\ cursor' = [cursor EXCEPT ![s]["folder"] = t]
      /\ plugin' = [plugin EXCEPT ![s] = state]
      /\ watched' = [watched EXCEPT ![s] = IF arrives THEN t ELSE @]
      /\ UNCHANGED <<to, sent, preview, runner, turn, waiting, late, handed, faults>>
  BY <1>0 DEF PollClaim, Claims, Polls, Write, Phase, DeliveryTypeOK, HeldInv
<1>2. /\ task[t].target \in {NoSession, s} /\ task[t].delivery \in {"none", "deferred"}
      /\ ~Answered(task[t]) /\ ~task[t].delivered /\ task[t].approval = "granted"
  BY <1>1 DEF OpenCodeClaimable, Unclaimed, CanQueue
<1>3. task[t].session \in {NoSession, s}
  BY <1>1, <1>2 DEF PollsInv, Unheld
<1>4. /\ r \in TaskRecord /\ r.target = task[t].target /\ r.session = s
      /\ r.result = task[t].result /\ r.approval = task[t].approval
      /\ r.delivered = task[t].delivered
  BY <1>1, ClaimGives
<1>5. /\ PluginShape(state) /\ state.at \in {"ready", "prompt"}
      /\ state.at # "ready" => state.id = t /\ state.outcome = "none"
  BY DEF PluginShape, Ready
<1> HIDE DEF r, state
<1>6. /\ task' \in [Tasks -> TaskRecord] /\ task'[t] = r
      /\ \A u \in Tasks : u # t => task'[u] = task[u]
  BY <1>1, <1>4
<1>7. FixedStep /\ HandedOn
  BY <1>1, <1>3, <1>4, <1>6 DEF FixedStep, Fixed, HandedOn, DeliveryTypeOK
<1>8. Held(r, handed[t])
  BY <1>1, <1>2, <1>3, <1>4, ReceiptsAssumption DEF Held, Answered
<1>9. HeldInv'
  BY <1>1, <1>6, <1>8 DEF HeldInv
<1>10. UnsentInv'
  BY <1>1, <1>2, <1>4, <1>6 DEF UnsentInv, Unsent
<1>11. RunnerInv' /\ TurnInv'
  BY <1>1, <1>7, CallersKept
<1>12. PluginInv'
  <2> SUFFICES ASSUME NEW v \in Sessions
               PROVE  /\ plugin'[v].at # "ready" => plugin'[v].id \in Tasks
                      /\ plugin'[v].at \in {"prompt", "settle"} =>
                           /\ task'[plugin'[v].id].session = v
                           /\ plugin'[v].outcome = "queued" => handed[plugin'[v].id][v] > 0
                           /\ plugin'[v].at = "settle" => plugin'[v].outcome # "none"
    BY <1>1 DEF PluginInv
  <2>1. CASE v = s
    BY <1>1, <1>4, <1>5, <1>6, <2>1 DEF DeliveryTypeOK
  <2>2. CASE v # s
    <3>1. plugin'[v] = plugin[v]
      BY <1>1, <2>2 DEF DeliveryTypeOK
    <3> QED
      BY <1>7, <3>1, ReceiptsAssumption DEF PluginInv, CallersInv, FixedStep, Fixed
  <2> QED
    BY <2>1, <2>2
<1>13. cursor' \in [Sessions -> [Scopes -> 0..MaxTasks]]
  BY <1>1, DeliveryAssumption DEF DeliveryTypeOK, Tasks, Scopes
<1>14. DeliveryTypeOK'
  BY <1>1, <1>5, <1>6, <1>13 DEF DeliveryTypeOK, PluginShape
<1> QED
  BY <1>9, <1>10, <1>11, <1>12, <1>14 DEF CallersInv

\* A step that moves one poller on.
LEMMA PhaseKeeps ==
  ASSUME DeliveryTypeOK, CallersInv, NEW s \in Sessions, NEW state, Phase(s, state),
         PluginShape(state), FixedStep, HandedOn,
         state.at # "ready" => state.id \in Tasks,
         state.at \in {"prompt", "settle"} =>
           /\ task'[state.id].session = s
           /\ state.outcome = "queued" => handed'[state.id][s] > 0
           /\ state.at = "settle" => state.outcome # "none"
  PROVE  /\ PluginInv'
         /\ plugin' \in [Sessions ->
              [at : {"ready", "listed", "prompt", "settle"}, id : Tasks \cup {NoTask},
               outcome : {"none", "queued", "failed", "uncertain"}]]
<1>1. /\ plugin' = [plugin EXCEPT ![s] = state]
      /\ plugin'[s] = state /\ \A v \in Sessions : v # s => plugin'[v] = plugin[v]
  BY DEF Phase, DeliveryTypeOK
<1>2. \A t \in Tasks, v \in Sessions :
        /\ task[t].session = v => task'[t].session = v
        /\ handed[t][v] > 0 => handed'[t][v] > 0
  <2> TAKE t \in Tasks, v \in Sessions
  <2>1. task[t].session = v => task'[t].session = v
    BY ReceiptsAssumption DEF FixedStep, Fixed
  <2>2. /\ handed[t][v] \in Nat /\ handed'[t][v] \in Nat
        /\ handed'[t][v] >= handed[t][v]
    BY DEF HandedOn, DeliveryTypeOK
  <2> QED
    BY <2>1, <2>2
<1>3. PluginInv'
  <2> SUFFICES ASSUME NEW v \in Sessions
               PROVE  /\ plugin'[v].at # "ready" => plugin'[v].id \in Tasks
                      /\ plugin'[v].at \in {"prompt", "settle"} =>
                           /\ task'[plugin'[v].id].session = v
                           /\ plugin'[v].outcome = "queued" => handed'[plugin'[v].id][v] > 0
                           /\ plugin'[v].at = "settle" => plugin'[v].outcome # "none"
    BY DEF PluginInv
  <2>1. CASE v = s
    BY <1>1, <2>1
  <2>2. CASE v # s
    BY <1>1, <1>2, <2>2 DEF PluginInv, CallersInv
  <2> QED
    BY <2>1, <2>2
<1> QED
  BY <1>1, <1>3 DEF DeliveryTypeOK, PluginShape

\* A listing, or what was listed given up.
LEMMA ListedKeeps ==
  ASSUME IInv, NEW s \in Sessions, NEW state, Phase(s, state), PluginShape(state),
         state.at \in {"ready", "listed"}, state.at = "listed" => state.id \in Tasks,
         UNCHANGED <<to, sent, task, cursor, preview, runner, watched, turn, waiting,
                     late, handed, faults>>
  PROVE  IInv'
<1> USE DEF IInv
<1>1. FixedStep /\ HandedOn
  BY DEF FixedStep, Fixed, HandedOn, DeliveryTypeOK
<1>2. /\ PluginInv'
      /\ plugin' \in [Sessions ->
           [at : {"ready", "listed", "prompt", "settle"}, id : Tasks \cup {NoTask},
            outcome : {"none", "queued", "failed", "uncertain"}]]
  BY <1>1, PhaseKeeps
<1>3. RunnerInv' /\ TurnInv'
  BY <1>1, CallersKept
<1>4. DeliveryTypeOK'
  BY <1>2 DEF DeliveryTypeOK
<1> QED
  BY <1>2, <1>3, <1>4 DEF HeldInv, UnsentInv, CallersInv

LEMMA PromptKeeps ==
  ASSUME IInv, NEW s \in Sessions, NEW outcome \in {"queued", "failed", "uncertain"},
         NEW took \in BOOLEAN, Prompt(s, outcome, took)
  PROVE  IInv'
<1> USE DEF IInv
<1> DEFINE t == plugin[s].id
           ids == IF took THEN {t} ELSE {}
           state == [at |-> "settle", id |-> t, outcome |-> outcome]
<1>1. /\ t \in Tasks /\ task[t].session = s /\ (outcome = "queued" => took)
      /\ Phase(s, state) /\ Hand(ids, s)
      /\ watched' = [watched EXCEPT ![s] = IF outcome = "queued" THEN @ ELSE NoTask]
      /\ UNCHANGED <<to, sent, task, cursor, preview, runner, turn, waiting, late,
                     faults>>
  BY DEF Prompt, Polls, CallersInv, PluginInv
<1> HIDE DEF t
<1>2. /\ HandedOn
      /\ \A u \in Tasks, v \in Sessions :
           handed'[u][v] = handed[u][v] + IF v = s /\ u \in ids THEN 1 ELSE 0
  BY <1>1, HandGives
<1>3. FixedStep /\ task' \in [Tasks -> TaskRecord]
  BY <1>1 DEF FixedStep, Fixed, DeliveryTypeOK
<1>4. HeldInv'
  <2>1. \A u \in Tasks :
          /\ u \in ids => task'[u].session = s
          /\ task'[u].result = task[u].result
          /\ Answered(task[u]) => task[u].session = task'[u].session
          /\ task'[u].delivered = task[u].delivered
          /\ task'[u].target # NoSession /\ task'[u].session # NoSession
               => task'[u].session = task'[u].target
    BY <1>1 DEF HeldInv, Held
  <2> QED
    BY <1>1, <1>3, <2>1, HandHeld
<1>5. UnsentInv'
  BY <1>1 DEF UnsentInv
<1>6. RunnerInv' /\ TurnInv'
  BY <1>1, <1>2, <1>3, CallersKept
<1>7. took => handed'[t][s] > 0
  <2>1. handed[t][s] \in Nat
    BY <1>1 DEF DeliveryTypeOK
  <2> QED
    BY <1>1, <1>2, <2>1
<1>8. PluginShape(state)
  BY <1>1 DEF PluginShape
<1>9. /\ PluginInv'
      /\ plugin' \in [Sessions ->
           [at : {"ready", "listed", "prompt", "settle"}, id : Tasks \cup {NoTask},
            outcome : {"none", "queued", "failed", "uncertain"}]]
  BY <1>1, <1>2, <1>3, <1>7, <1>8, PhaseKeeps
<1>10. DeliveryTypeOK'
  BY <1>1, <1>2, <1>3, <1>9 DEF DeliveryTypeOK, HandedOn
<1> QED
  BY <1>4, <1>5, <1>6, <1>9, <1>10 DEF CallersInv

LEMMA SettleKeeps ==
  ASSUME IInv, NEW s \in Sessions, NEW alone \in BOOLEAN, NEW acked \in BOOLEAN,
         Settle(s, alone, acked)
  PROVE  IInv'
<1> USE DEF IInv
<1> DEFINE t == plugin[s].id
           st == plugin[s].outcome
           state == IF acked THEN Ready ELSE plugin[s]
<1>1. /\ t \in Tasks /\ task[t].session = s /\ st \in {"queued", "failed", "uncertain"}
      /\ st = "queued" => handed[t][s] > 0
      /\ task[t] \in TaskRecord /\ Write(t, Settled(task[t], st)) /\ Phase(s, state)
      /\ UNCHANGED <<to, sent, cursor, preview, runner, watched, turn, waiting, late,
                     handed, faults>>
  BY DEF Settle, Polls, CallersInv, PluginInv, DeliveryTypeOK
<1>2. /\ PluginShape(state) /\ (state.at # "ready" => state = plugin[s])
  BY DEF PluginShape, Ready, DeliveryTypeOK
<1> HIDE DEF t, st, state
<1>3. /\ HeldInv' /\ UnsentInv' /\ FixedStep /\ HandedOn
      /\ task' \in [Tasks -> TaskRecord]
  <2>1. CASE st = "queued"
    <3> DEFINE r == Settled(task[t], "queued")
    <3>1. /\ r \in TaskRecord /\ r.target = task[t].target /\ r.session = s
          /\ r.result = task[t].result /\ r.approval = task[t].approval
          /\ task[t].delivered => r.delivered
      BY <1>1, SettledQueued
    <3> HIDE DEF r
    <3>2. Write(t, r)
      BY <1>1, <2>1 DEF r
    <3> QED
      BY <1>1, <2>1, <3>1, <3>2, QueuedKeeps
  <2>2. CASE st # "queued"
    <3>1. Quiet(task[t], Settled(task[t], st))
      BY <1>1, <2>2, SettledQuiet
    <3>2. QuietStep
      BY <1>1, <3>1, WriteQuiet
    <3> QED
      BY <1>1, <3>2, QuietKeeps DEF QuietStep
  <2> QED
    BY <2>1, <2>2
<1>4. RunnerInv' /\ TurnInv'
  BY <1>1, <1>3, CallersKept
<1>5. state.at # "ready" =>
        /\ state.id \in Tasks /\ task'[state.id].session = s
        /\ state.outcome = "queued" => handed'[state.id][s] > 0
        /\ state.at = "settle" => state.outcome # "none"
  BY <1>1, <1>2, <1>3, ReceiptsAssumption DEF t, st, FixedStep, Fixed
<1>6. /\ PluginInv'
      /\ plugin' \in [Sessions ->
           [at : {"ready", "listed", "prompt", "settle"}, id : Tasks \cup {NoTask},
            outcome : {"none", "queued", "failed", "uncertain"}]]
  BY <1>1, <1>2, <1>3, <1>5, PhaseKeeps
<1>7. DeliveryTypeOK'
  BY <1>1, <1>3, <1>6 DEF DeliveryTypeOK
<1> QED
  BY <1>3, <1>4, <1>6, <1>7 DEF CallersInv

LEMMA OpenCodeKeeps ==
  ASSUME IInv, PollsInv, NEW s \in Sessions, OpenCode(s)
  PROVE  IInv'
<1> USE DEF IInv
<1>1. ASSUME NEW alone \in BOOLEAN, NEW b \in BOOLEAN, Settle(s, alone, b) PROVE IInv'
  BY <1>1, SettleKeeps
<1>2. ASSUME NEW b \in BOOLEAN, PollClaim(s, b) PROVE IInv'
  BY <1>2, PollClaimKeeps
<1>3. ASSUME NEW outcome \in {"queued", "failed", "uncertain"}, NEW took \in BOOLEAN,
             Prompt(s, outcome, took)
      PROVE  IInv'
  BY <1>3, PromptKeeps
<1>4. ASSUME NEW acked \in BOOLEAN, ExecutionFails(s, acked) PROVE IInv'
  <2> DEFINE t == watched[s]
  <2>1. /\ t \in Tasks /\ task[t] \in TaskRecord /\ Write(t, Settled(task[t], "failed"))
        /\ watched' = [watched EXCEPT ![s] = IF acked THEN NoTask ELSE @]
        /\ UNCHANGED <<to, sent, cursor, preview, runner, plugin, turn, waiting, late,
                       handed, faults>>
    BY <1>4 DEF ExecutionFails, DeliveryTypeOK
  <2> HIDE DEF t
  <2>2. Quiet(task[t], Settled(task[t], "failed"))
    BY <2>1, SettledQuiet
  <2>3. QuietStep
    BY <2>1, <2>2, WriteQuiet
  <2>4. HeldInv' /\ UnsentInv' /\ FixedStep /\ HandedOn
    BY <2>1, <2>3, QuietKeeps
  <2>5. CallersInv'
    BY <2>1, <2>4, CallersKept DEF CallersInv
  <2>6. DeliveryTypeOK'
    BY <2>1, <2>3 DEF DeliveryTypeOK, QuietStep
  <2> QED
    BY <2>4, <2>5, <2>6
<1>5. CASE GoesIdle(s)
  <2>1. DeliveryTypeOK'
    BY <1>5 DEF GoesIdle, DeliveryTypeOK
  <2> QED
    BY <1>5, <2>1 DEF GoesIdle, HeldInv, UnsentInv, CallersInv, RunnerInv, PluginInv, TurnInv
<1>6. CASE PluginCrash(s)
  <2>1. FixedStep /\ HandedOn
    BY <1>6 DEF PluginCrash, FixedStep, Fixed, HandedOn, DeliveryTypeOK
  <2>2. PluginShape(Ready) /\ Ready.at = "ready"
    BY DEF PluginShape, Ready
  <2>3. /\ PluginInv'
        /\ plugin' \in [Sessions ->
             [at : {"ready", "listed", "prompt", "settle"}, id : Tasks \cup {NoTask},
              outcome : {"none", "queued", "failed", "uncertain"}]]
    BY <1>6, <2>1, <2>2, PhaseKeeps DEF PluginCrash
  <2>4. RunnerInv' /\ TurnInv'
    BY <1>6, <2>1, CallersKept DEF PluginCrash
  <2>5. DeliveryTypeOK'
    BY <1>6, <2>3, FaultBounded DEF PluginCrash, DeliveryTypeOK
  <2> QED
    BY <1>6, <2>3, <2>4, <2>5 DEF PluginCrash, HeldInv, UnsentInv, CallersInv
<1>7. ASSUME NEW alone \in BOOLEAN, NEW t \in Tasks, Poll(s, t, alone) PROVE IInv'
  <2> DEFINE state == [Ready EXCEPT !.at = "listed", !.id = t]
  <2>1. PluginShape(state) /\ state.at = "listed" /\ state.id = t
    BY DEF PluginShape, Ready
  <2> QED
    BY <1>7, <2>1, ListedKeeps DEF Poll
<1>8. CASE PollRefused(s)
  <2>1. PluginShape(Ready) /\ Ready.at = "ready"
    BY DEF PluginShape, Ready
  <2> QED
    BY <1>8, <2>1, ListedKeeps DEF PollRefused
<1> QED
  BY <1>1, <1>2, <1>3, <1>4, <1>5, <1>6, <1>7, <1>8 DEF OpenCode

----------------------------------------------------------------------------
(* Claude *)

TurnShape(u) ==
  u \in [id : Tasks \cup {NoTask}, at : {"idle", "connecting", "prompted", "accepted"},
        took : BOOLEAN, timed : BOOLEAN, fenced : BOOLEAN]

LEMMA TurnKind ==
  ASSUME DeliveryTypeOK, TurnInv
  PROVE  /\ TurnShape(turn) /\ TurnShape(NoTurn)
         /\ turn.at # "idle" \/ turn.timed => turn # NoTurn
         /\ turn # NoTurn => /\ turn.id \in Tasks /\ task[turn.id] \in TaskRecord
                             /\ task[turn.id].session = Managed
BY DEF DeliveryTypeOK, TurnShape, NoTurn, TurnInv

\* A step of the managed connection that is quiet about the tasks and ends the
\* turn or goes on with it.
LEMMA TurnQuiet ==
  ASSUME IInv, QuietStep,
         \/ turn' = NoTurn \/ turn' = turn
         \/ turn # NoTurn /\ turn' = [turn EXCEPT !.fenced = TRUE, !.timed = FALSE],
         waiting' \subseteq Tasks, late' \subseteq Tasks, faults' \in 0..MaxFaults,
         UNCHANGED <<to, sent, cursor, preview, runner, plugin, watched, handed>>
  PROVE  IInv'
<1> USE DEF IInv
<1>1. HeldInv' /\ UnsentInv' /\ FixedStep /\ HandedOn
  BY QuietKeeps
<1>2. RunnerInv' /\ PluginInv' /\ (UNCHANGED turn => TurnInv')
  BY <1>1, CallersKept
<1>3. TurnShape(turn) /\ TurnShape(NoTurn)
  BY TurnKind DEF CallersInv
<1>4. TurnInv' /\ TurnShape(turn')
  <2>1. CASE turn' = NoTurn
    BY <1>3, <2>1 DEF TurnInv
  <2>2. CASE turn' = turn
    BY <1>2, <1>3, <2>2
  <2>3. CASE turn # NoTurn /\ turn' = [turn EXCEPT !.fenced = TRUE, !.timed = FALSE]
    <3>1. /\ TurnShape(turn') /\ turn'.id = turn.id /\ turn'.at = turn.at
          /\ turn'.took = turn.took
      BY <1>3, <2>3 DEF TurnShape
    <3>2. turn.id \in Tasks
      BY <2>3, TurnKind DEF CallersInv
    <3> QED
      BY <2>3, <3>1, <3>2 DEF TurnInv, CallersInv, QuietStep, Quiet
  <2> QED
    BY <2>1, <2>2, <2>3
<1>5. DeliveryTypeOK'
  BY <1>4 DEF DeliveryTypeOK, TurnShape, QuietStep
<1> QED
  BY <1>1, <1>2, <1>4, <1>5 DEF CallersInv

LEMMA InterruptedQuiet ==
  ASSUME DeliveryTypeOK, NEW t \in Tasks
  PROVE  Quiet(task[t], Interrupted(t))
<1>1. task[t] \in TaskRecord
  BY DEF DeliveryTypeOK
<1>2. Quiet(task[t], Ended(task[t], "paused")) /\ Quiet(task[t], task[t])
  BY <1>1, EndedQuiet DEF Quiet
<1> QED
  BY <1>2 DEF Interrupted

LEMMA OwnerPromptKeeps ==
  ASSUME IInv, OwnerPrompt
  PROVE  IInv'
<1> USE DEF IInv
<1> DEFINE n == NewTask(TRUE, "granted", NoSession)
           r == SetDelivery(n, "deferred", NoSession)
<1>1. /\ r \in TaskRecord /\ r.session = NoSession /\ ~r.delivered /\ ~Answered(r)
  <2>1. /\ n \in TaskRecord /\ n.session = NoSession /\ ~n.delivered /\ ~Answered(n)
    BY NewTaskGives DEF MaybeSession
  <2>2. Quiet(n, r)
    BY <2>1, ReportQuiet DEF MaybeSession
  <2> QED
    BY <2>1, <2>2 DEF Quiet, Answered
<1> HIDE DEF r, n
<1>2. /\ sent < MaxTasks /\ sent' = sent + 1 /\ waiting' = waiting \cup {sent + 1}
      /\ task' = [t \in Tasks |-> IF t = sent + 1 THEN r ELSE Interrupted(t)]
      /\ UNCHANGED <<to, cursor, preview, runner, plugin, watched, late, handed, faults>>
  BY DEF OwnerPrompt, r, n
<1>3. sent + 1 \in Tasks /\ sent' \in 0..MaxTasks
  BY <1>2, DeliveryAssumption DEF DeliveryTypeOK, Tasks
<1>4. \A t \in Tasks : Quiet(task[t], Interrupted(t))
  BY InterruptedQuiet
<1>5. /\ task' \in [Tasks -> TaskRecord] /\ task'[sent + 1] = r
      /\ \A t \in Tasks \ {sent + 1} : Quiet(task[t], task'[t])
  BY <1>1, <1>2, <1>3, <1>4 DEF Quiet
<1>6. /\ HeldInv' /\ UnsentInv' /\ HandedOn
      /\ \A t \in Tasks, s \in Sessions : task[t].session = s => task'[t].session = s
  BY <1>1, <1>2, <1>5, SentKeeps
<1>7. RunnerInv' /\ PluginInv' /\ (UNCHANGED turn => TurnInv')
  BY <1>2, <1>6, CallersHeld
<1>8. \/ turn' = turn
      \/ turn # NoTurn /\ turn' = [turn EXCEPT !.fenced = TRUE, !.timed = FALSE]
  BY DEF OwnerPrompt, Fence
<1>9. TurnInv' /\ TurnShape(turn')
  <2>1. CASE turn' = turn
    BY <1>7, <2>1, TurnKind DEF CallersInv
  <2>2. CASE turn # NoTurn /\ turn' = [turn EXCEPT !.fenced = TRUE, !.timed = FALSE]
    <3>1. /\ TurnShape(turn') /\ turn'.id = turn.id /\ turn'.at = turn.at
          /\ turn'.took = turn.took
      BY <2>2, TurnKind DEF TurnShape, CallersInv
    <3>2. turn.id \in Tasks /\ task'[turn.id].session = Managed
      BY <1>6, <2>2, TurnKind, DeliveryAssumption DEF CallersInv
    <3> QED
      BY <1>2, <2>2, <3>1, <3>2 DEF TurnInv, CallersInv
  <2> QED
    BY <1>8, <2>1, <2>2
<1>10. DeliveryTypeOK'
  BY <1>2, <1>3, <1>5, <1>9 DEF DeliveryTypeOK, TurnShape
<1> QED
  BY <1>6, <1>7, <1>9, <1>10 DEF CallersInv

\* A claim of a deferred task of the owner's, which nobody holds.
LEMMA BeginKeeps ==
  ASSUME IInv, NEW t \in Tasks, NEW timed \in BOOLEAN, ProviderClaimable(task[t]),
         Begin(t, timed), waiting' \subseteq Tasks,
         UNCHANGED <<to, sent, cursor, preview, runner, plugin, watched, late, handed,
                     faults>>
  PROVE  IInv'
<1> USE DEF IInv
<1> DEFINE r == SessionClaimed(task[t], Managed)
<1>1. /\ task \in [Tasks -> TaskRecord] /\ task[t] \in TaskRecord
      /\ Held(task[t], handed[t]) /\ task' = [task EXCEPT ![t] = r]
      /\ turn' = [NoTurn EXCEPT !.id = t, !.at = "connecting", !.timed = timed]
      /\ Managed \in Sessions
  BY DeliveryAssumption DEF Begin, Write, DeliveryTypeOK, HeldInv
<1>2. /\ task[t].session = NoSession /\ task[t].target = NoSession
      /\ ~Answered(task[t]) /\ ~task[t].delivered /\ task[t].approval = "granted"
  BY DEF ProviderClaimable, Unclaimed, CanQueue
<1>3. /\ r \in TaskRecord /\ r.target = task[t].target /\ r.session = Managed
      /\ r.result = task[t].result /\ r.approval = task[t].approval
      /\ r.delivered = task[t].delivered
  BY <1>1, ClaimGives
<1> HIDE DEF r
<1>4. /\ task' \in [Tasks -> TaskRecord] /\ task'[t] = r
      /\ \A u \in Tasks : u # t => task'[u] = task[u]
  BY <1>1, <1>3
<1>5. FixedStep /\ HandedOn
  BY <1>1, <1>2, <1>3, <1>4 DEF FixedStep, Fixed, HandedOn, DeliveryTypeOK
<1>6. Held(r, handed[t])
  BY <1>1, <1>2, <1>3, ReceiptsAssumption DEF Held, Answered
<1>7. HeldInv'
  BY <1>1, <1>4, <1>6 DEF HeldInv
<1>8. UnsentInv'
  BY <1>2, <1>4 DEF UnsentInv, Unsent
<1>9. RunnerInv' /\ PluginInv'
  BY <1>5, CallersKept
<1>10. /\ TurnShape(turn') /\ turn'.id = t /\ turn'.at = "connecting" /\ ~turn'.took
  BY <1>1 DEF TurnShape, NoTurn
<1>11. TurnInv'
  BY <1>3, <1>4, <1>10 DEF TurnInv
<1>12. DeliveryTypeOK'
  BY <1>4, <1>10 DEF DeliveryTypeOK, TurnShape
<1> QED
  BY <1>7, <1>8, <1>9, <1>11, <1>12 DEF CallersInv

\* The prompt goes out to the managed session, which holds the record.
LEMMA DispatchKeeps ==
  ASSUME IInv, NEW took \in BOOLEAN, Dispatch(took)
  PROVE  IInv'
<1> USE DEF IInv
<1> DEFINE t == turn.id
           ids == IF took THEN {t} ELSE {}
<1>1. /\ t \in Tasks /\ task[t].session = Managed /\ Managed \in Sessions
      /\ TurnShape(turn) /\ turn' = [turn EXCEPT !.at = "prompted", !.took = took]
      /\ Hand(ids, Managed)
      /\ UNCHANGED <<to, sent, task, cursor, preview, runner, plugin, watched, waiting,
                     late, faults>>
  BY TurnKind, DeliveryAssumption DEF Dispatch, Turn, CallersInv
<1>2. /\ TurnShape(turn') /\ turn'.id = t /\ turn'.at = "prompted" /\ turn'.took = took
  BY <1>1 DEF TurnShape
<1> HIDE DEF t
<1>3. /\ HandedOn
      /\ \A u \in Tasks, v \in Sessions :
           handed'[u][v] = handed[u][v] + IF v = Managed /\ u \in ids THEN 1 ELSE 0
  BY <1>1, HandGives
<1>4. FixedStep /\ task' \in [Tasks -> TaskRecord]
  BY <1>1 DEF FixedStep, Fixed, DeliveryTypeOK
<1>5. HeldInv'
  <2>1. \A u \in Tasks :
          /\ u \in ids => task'[u].session = Managed
          /\ task'[u].result = task[u].result
          /\ Answered(task[u]) => task[u].session = task'[u].session
          /\ task'[u].delivered = task[u].delivered
          /\ task'[u].target # NoSession /\ task'[u].session # NoSession
               => task'[u].session = task'[u].target
    BY <1>1 DEF HeldInv, Held
  <2> QED
    BY <1>1, <1>4, <2>1, HandHeld
<1>6. UnsentInv'
  BY <1>1 DEF UnsentInv
<1>7. RunnerInv' /\ PluginInv'
  BY <1>1, <1>3, <1>4, CallersKept
<1>8. TurnInv'
  <2>1. handed[t][Managed] \in Nat
    BY <1>1 DEF DeliveryTypeOK
  <2>2. took => handed'[t][Managed] > 0
    BY <1>1, <1>3, <2>1
  <2> QED
    BY <1>1, <1>2, <2>2 DEF TurnInv
<1>9. DeliveryTypeOK'
  BY <1>1, <1>2, <1>3, <1>4 DEF DeliveryTypeOK, TurnShape, HandedOn
<1> QED
  BY <1>5, <1>6, <1>7, <1>8, <1>9 DEF CallersInv

LEMMA UnconfirmedQuiet ==
  ASSUME NEW r \in TaskRecord
  PROVE  Quiet(r, Unconfirmed(r))
<1> DEFINE c == SetDelivery(r, "uncertain", Managed)
<1>1. Quiet(r, c)
  BY ReportQuiet, DeliveryAssumption DEF MaybeSession
<1>2. Quiet(c, Failed(c))
  BY <1>1, FailedQuiet DEF Quiet
<1>3. Unconfirmed(r) = c \/ Unconfirmed(r) = Failed(c)
  BY DEF Unconfirmed
<1> QED
  BY <1>1, <1>2, <1>3 DEF Quiet

\* The acceptance is recorded for the session that was given the task.
LEMMA AcceptKeeps ==
  ASSUME IInv, Accept
  PROVE  IInv'
<1> USE DEF IInv
<1> DEFINE t == turn.id
           r == SetDelivery(task[t], "queued", Managed)
           u == IF Queued(r) THEN r ELSE Unconfirmed(r)
<1>1. /\ t \in Tasks /\ task[t].session = Managed /\ Managed \in Sessions
      /\ task[t] \in TaskRecord /\ handed[t][Managed] > 0 /\ TurnShape(turn)
      /\ TurnShape(NoTurn) /\ turn # NoTurn /\ Write(t, u)
      /\ turn' = IF Queued(r) THEN [turn EXCEPT !.at = "accepted", !.timed = FALSE]
                              ELSE NoTurn
      /\ UNCHANGED <<to, sent, cursor, preview, runner, plugin, watched, waiting, late,
                     handed, faults>>
  BY TurnKind, DeliveryAssumption DEF Accept, Turn, CallersInv, TurnInv
<1>2. /\ r \in TaskRecord /\ r.target = task[t].target /\ r.session = Managed
      /\ r.result = task[t].result /\ r.approval = task[t].approval
      /\ task[t].delivered => r.delivered
  BY <1>1, QueuedFixed
<1>3. turn' = NoTurn \/ turn' = [turn EXCEPT !.at = "accepted", !.timed = FALSE]
  BY <1>1
<1> HIDE DEF r
<1>4. /\ u \in TaskRecord /\ u.target = task[t].target /\ u.session = Managed
      /\ u.result = task[t].result /\ u.approval = task[t].approval
      /\ task[t].delivered => u.delivered
  <2>1. Quiet(r, Unconfirmed(r))
    BY <1>2, UnconfirmedQuiet
  <2>2. u = r \/ Quiet(r, u)
    BY <2>1
  <2> HIDE DEF u
  <2> QED
    BY <1>2, <2>2 DEF Quiet
<1> HIDE DEF u
<1>5. /\ HeldInv' /\ UnsentInv' /\ FixedStep /\ HandedOn
      /\ task' \in [Tasks -> TaskRecord]
  BY <1>1, <1>4, QueuedKeeps
<1>6. RunnerInv' /\ PluginInv'
  BY <1>1, <1>5, CallersKept
<1>7. TurnShape(turn') /\ (turn' # NoTurn => turn'.id = t /\ turn'.at = "accepted")
  BY <1>1, <1>3 DEF TurnShape
<1>8. TurnInv'
  BY <1>1, <1>5, <1>7, ReceiptsAssumption DEF TurnInv, FixedStep, Fixed
<1>9. DeliveryTypeOK'
  BY <1>1, <1>5, <1>7 DEF DeliveryTypeOK, TurnShape
<1> QED
  BY <1>5, <1>6, <1>8, <1>9 DEF CallersInv

LEMMA TurnResultKeeps ==
  ASSUME IInv, TurnResult
  PROVE  IInv'
<1> USE DEF IInv
<1> DEFINE t == turn.id
           r == task[t]
<1>1. /\ t \in Tasks /\ r.session = Managed /\ Managed \in Sessions
      /\ turn' = NoTurn
      /\ Write(t, IF ResultFits(r, Managed) THEN Completed(r, Managed) ELSE r)
      /\ UNCHANGED <<to, sent, cursor, preview, runner, plugin, watched, waiting, late,
                     handed, faults>>
  BY TurnKind, DeliveryAssumption DEF TurnResult, Turn, CallersInv
<1>2. CASE ResultFits(r, Managed)
  <2>1. /\ task[t].delivered /\ ~Answered(task[t]) /\ Owner(task[t]) = Managed
        /\ Write(t, Completed(task[t], Managed))
    BY <1>1, <1>2 DEF ResultFits
  <2> HIDE DEF t
  <2>2. /\ HeldInv' /\ UnsentInv' /\ FixedStep /\ HandedOn
        /\ task' \in [Tasks -> TaskRecord]
    BY <1>1, <2>1, CompleteKeeps
  <2>3. RunnerInv' /\ PluginInv'
    BY <1>1, <2>2, CallersKept
  <2>4. TurnInv' /\ DeliveryTypeOK'
    BY <1>1, <2>2, TurnKind DEF TurnInv, DeliveryTypeOK, TurnShape, CallersInv
  <2> QED
    BY <2>2, <2>3, <2>4 DEF CallersInv
<1>3. CASE ~ResultFits(r, Managed)
  <2>1. Quiet(task[t], r) /\ Write(t, r)
    BY <1>1, <1>3 DEF Quiet, DeliveryTypeOK
  <2> HIDE DEF t, r
  <2>2. QuietStep
    BY <1>1, <2>1, WriteQuiet
  <2> QED
    BY <1>1, <2>2, TurnQuiet DEF DeliveryTypeOK
<1> QED
  BY <1>2, <1>3

LEMMA ClaudeKeeps ==
  ASSUME IInv, Claude
  PROVE  IInv'
<1> USE DEF IInv
<1>1. CASE OwnerPrompt
  BY <1>1, OwnerPromptKeeps
<1>2. ASSUME NEW t \in Tasks, StartNext(t) PROVE IInv'
  <2>1. CASE ProviderClaimable(task[t])
    BY <1>2, <2>1, BeginKeeps DEF StartNext, DeliveryTypeOK
  <2>2. CASE ~ProviderClaimable(task[t])
    <3>1. QuietStep
      BY <1>2, <2>2, ReportQuietly DEF StartNext, MaybeSession
    <3> QED
      BY <1>2, <2>2, <3>1, TurnQuiet DEF StartNext, DeliveryTypeOK
  <2> QED
    BY <2>1, <2>2
<1>3. ASSUME NEW t \in Tasks, DeliverOwnerTask(t) PROVE IInv'
  BY <1>3, BeginKeeps DEF DeliverOwnerTask, DeliveryTypeOK
<1>4. ASSUME NEW took \in BOOLEAN, Dispatch(took) PROVE IInv'
  BY <1>4, DispatchKeeps
<1>5. CASE Accept
  BY <1>5, AcceptKeeps
<1>6. CASE TurnResult
  BY <1>6, TurnResultKeeps
<1>7. CASE TurnError
  <2>1. turn.id \in Tasks /\ Quiet(task[turn.id], Failed(task[turn.id]))
    BY <1>7, TurnKind, FailedQuiet DEF TurnError, CallersInv
  <2>2. QuietStep
    BY <1>7, <2>1, WriteQuiet DEF TurnError
  <2> QED
    BY <1>7, <2>2, TurnQuiet DEF TurnError, DeliveryTypeOK
<1>8. CASE TurnEnds
  <2>1. QuietStep
    BY <1>8 DEF TurnEnds, QuietStep, Quiet, DeliveryTypeOK
  <2>2. turn.id \in Tasks /\ late' \subseteq late \cup {turn.id}
    BY <1>8, TurnKind DEF TurnEnds, CallersInv
  <2> QED
    BY <1>8, <2>1, <2>2, TurnQuiet DEF TurnEnds, DeliveryTypeOK
<1>9. CASE TurnTimeout
  <2>1. turn # NoTurn /\ turn.id \in Tasks /\ Managed \in MaybeSession
    BY <1>9, TurnKind, DeliveryAssumption DEF TurnTimeout, CallersInv, MaybeSession
  <2>2. QuietStep
    BY <1>9, <2>1, ReportQuietly DEF TurnTimeout
  <2> QED
    BY <1>9, <2>1, <2>2, TurnQuiet DEF TurnTimeout, DeliveryTypeOK
<1>10. CASE Stop
  <2>1. \A t \in Tasks :
          /\ Quiet(task[t], Ended(task[t], "canceled"))
          /\ Quiet(task[t], Interrupted(t))
    BY EndedQuiet, InterruptedQuiet DEF DeliveryTypeOK
  <2>2. QuietStep
    BY <1>10, <2>1 DEF Stop, QuietStep, Quiet
  <2> QED
    BY <1>10, <2>2, TurnQuiet DEF Stop, Fence, DeliveryTypeOK
<1>11. ASSUME NEW t \in Tasks, LateTimeout(t) PROVE IInv'
  <2>1. Managed \in MaybeSession
    BY DeliveryAssumption DEF MaybeSession
  <2>2. QuietStep
    BY <1>11, <2>1, ReportQuietly DEF LateTimeout
  <2> QED
    BY <1>11, <2>2, TurnQuiet DEF LateTimeout, DeliveryTypeOK
<1> QED
  BY <1>1, <1>2, <1>3, <1>4, <1>5, <1>6, <1>7, <1>8, <1>9, <1>10, <1>11 DEF Claude

LEMMA RestartKeeps ==
  ASSUME IInv, NEW orderly \in BOOLEAN, Restart(orderly)
  PROVE  IInv'
<1> USE DEF IInv
<1>1. PICK old \in SUBSET {t \in Sent : task[t].delivery = "sending"} :
        task' = [t \in Tasks |->
          LET r == IF orderly /\ t = turn.id THEN Ended(task[t], "canceled")
                                             ELSE task[t]
          IN Reconciled(Retired(r), t \in old)]
  BY DEF Restart
<1>2. ASSUME NEW t \in Tasks, NEW r, r = task[t] \/ r = Ended(task[t], "canceled")
      PROVE  Quiet(task[t], Reconciled(Retired(r), t \in old))
  <2>1. task[t] \in TaskRecord
    BY DEF DeliveryTypeOK
  <2>2. Quiet(task[t], r)
    BY <1>2, <2>1, EndedQuiet DEF Quiet
  <2>3. r \in TaskRecord
    BY <2>2, <2>1, <1>2 DEF Quiet, Ended
  <2>4. ASSUME NEW b \in BOOLEAN PROVE Quiet(r, Reconciled(Retired(r), b))
    BY <2>3, RestartQuiet
  <2> QED
    BY <2>2, <2>4, (t \in old) \in BOOLEAN DEF Quiet
<1>3. QuietStep
  BY <1>1, <1>2 DEF QuietStep, Quiet
<1> QED
  BY <1>3, TurnQuiet, FaultBounded DEF Restart

----------------------------------------------------------------------------
(* What a poll may list *)

LEMMA ToStays ==
  ASSUME [Next]_vars
  PROVE  to' = to
<1>1. CASE UNCHANGED vars
  BY <1>1 DEF vars
<1>2. CASE Senders \/ Readers
  BY <1>2 DEF Senders, Send, Defer, GrowStale, PauseStage, Decide,
     Readers, Read, EndTurn, Look, ReportResult
<1>3. CASE Claude
  BY <1>3 DEF Claude, OwnerPrompt, StartNext, DeliverOwnerTask, Dispatch, Accept,
     TurnResult, TurnError, TurnEnds, TurnTimeout, LateTimeout, Stop
<1>4. ASSUME NEW t \in Tasks, Codex(t) PROVE to' = to
  BY <1>4 DEF Codex, CodexClaim, CodexRecord, CodexFail, RunnerCrash, CodexBind,
     CodexDefer, CodexSpawn, CodexReturn
<1>5. ASSUME NEW s \in Sessions, OpenCode(s) PROVE to' = to
  BY <1>5 DEF OpenCode, Settle, Poll, PollClaim, PollRefused, Prompt, ExecutionFails,
     GoesIdle, PluginCrash
<1>6. ASSUME NEW orderly \in BOOLEAN, Restart(orderly) PROVE to' = to
  BY <1>6 DEF Restart
<1> QED
  BY <1>1, <1>2, <1>3, <1>4, <1>5, <1>6 DEF Next

\* One record is written, and with it still nobody holds what may be listed.
LEMMA WriteUnheld ==
  ASSUME DeliveryTypeOK, \A u \in Tasks : Unheld(task[u]), NEW t \in Tasks, NEW r,
         Unheld(r), Write(t, r)
  PROVE  \A u \in Tasks : Unheld(task'[u])
BY DEF DeliveryTypeOK, Write

LEMMA SendersUnheld ==
  ASSUME DeliveryTypeOK, \A t \in Tasks : Unheld(task[t]), to = "opencode", Senders
  PROVE  \A t \in Tasks : Unheld(task'[t])
<1>1. ASSUME NEW owner \in BOOLEAN, NEW approval \in {"pending", "granted"},
             NEW target \in MaybeSession, Send(owner, approval, target)
      PROVE  \A t \in Tasks : Unheld(task'[t])
  <2>1. Unheld(NewTask(owner, approval, target))
    BY DEF Unheld, NewTask
  <2>2. sent + 1 \in Tasks /\ Write(sent + 1, NewTask(owner, approval, target))
    BY <1>1, DeliveryAssumption DEF Send, DeliveryTypeOK, Tasks
  <2> QED
    BY <2>1, <2>2, WriteUnheld
<1>2. ASSUME NEW t \in Tasks PROVE task[t] \in TaskRecord /\ Unheld(task[t])
  BY DEF DeliveryTypeOK
<1>3. ASSUME NEW t \in Tasks, Defer(t) PROVE \A u \in Tasks : Unheld(task'[u])
  <2>1. Unheld(SetDelivery(task[t], "deferred", NoSession))
    BY <1>2, <1>3 DEF Defer, Unheld, SetDelivery, TaskRecord
  <2> QED
    BY <1>3, <2>1, WriteUnheld DEF Defer, Report
<1>4. ASSUME NEW t \in Tasks, GrowStale(t) PROVE \A u \in Tasks : Unheld(task'[u])
  <2>1. Unheld([task[t] EXCEPT !.age = "stale"])
    BY <1>2 DEF Unheld, TaskRecord
  <2> QED
    BY <1>4, <2>1, WriteUnheld DEF GrowStale
<1>5. ASSUME NEW t \in Tasks, PauseStage(t) PROVE \A u \in Tasks : Unheld(task'[u])
  <2>1. Unheld(Ended(task[t], "paused"))
    BY <1>2 DEF Unheld, Ended, TaskRecord
  <2> QED
    BY <1>5, <2>1, WriteUnheld DEF PauseStage
<1>6. ASSUME NEW t \in Tasks, NEW yes \in BOOLEAN, Decide(t, yes)
      PROVE  \A u \in Tasks : Unheld(task'[u])
  <2> DEFINE r == IF yes THEN Approved(task[t], to = "claude")
                         ELSE [task[t] EXCEPT !.approval = "refused"]
  <2>1. r.delivery = task[t].delivery /\ r.delivered = task[t].delivered
        /\ r.session = task[t].session
    BY <1>2 DEF Approved, TaskRecord
  <2>2. Write(t, r)
    BY <1>6 DEF Decide
  <2> HIDE DEF r
  <2>3. Unheld(r)
    BY <1>2, <2>1 DEF Unheld
  <2> QED
    BY <2>2, <2>3, WriteUnheld
<1> QED
  BY <1>1, <1>3, <1>4, <1>5, <1>6 DEF Senders

LEMMA ReadersUnheld ==
  ASSUME DeliveryTypeOK, \A t \in Tasks : Unheld(task[t]), Readers
  PROVE  \A t \in Tasks : Unheld(task'[t])
<1>1. ASSUME NEW t \in Tasks PROVE task[t] \in TaskRecord /\ Unheld(task[t])
  BY DEF DeliveryTypeOK
<1>2. ASSUME NEW s \in Sessions, Read(s) PROVE \A t \in Tasks : Unheld(task'[t])
  <2>1. \A t \in Tasks : task'[t] = task[t] \/ task'[t] = Taken(task[t], s)
    BY <1>2 DEF Read
  <2>2. \A t \in Tasks : Unheld(Taken(task[t], s))
    BY <1>1 DEF Taken, Unheld, TaskRecord
  <2> QED
    BY <1>1, <2>1, <2>2
<1>3. ASSUME NEW s \in Sessions, NEW t \in Tasks, Write(t, Completed(task[t], s))
      PROVE  \A u \in Tasks : Unheld(task'[u])
  <2>1. Unheld(Completed(task[t], s))
    BY <1>1 DEF Completed, Unheld, TaskRecord
  <2> QED
    BY <1>3, <2>1, WriteUnheld
<1>4. ASSUME NEW s \in Sessions, NEW named \in BOOLEAN, EndTurn(s, named)
      PROVE  \A t \in Tasks : Unheld(task'[t])
  <2>1. Sent \subseteq Tasks
    BY DeliveryAssumption DEF DeliveryTypeOK, Sent, Tasks
  <2> QED
    BY <1>3, <1>4, <2>1 DEF EndTurn
<1>5. ASSUME NEW s \in Sessions, NEW t \in Tasks, ReportResult(t, s)
      PROVE  \A u \in Tasks : Unheld(task'[u])
  BY <1>3, <1>5 DEF ReportResult
<1>6. ASSUME NEW s \in Sessions, NEW scope \in Scopes, Look(s, scope)
      PROVE  \A t \in Tasks : Unheld(task'[t])
  BY <1>1, <1>6 DEF Look
<1> QED
  BY <1>2, <1>4, <1>5, <1>6 DEF Readers

\* A claim, a settlement, and the failure of what a session executes.
LEMMA OpenCodeUnheld ==
  ASSUME IInv, \A t \in Tasks : Unheld(task[t]), NEW s \in Sessions, OpenCode(s)
  PROVE  \A t \in Tasks : Unheld(task'[t])
<1> USE DEF IInv
<1>1. ASSUME NEW t \in Tasks PROVE task[t] \in TaskRecord /\ Unheld(task[t])
  BY DEF DeliveryTypeOK
<1>2. ASSUME NEW t \in Tasks, NEW st \in {"queued", "failed", "uncertain"},
             Write(t, Settled(task[t], st))
      PROVE  \A u \in Tasks : Unheld(task'[u])
  <2>1. \/ Settled(task[t], st) = task[t]
        \/ Settled(task[t], st).delivery = st
    BY <1>1 DEF Settled, TaskRecord
  <2>2. Unheld(Settled(task[t], st))
    BY <1>1, <2>1 DEF Unheld
  <2> QED
    BY <1>2, <2>2, WriteUnheld
<1>3. ASSUME NEW alone \in BOOLEAN, NEW b \in BOOLEAN, Settle(s, alone, b)
      PROVE  \A t \in Tasks : Unheld(task'[t])
  <2>1. /\ plugin[s].id \in Tasks /\ plugin[s].outcome \in {"queued", "failed", "uncertain"}
        /\ Write(plugin[s].id, Settled(task[plugin[s].id], plugin[s].outcome))
    BY <1>3 DEF Settle, Polls, CallersInv, PluginInv, DeliveryTypeOK
  <2> QED
    BY <1>2, <2>1
<1>4. ASSUME NEW b \in BOOLEAN, PollClaim(s, b) PROVE \A t \in Tasks : Unheld(task'[t])
  <2>1. PICK t \in Tasks : t = plugin[s].id
    BY <1>4 DEF PollClaim, Polls, CallersInv, PluginInv
  <2>2. Unheld(SessionClaimed(task[t], s))
    BY <1>1 DEF SessionClaimed, Unheld, TaskRecord
  <2> QED
    BY <1>4, <2>1, <2>2, WriteUnheld DEF PollClaim
<1>5. ASSUME NEW acked \in BOOLEAN, ExecutionFails(s, acked)
      PROVE  \A t \in Tasks : Unheld(task'[t])
  <2>1. watched[s] \in Tasks /\ Write(watched[s], Settled(task[watched[s]], "failed"))
    BY <1>5 DEF ExecutionFails, DeliveryTypeOK
  <2> QED
    BY <1>2, <2>1
<1>6. ASSUME UNCHANGED task PROVE \A t \in Tasks : Unheld(task'[t])
  BY <1>6
<1> QED
  BY <1>3, <1>4, <1>5, <1>6 DEF OpenCode, Poll, PollRefused, Prompt, GoesIdle, PluginCrash

LEMMA RestartUnheld ==
  ASSUME DeliveryTypeOK, \A t \in Tasks : Unheld(task[t]), NEW orderly \in BOOLEAN,
         Restart(orderly)
  PROVE  \A t \in Tasks : Unheld(task'[t])
<1>1. PICK old \in SUBSET {t \in Sent : task[t].delivery = "sending"} :
        task' = [t \in Tasks |->
          LET r == IF orderly /\ t = turn.id THEN Ended(task[t], "canceled")
                                             ELSE task[t]
          IN Reconciled(Retired(r), t \in old)]
  BY DEF Restart
<1> SUFFICES ASSUME NEW t \in Tasks PROVE Unheld(task'[t])
  OBVIOUS
<1> DEFINE r == IF orderly /\ t = turn.id THEN Ended(task[t], "canceled") ELSE task[t]
<1>2. r \in TaskRecord /\ Unheld(r)
  <2>1. task[t] \in TaskRecord /\ Unheld(task[t])
    BY DEF DeliveryTypeOK
  <2>2. Ended(task[t], "canceled") \in TaskRecord /\ Unheld(Ended(task[t], "canceled"))
    BY <2>1, EndedQuiet DEF Quiet, Unheld, Ended, TaskRecord
  <2> QED
    BY <2>1, <2>2
<1>3. task'[t] = Reconciled(Retired(r), t \in old)
  BY <1>1
<1> HIDE DEF r
<1>4. Retired(r) \in TaskRecord /\ Unheld(Retired(r))
  BY <1>2 DEF Retired, Unheld, TaskRecord
<1> DEFINE q == Retired(r)
<1> HIDE DEF q
<1>5. task'[t] = q \/ task'[t].delivery = "uncertain"
  BY <1>3, <1>4 DEF q, Reconciled, TaskRecord
<1> QED
  BY <1>4, <1>5 DEF q, Unheld

LEMMA PollsStep ==
  ASSUME IInv, PollsInv, [Next]_vars
  PROVE  PollsInv'
<1> SUFFICES ASSUME to' = "opencode" PROVE \A t \in Tasks : Unheld(task'[t])
  BY DEF PollsInv, Unheld
<1>1. to = "opencode" /\ DeliveryTypeOK /\ \A t \in Tasks : Unheld(task[t])
  BY ToStays DEF PollsInv, IInv
<1>2. CASE Claude
  BY <1>1, <1>2 DEF Claude, OwnerPrompt, StartNext, DeliverOwnerTask, Dispatch, Accept,
     TurnResult, TurnError, TurnEnds, TurnTimeout, LateTimeout, Stop, Turn
<1>3. ASSUME NEW t \in Tasks, Codex(t) PROVE \A u \in Tasks : Unheld(task'[u])
  BY <1>1, <1>3 DEF Codex, CodexClaim, CodexRecord, CodexFail, RunnerCrash, CodexBind,
     CodexDefer, CodexSpawn, CodexReturn, Running
<1>4. CASE UNCHANGED vars
  BY <1>1, <1>4 DEF vars
<1> QED
  BY <1>1, <1>2, <1>3, <1>4, SendersUnheld, ReadersUnheld, OpenCodeUnheld, RestartUnheld
     DEF Next

----------------------------------------------------------------------------
(* The theorems *)

LEMMA InitHolds ==
  ASSUME Init
  PROVE  IInv
<1>1. NewTask(FALSE, "pending", NoSession) \in TaskRecord
  BY NewTaskGives DEF MaybeSession
<1>2. /\ NoPreview \in [scope : Scopes, ids : SUBSET Tasks]
      /\ NoRunner \in [at : {"idle", "claimed", "binding", "bound", "spawned"},
                       session : MaybeSession, took : BOOLEAN]
  BY DEF NoPreview, NoRunner, Scopes, MaybeSession
<1>3. PluginShape(Ready) /\ TurnShape(NoTurn)
  BY DEF PluginShape, Ready, TurnShape, NoTurn
<1>4. /\ task \in [Tasks -> TaskRecord] /\ turn = NoTurn
      /\ preview \in [Sessions -> [scope : Scopes, ids : SUBSET Tasks]]
      /\ runner \in [Tasks -> [at : {"idle", "claimed", "binding", "bound", "spawned"},
                               session : MaybeSession, took : BOOLEAN]]
  BY <1>1, <1>2 DEF Init
<1>5. /\ to \in Providers /\ sent = 0 /\ faults = 0 /\ waiting = {} /\ late = {}
      /\ cursor \in [Sessions -> [Scopes -> 0..MaxTasks]]
      /\ watched \in [Sessions -> Tasks \cup {NoTask}]
      /\ handed \in [Tasks -> [Sessions -> Nat]]
  BY DeliveryAssumption DEF Init
<1>6. plugin \in [Sessions ->
        [at : {"ready", "listed", "prompt", "settle"}, id : Tasks \cup {NoTask},
         outcome : {"none", "queued", "failed", "uncertain"}]]
  BY <1>3 DEF Init, PluginShape
<1>7. DeliveryTypeOK
  BY <1>3, <1>4, <1>5, <1>6, DeliveryAssumption DEF DeliveryTypeOK, TurnShape
<1>8. HeldInv /\ UnsentInv
  BY DEF Init, HeldInv, Held, UnsentInv, Unsent, NewTask, Answered
<1>9. CallersInv
  BY DEF Init, CallersInv, RunnerInv, PluginInv, TurnInv, NoRunner, Ready
<1> QED
  BY <1>7, <1>8, <1>9 DEF IInv

\* The inductive invariant: whoever is in the middle of a delivery works for
\* the session that holds the record, and a record once held is never passed on.
\* OpenCode's claim does not read the holder: PollsInv says that there is none.
THEOREM DeliveryInvariant == Spec => []IInv
<1>1. ASSUME IInv, PollsInv, [Next]_vars PROVE IInv'
  <2>1. CASE Next
    BY <1>1, <2>1, SendersKeep, ReadersKeep, ClaudeKeeps, CodexKeeps,
       OpenCodeKeeps, RestartKeeps DEF Next
  <2>2. CASE UNCHANGED vars
    BY <1>1, <2>2 DEF vars, transports, IInv, DeliveryTypeOK, HeldInv, UnsentInv,
       CallersInv, RunnerInv, PluginInv, TurnInv
  <2> QED
    BY <1>1, <2>1, <2>2
<1>2. Init => PollsInv
  BY DEF Init, PollsInv, Unheld, NewTask
<1>3. IInv /\ PollsInv /\ [Next]_vars => PollsInv'
  BY PollsStep
<1> QED
  BY <1>1, <1>2, <1>3, InitHolds, PTL DEF Spec

\* Every variable of the delivery keeps its shape, for any tasks, sessions,
\* providers and faults.
THEOREM DeliveryTypeCorrect == Spec => []DeliveryTypeOK
BY DeliveryInvariant, PTL DEF IInv

\* A task is given to one session only, and answered by that one.
THEOREM OneHolderOnly == Spec => []OneHolder
<1>1. ASSUME IInv PROVE OneHolder
  <2> SUFFICES ASSUME NEW t \in Tasks
               PROVE  /\ Cardinality(Holders(t)) <= 1
                      /\ Answered(task[t]) => Holders(t) = {task[t].result}
    BY DEF OneHolder
  <2>1. Held(task[t], handed[t])
    BY <1>1 DEF IInv, HeldInv
  <2>2. Holders(t) \subseteq {task[t].session}
    BY <2>1 DEF Holders, Held
  <2>3. Holders(t) = {} \/ Holders(t) = {task[t].session}
    BY <2>2
  <2>4. Cardinality(Holders(t)) \in {0, 1}
    BY <2>3, FS_EmptySet, FS_Singleton
  <2>5. Answered(task[t]) => Holders(t) = {task[t].result}
    BY <2>1, <2>2 DEF Held, Holders
  <2> QED
    BY <2>4, <2>5
<1> QED
  BY <1>1, DeliveryInvariant, PTL

----------------------------------------------------------------------------
(***************************************************************************)
(* No inbox read passes over a task that waits for approval: the proof of  *)
(* PendingKeepsItsPlace.                                                   *)
(*                                                                         *)
(* Nobody but the person, time and the ends of a task touch a task that    *)
(* waits, since whoever delivers one has claimed it approved; and what a   *)
(* session is about to claim lies before every task that waits for it.     *)
(***************************************************************************)

Pending(t) == task[t].approval = "pending"
Waits(t, s) == Pending(t) /\ Listed(task[t], s)

\* Whoever is delivering a task was given it approved.
WorkersInv ==
  /\ \A t \in Tasks : runner[t].at # "idle" => ~Pending(t)
  /\ turn # NoTurn => ~Pending(turn.id)
  /\ \A t \in waiting \cup late : ~Pending(t)

\* What a session has read, and what it is about to claim.
FrontierInv ==
  /\ WorkersInv
  /\ \A s \in Sessions, c \in Scopes : cursor[s][c] <= sent
  /\ \A s \in Sessions : preview[s].ids \subseteq Sent
  /\ \A s \in Sessions, u \in Sent :
       Waits(u, s) => /\ \A c \in Scopes : cursor[s][c] < u
                      /\ \A t \in preview[s].ids : t < u

PInv == to # "opencode" => FrontierInv

----------------------------------------------------------------------------
(* Steps that make no task wait *)

Calm(r, u) ==
  u.approval = "pending" =>
    r.approval = "pending" /\ \A s \in Sessions : Listed(u, s) => Listed(r, s)
CalmStep == \A t \in Sent : Calm(task[t], task'[t])

LEMMA SentTasks ==
  ASSUME DeliveryTypeOK
  PROVE  Sent \subseteq Tasks /\ sent \in Nat
BY DeliveryAssumption DEF DeliveryTypeOK, Sent, Tasks

\* The record of a task nobody waits for may change as it likes.
LEMMA ApprovedCalm ==
  ASSUME DeliveryTypeOK, NEW t \in Tasks, NEW r, r.approval # "pending", Write(t, r)
  PROVE  CalmStep
<1>1. \A u \in Tasks : task'[u] = IF u = t THEN r ELSE task[u]
  BY DEF Write, DeliveryTypeOK
<1> QED
  BY <1>1, SentTasks DEF CalmStep, Calm

LEMMA WriteCalm ==
  ASSUME DeliveryTypeOK, NEW t \in Tasks, NEW r, Calm(task[t], r), Write(t, r)
  PROVE  CalmStep
<1>1. \A u \in Tasks : task'[u] = IF u = t THEN r ELSE task[u]
  BY DEF Write, DeliveryTypeOK
<1> QED
  BY <1>1, SentTasks DEF CalmStep, Calm

LEMMA SameCalm ==
  ASSUME task' = task
  PROVE  CalmStep
BY DEF CalmStep, Calm

LEMMA EndedCalm ==
  ASSUME NEW r \in TaskRecord, NEW a \in {"paused", "canceled"}
  PROVE  Calm(r, Ended(r, a))
<1>1. Ended(r, a) = r \/ (Ended(r, a).receipt = a /\ Ended(r, a).approval = r.approval)
  BY DEF Ended, Advance, TaskRecord
<1> QED
  BY <1>1 DEF Calm, Listed

LEMMA RestartCalm ==
  ASSUME NEW r \in TaskRecord, NEW old \in BOOLEAN
  PROVE  Calm(r, Reconciled(Retired(r), old))
<1>1. Retired(r) = r \/ (Retired(r) = [r EXCEPT !.age = "retired"])
  BY DEF Retired
<1>2. Retired(r) \in TaskRecord /\ Retired(r).approval = r.approval
      /\ (Retired(r) = r \/ Retired(r).age = "retired")
  BY <1>1 DEF TaskRecord
<1> DEFINE q == Retired(r)
           u == Reconciled(q, old)
<1>3. u = q \/ (u.delivery = "uncertain" /\ u.approval = q.approval)
  BY <1>2 DEF Reconciled, TaskRecord
<1> HIDE DEF q, u
<1>4. q = r \/ q.age = "retired"
  BY <1>2 DEF q
<1>5. \A s \in Sessions : Listed(u, s) => u = r
  BY <1>3, <1>4 DEF Listed
<1>6. u.approval = r.approval
  BY <1>2, <1>3 DEF q
<1> QED
  BY <1>5, <1>6 DEF Calm, u, q

\* An answered task is listed for nobody.
LEMMA CompletedCalm ==
  ASSUME NEW r \in TaskRecord, NEW s \in Sessions
  PROVE  Calm(r, Completed(r, s))
<1>1. Completed(r, s).approval = r.approval /\ Completed(r, s).result = s
  BY CompletedFixed
<1> QED
  BY <1>1, ReceiptsAssumption DEF Calm, Listed, Answered

\* Whoever works on a task goes on with an approved one.
LEMMA StaysApproved ==
  ASSUME IInv, CalmStep, NEW t \in Tasks, ~Pending(t)
  PROVE  ~Pending(t)'
<1>1. t \in Sent
  BY DEF IInv, DeliveryTypeOK, UnsentInv, Unsent, Pending, Sent, Tasks
<1> QED
  BY <1>1 DEF CalmStep, Calm, Pending

LEMMA WorkersKept ==
  ASSUME IInv, WorkersInv, CalmStep
  PROVE  /\ runner' = runner => \A t \in Tasks : runner'[t].at # "idle" => ~Pending(t)'
         /\ turn' # NoTurn /\ turn # NoTurn /\ turn'.id = turn.id
              => ~Pending(turn.id)'
         /\ waiting' \subseteq waiting => \A t \in waiting' : ~Pending(t)'
         /\ late' \subseteq late => \A t \in late' : ~Pending(t)'
<1>1. \A t \in Tasks : ~Pending(t) => ~Pending(t)'
  BY StaysApproved
<1>2. /\ waiting \subseteq Tasks /\ late \subseteq Tasks
      /\ turn # NoTurn => turn.id \in Tasks
  BY TurnKind DEF IInv, DeliveryTypeOK, CallersInv
<1> QED
  BY <1>1, <1>2 DEF WorkersInv

\* A step that reads nothing and makes no task wait keeps the frontier.
LEMMA FrontierKept ==
  ASSUME IInv, FrontierInv, CalmStep, UNCHANGED <<sent, cursor, preview>>, WorkersInv'
  PROVE  FrontierInv'
<1>1. \A s \in Sessions, u \in Sent : Waits(u, s)' => Waits(u, s)
  BY DEF CalmStep, Calm, Waits, Pending
<1> QED
  BY <1>1 DEF FrontierInv, Sent

----------------------------------------------------------------------------
(* Senders, and ends of a task *)

\* A step of nobody who delivers.
LEMMA OutsideKeeps ==
  ASSUME IInv, FrontierInv, CalmStep,
         UNCHANGED <<sent, cursor, preview, runner, turn, waiting, late>>
  PROVE  FrontierInv'
<1>1. WorkersInv'
  BY WorkersKept DEF WorkersInv, FrontierInv
<1> QED
  BY <1>1, FrontierKept

LEMMA SendFrontier ==
  ASSUME IInv, FrontierInv, NEW owner \in BOOLEAN,
         NEW approval \in {"pending", "granted"}, NEW target \in MaybeSession,
         Send(owner, approval, target)
  PROVE  FrontierInv'
<1>1. /\ sent' = sent + 1 /\ sent \in Nat
      /\ Write(sent + 1, NewTask(owner, approval, target))
      /\ UNCHANGED <<cursor, preview, runner, turn, waiting, late>>
  BY SentTasks DEF Send, transports, IInv
<1>2. \A t \in Tasks : t # sent + 1 => task'[t] = task[t]
  BY <1>1 DEF Write, IInv, DeliveryTypeOK
<1>3. CalmStep
  BY <1>1, <1>2, SentTasks DEF CalmStep, Calm, Sent, IInv
<1>4. WorkersInv'
  BY <1>1, <1>3, WorkersKept DEF WorkersInv, FrontierInv
<1>5. \A s \in Sessions, u \in Sent : Waits(u, s)' => Waits(u, s)
  BY <1>3 DEF CalmStep, Calm, Waits, Pending
<1>6. /\ Sent \subseteq Sent' /\ Sent' \subseteq Sent \cup {sent + 1}
      /\ \A t \in Sent : t < sent + 1
  BY <1>1 DEF Sent
<1>7. \A s \in Sessions, c \in Scopes : cursor[s][c] \in Nat
  BY DeliveryAssumption DEF IInv, DeliveryTypeOK
<1>8. \A s \in Sessions, c \in Scopes : cursor[s][c] < sent + 1
  BY <1>1, <1>7 DEF FrontierInv
<1>9. \A s \in Sessions, c \in Scopes : cursor[s][c] <= sent + 1
  BY <1>1, <1>7 DEF FrontierInv
<1> QED
  BY <1>1, <1>4, <1>5, <1>6, <1>8, <1>9 DEF FrontierInv

LEMMA OwnerPromptFrontier ==
  ASSUME IInv, FrontierInv, OwnerPrompt
  PROVE  FrontierInv'
<1> DEFINE r == SetDelivery(NewTask(TRUE, "granted", NoSession), "deferred", NoSession)
<1>1. /\ sent' = sent + 1 /\ sent \in Nat /\ sent + 1 \in Tasks
      /\ task' = [t \in Tasks |-> IF t = sent + 1 THEN r ELSE Interrupted(t)]
      /\ waiting' = waiting \cup {sent + 1}
      /\ UNCHANGED <<cursor, preview, runner, late>>
      /\ turn' = turn \/ (turn # NoTurn /\ turn'.id = turn.id)
  BY SentTasks, DeliveryAssumption, TurnKind
     DEF OwnerPrompt, Fence, IInv, Tasks, TurnShape, CallersInv
<1>2. r.approval = "granted"
  <2>1. NewTask(TRUE, "granted", NoSession) \in TaskRecord
        /\ NewTask(TRUE, "granted", NoSession).approval = "granted"
    BY NewTaskGives DEF MaybeSession, NewTask
  <2> QED
    BY <2>1, ReportQuiet DEF Quiet, MaybeSession
<1> HIDE DEF r
<1>3. CalmStep
  <2>1. \A t \in Tasks : Calm(task[t], task[t]) /\ Calm(task[t], Ended(task[t], "paused"))
    BY EndedCalm DEF Calm, IInv, DeliveryTypeOK
  <2>2. \A t \in Sent : t # sent + 1 /\ t \in Tasks
    BY <1>1, SentTasks DEF Sent, IInv
  <2> QED
    BY <1>1, <2>1, <2>2 DEF CalmStep, Interrupted
<1>4. WorkersInv'
  <2>1. task'[sent + 1].approval # "pending"
    BY <1>1, <1>2 DEF Pending
  <2>2. \A t \in waiting : ~Pending(t)'
    BY <1>3, StaysApproved DEF FrontierInv, WorkersInv, IInv, DeliveryTypeOK
  <2>3. turn' # NoTurn => task'[turn'.id].approval # "pending"
    BY <1>1, <1>3, WorkersKept, StaysApproved, TurnKind
       DEF FrontierInv, WorkersInv, IInv, CallersInv, Pending
  <2> QED
    BY <1>1, <1>3, <2>1, <2>2, <2>3, WorkersKept DEF WorkersInv, FrontierInv, Pending
<1>5. \A s \in Sessions, u \in Sent : Waits(u, s)' => Waits(u, s)
  BY <1>3 DEF CalmStep, Calm, Waits, Pending
<1>6. /\ task'[sent + 1].approval # "pending"
      /\ Sent' \subseteq Sent \cup {sent + 1} /\ Sent \subseteq Sent'
  BY <1>1, <1>2 DEF Pending, Sent
<1>7. \A s \in Sessions, c \in Scopes : cursor[s][c] <= sent + 1
  <2>1. \A s \in Sessions, c \in Scopes : cursor[s][c] \in Nat
    BY DeliveryAssumption DEF IInv, DeliveryTypeOK
  <2> QED
    BY <1>1, <2>1 DEF FrontierInv
<1>8. \A s \in Sessions, u \in Sent' : Waits(u, s)' => u \in Sent /\ Waits(u, s)
  BY <1>5, <1>6 DEF Waits, Pending
<1> QED
  BY <1>1, <1>4, <1>6, <1>7, <1>8 DEF FrontierInv

LEMMA SendersFrontier ==
  ASSUME IInv, FrontierInv, Senders
  PROVE  FrontierInv'
<1> USE DEF IInv
<1>1. ASSUME NEW owner \in BOOLEAN, NEW approval \in {"pending", "granted"},
             NEW target \in MaybeSession, Send(owner, approval, target)
      PROVE  FrontierInv'
  BY <1>1, SendFrontier
<1>2. ASSUME NEW t \in Tasks, Defer(t) PROVE FrontierInv'
  <2>1. SetDelivery(task[t], "deferred", NoSession).approval = task[t].approval
        /\ task[t].approval = "granted"
    BY <1>2, ReportQuiet DEF Defer, CanQueue, Quiet, MaybeSession, DeliveryTypeOK
  <2>2. CalmStep
    BY <1>2, <2>1, ApprovedCalm DEF Defer, Report
  <2> QED
    BY <1>2, <2>2, OutsideKeeps DEF Defer, transports
<1>3. ASSUME NEW t \in Tasks, GrowStale(t) PROVE FrontierInv'
  <2>1. Calm(task[t], [task[t] EXCEPT !.age = "stale"])
    <3>1. task[t] \in TaskRecord
      BY DEF DeliveryTypeOK
    <3> QED
      BY <3>1 DEF Calm, Listed, TaskRecord
  <2>2. CalmStep
    BY <1>3, <2>1, WriteCalm DEF GrowStale
  <2> QED
    BY <1>3, <2>2, OutsideKeeps DEF GrowStale, transports
<1>4. ASSUME NEW t \in Tasks, PauseStage(t) PROVE FrontierInv'
  <2>1. Calm(task[t], Ended(task[t], "paused"))
    BY EndedCalm DEF DeliveryTypeOK
  <2>2. CalmStep
    BY <1>4, <2>1, WriteCalm DEF PauseStage
  <2> QED
    BY <1>4, <2>2, OutsideKeeps DEF PauseStage, transports
<1>5. ASSUME NEW t \in Tasks, NEW yes \in BOOLEAN, Decide(t, yes) PROVE FrontierInv'
  <2> DEFINE r == IF yes THEN Approved(task[t], to = "claude")
                         ELSE [task[t] EXCEPT !.approval = "refused"]
  <2>1. task[t] \in TaskRecord
    BY DEF DeliveryTypeOK
  <2>2. r.approval # "pending"
    BY <2>1 DEF Approved, TaskRecord
  <2>3. Write(t, r)
    BY <1>5 DEF Decide
  <2>4. CalmStep
    BY <2>2, <2>3, ApprovedCalm
  <2> QED
    BY <1>5, <2>4, OutsideKeeps DEF Decide, transports
<1> QED
  BY <1>1, <1>2, <1>3, <1>4, <1>5 DEF Senders

----------------------------------------------------------------------------
(* The inbox *)

\* What a session looks at lies before whatever waits for it.
LEMMA LookFrontier ==
  ASSUME IInv, FrontierInv, NEW s \in Sessions, NEW scope \in Scopes, Look(s, scope)
  PROVE  FrontierInv'
<1>1. PICK ids \in SUBSET Visible(s, scope) :
        preview' = [preview EXCEPT ![s] = [scope |-> scope, ids |-> ids]]
  BY DEF Look
<1>2. UNCHANGED <<sent, task, cursor, runner, turn, waiting, late>>
  BY DEF Look, transports
<1>3. preview'[s].ids = ids /\ \A v \in Sessions : v # s => preview'[v] = preview[v]
  BY <1>1 DEF IInv, DeliveryTypeOK
<1>4. ids \subseteq Sent
  BY DEF Visible
<1>5. ASSUME NEW u \in Sent, Waits(u, s), NEW t \in ids
      PROVE  t < u
  <2>1. cursor[s][scope] < u
    BY <1>5 DEF FrontierInv
  <2>2. cursor[s][scope] \in Nat /\ u \in Nat
    BY DeliveryAssumption, SentTasks DEF IInv, DeliveryTypeOK, Sent
  <2>3. u > cursor[s][scope]
    BY <2>1, <2>2
  <2> QED
    BY <1>5, <2>3 DEF Visible, Waits, Pending
<1>6. \A v \in Sessions, u \in Sent : Waits(u, v)' <=> Waits(u, v)
  BY <1>2 DEF Waits, Pending
<1>7. WorkersInv'
  BY <1>2 DEF WorkersInv, FrontierInv, Pending
<1> QED
  BY <1>2, <1>3, <1>4, <1>5, <1>6, <1>7 DEF FrontierInv, Sent

\* A claim takes no task that waits, and moves the cursor to what was looked at.
LEMMA ReadFrontier ==
  ASSUME IInv, FrontierInv, NEW s \in Sessions, Read(s)
  PROVE  FrontierInv'
<1> DEFINE ids == preview[s].ids
           scope == preview[s].scope
           Moves(t) == t > cursor[s][scope]
                       /\ (Takes(task[t], s) \/ Passes(task[t], s))
           moved == {t \in ids : Moves(t)}
           taken == {t \in moved : Takes(task[t], s)}
<1>1. /\ preview' = [preview EXCEPT ![s] = NoPreview]
      /\ task' = [t \in Tasks |-> IF t \in taken THEN Taken(task[t], s) ELSE task[t]]
      /\ \/ cursor' = cursor
         \/ \E t \in moved : cursor' = [cursor EXCEPT ![s][scope] = t]
      /\ UNCHANGED <<sent, runner, turn, waiting, late>>
  BY DEF Read, transports
<1>2. ids \subseteq Sent /\ moved \subseteq ids /\ scope \in Scopes
  BY DEF FrontierInv, IInv, DeliveryTypeOK
<1>3. \A t \in taken : Takes(task[t], s)
  OBVIOUS
<1> HIDE DEF moved, taken
<1>4. CalmStep
  <2> SUFFICES ASSUME NEW t \in Sent PROVE Calm(task[t], task'[t])
    BY DEF CalmStep
  <2>1. t \in Tasks /\ task[t] \in TaskRecord
    BY SentTasks DEF IInv, DeliveryTypeOK
  <2>2. CASE t \in taken
    <3>1. Taken(task[t], s).approval = task[t].approval /\ task[t].approval # "pending"
      BY <1>3, <2>1, <2>2 DEF Takes, Taken, TaskRecord
    <3> QED
      BY <1>1, <2>1, <2>2, <3>1 DEF Calm
  <2>3. CASE t \notin taken
    BY <1>1, <2>1, <2>3 DEF Calm
  <2> QED
    BY <2>2, <2>3
<1>5. WorkersInv'
  BY <1>1, <1>4, WorkersKept DEF WorkersInv, FrontierInv
<1>6. /\ preview'[s].ids = {}
      /\ \A v \in Sessions : v # s => preview'[v] = preview[v]
  BY <1>1 DEF IInv, DeliveryTypeOK, NoPreview
<1>7. \A v \in Sessions, c \in Scopes :
        cursor'[v][c] = cursor[v][c] \/ (v = s /\ cursor'[v][c] \in ids)
  BY <1>1, <1>2 DEF IInv, DeliveryTypeOK
<1>8. \A v \in Sessions, u \in Sent : Waits(u, v)' => Waits(u, v)
  BY <1>4 DEF CalmStep, Calm, Waits, Pending
<1>9. \A t \in ids : t <= sent
  BY <1>2 DEF Sent
<1> HIDE DEF ids, scope
<1>10. \A u \in Sent, t \in ids : Waits(u, s) => t < u
  BY DEF FrontierInv, ids
<1>11. Sent' = Sent
  BY <1>1 DEF Sent
<1>12. \A v \in Sessions, c \in Scopes : cursor'[v][c] <= sent
  BY <1>7, <1>9 DEF FrontierInv
<1>13. \A v \in Sessions, u \in Sent, c \in Scopes :
         Waits(u, v) => cursor'[v][c] < u
  <2> SUFFICES ASSUME NEW v \in Sessions, NEW u \in Sent, NEW c \in Scopes, Waits(u, v)
               PROVE  cursor'[v][c] < u
    OBVIOUS
  <2>1. CASE cursor'[v][c] = cursor[v][c]
    BY <2>1 DEF FrontierInv
  <2>2. CASE v = s /\ cursor'[v][c] \in ids
    BY <2>2, <1>10
  <2> QED
    BY <1>7, <2>1, <2>2
<1>14. \A v \in Sessions, u \in Sent :
         Waits(u, v) => \A t \in preview'[v].ids : t < u
  BY <1>6 DEF FrontierInv
<1>15. \A v \in Sessions : preview'[v].ids \subseteq Sent
  BY <1>6 DEF FrontierInv
<1> QED
  BY <1>1, <1>5, <1>8, <1>11, <1>12, <1>13, <1>14, <1>15 DEF FrontierInv

LEMMA ReadersFrontier ==
  ASSUME IInv, FrontierInv, Readers
  PROVE  FrontierInv'
<1>1. ASSUME NEW s \in Sessions, Read(s) PROVE FrontierInv'
  BY <1>1, ReadFrontier
<1>2. ASSUME NEW s \in Sessions, NEW scope \in Scopes, Look(s, scope) PROVE FrontierInv'
  BY <1>2, LookFrontier
<1>3. ASSUME NEW s \in Sessions, NEW t \in Tasks, Write(t, Completed(task[t], s)),
             UNCHANGED <<to, sent, cursor, preview, transports, handed, faults>>
      PROVE  FrontierInv'
  <2>1. CalmStep
    BY <1>3, CompletedCalm, WriteCalm DEF IInv, DeliveryTypeOK
  <2> QED
    BY <1>3, <2>1, OutsideKeeps DEF transports
<1>4. ASSUME NEW s \in Sessions, NEW named \in BOOLEAN, EndTurn(s, named)
      PROVE  FrontierInv'
  BY <1>3, <1>4, SentTasks DEF EndTurn, IInv
<1>5. ASSUME NEW s \in Sessions, NEW t \in Tasks, ReportResult(t, s) PROVE FrontierInv'
  BY <1>3, <1>5 DEF ReportResult
<1> QED
  BY <1>1, <1>2, <1>4, <1>5 DEF Readers

----------------------------------------------------------------------------
(* Codex *)

\* A runner reports on the approved task that it delivers.
LEMMA RunnerFrontier ==
  ASSUME IInv, FrontierInv, NEW t \in Tasks, NEW r, NEW state, ~Pending(t),
         r.approval # "pending", Write(t, r), Run(t, state),
         UNCHANGED <<sent, cursor, preview, turn, waiting, late>>
  PROVE  FrontierInv'
<1>1. CalmStep
  BY ApprovedCalm DEF IInv
<1>2. ~Pending(t)'
  BY <1>1, StaysApproved
<1>3. \A u \in Tasks : u # t => runner'[u] = runner[u]
  BY DEF Run, IInv, DeliveryTypeOK
<1>4. ASSUME NEW u \in Tasks, u # t, runner'[u].at # "idle" PROVE ~Pending(u)'
  BY <1>1, <1>3, <1>4, StaysApproved DEF FrontierInv, WorkersInv
<1>5. WorkersInv'
  BY <1>1, <1>2, <1>4, WorkersKept DEF WorkersInv, FrontierInv
<1> QED
  BY <1>1, <1>5, FrontierKept

LEMMA CodexFrontier ==
  ASSUME IInv, FrontierInv, NEW t \in Tasks, Codex(t)
  PROVE  FrontierInv'
<1>1. task[t] \in TaskRecord /\ Held(task[t], handed[t])
  BY DEF IInv, DeliveryTypeOK, HeldInv
<1>2. runner[t].at # "idle" => ~Pending(t)
  BY DEF FrontierInv, WorkersInv
<1>3. ASSUME NEW st \in {"sending", "deferred", "uncertain", "failed"},
             NEW thread \in MaybeSession, NEW state, runner[t].at # "idle",
             Report(t, st, thread), Run(t, state),
             UNCHANGED <<sent, cursor, preview, turn, waiting, late>>
      PROVE  FrontierInv'
  <2>1. SetDelivery(task[t], st, thread).approval = task[t].approval
    BY <1>1, ReportQuiet DEF Quiet
  <2> QED
    BY <1>2, <1>3, <2>1, RunnerFrontier DEF Report, Pending
<1>4. CASE CodexClaim(t)
  <2>1. ~Pending(t) /\ CodexClaimed(task[t]).approval = task[t].approval
    BY <1>1, <1>4 DEF CodexClaim, CodexClaimable, CodexClaimed, Unclaimed, CanQueue,
       Pending, TaskRecord
  <2> QED
    BY <1>4, <2>1, RunnerFrontier DEF CodexClaim, Pending
<1>5. CASE CodexFail(t)
  BY <1>3, <1>5 DEF CodexFail, Running, MaybeSession
<1>6. CASE RunnerCrash(t)
  <2>1. CalmStep
    BY <1>6, SameCalm DEF RunnerCrash
  <2>2. \A u \in Tasks : runner'[u].at # "idle" => runner[u].at # "idle"
    BY <1>6 DEF RunnerCrash, Run, NoRunner, IInv, DeliveryTypeOK
  <2>3. WorkersInv'
    BY <1>6, <2>2 DEF RunnerCrash, FrontierInv, WorkersInv, Pending
  <2> QED
    BY <1>6, <2>1, <2>3, FrontierKept DEF RunnerCrash
<1>7. ASSUME NEW s \in Sessions, CodexBind(t, s) PROVE FrontierInv'
  <2>1. Bound(task[t], s).approval = task[t].approval
    BY <1>1, <1>7, BindGives DEF CodexBind, Held
  <2> QED
    BY <1>2, <1>7, <2>1, RunnerFrontier DEF CodexBind, Running, Pending
<1>8. ASSUME NEW s \in Sessions, CodexDefer(t, s) PROVE FrontierInv'
  BY <1>3, <1>8 DEF CodexDefer, Running, MaybeSession
<1>9. ASSUME NEW b \in BOOLEAN, CodexSpawn(t, b) PROVE FrontierInv'
  <2>1. runner[t].session \in MaybeSession
    BY DEF IInv, DeliveryTypeOK
  <2> QED
    BY <1>3, <1>9, <2>1 DEF CodexSpawn, Running
<1>10. ASSUME NEW ok \in BOOLEAN, CodexReturn(t, ok) PROVE FrontierInv'
  <2>1. CASE ok
    <3>1. runner[t].session \in Sessions /\ task[t].session = runner[t].session
      BY <1>10 DEF CodexReturn, Running, IInv, CallersInv, RunnerInv
    <3>2. SetDelivery(task[t], "queued", runner[t].session).approval = task[t].approval
      BY <1>1, <3>1, QueuedFixed
    <3> QED
      BY <1>2, <1>10, <2>1, <3>2, RunnerFrontier
         DEF CodexReturn, Report, Running, Pending
  <2>2. CASE ~ok
    BY <1>3, <1>10, <2>2 DEF CodexReturn, Running, MaybeSession
  <2> QED
    BY <2>1, <2>2
<1>11. CASE CodexRecord(t)
  <2>1. runner[t].session \in MaybeSession
    BY DEF IInv, DeliveryTypeOK
  <2> QED
    BY <1>3, <1>11, <2>1 DEF CodexRecord, Running
<1> QED
  BY <1>4, <1>5, <1>6, <1>7, <1>8, <1>9, <1>10, <1>11 DEF Codex

----------------------------------------------------------------------------
(* Claude *)

\* The managed connection ends its turn, or goes on with an approved task.
LEMMA TurnFrontier ==
  ASSUME IInv, FrontierInv, CalmStep, waiting' \subseteq waiting,
         turn' = NoTurn \/ (turn'.id \in Tasks /\ ~Pending(turn'.id)),
         late' \subseteq late \/ (turn # NoTurn /\ late' \subseteq late \cup {turn.id}),
         UNCHANGED <<sent, cursor, preview, runner>>
  PROVE  FrontierInv'
<1>1. turn' # NoTurn => task'[turn'.id].approval # "pending"
  <2> SUFFICES ASSUME turn'.id \in Tasks, ~Pending(turn'.id)
               PROVE  task'[turn'.id].approval # "pending"
    OBVIOUS
  <2>1. \A t \in Tasks : ~Pending(t) => ~Pending(t)'
    BY StaysApproved
  <2> QED
    BY <2>1 DEF Pending
<1>2. \A t \in late' : ~Pending(t)'
  <2>1. /\ \A t \in Tasks : ~Pending(t) => ~Pending(t)'
        /\ late \subseteq Tasks /\ (turn # NoTurn => turn.id \in Tasks)
    BY StaysApproved, TurnKind DEF IInv, DeliveryTypeOK, CallersInv
  <2> QED
    BY <2>1 DEF WorkersInv, FrontierInv
<1>3. WorkersInv'
  BY <1>1, <1>2, WorkersKept DEF WorkersInv, FrontierInv, Pending
<1> QED
  BY <1>3, FrontierKept

\* The task of a turn is approved, and stays with the turn.
LEMMA TurnGoesOn ==
  ASSUME IInv, FrontierInv, turn # NoTurn
  PROVE  /\ turn.id \in Tasks /\ ~Pending(turn.id) /\ task[turn.id] \in TaskRecord
         /\ \A b \in BOOLEAN : [turn EXCEPT !.fenced = TRUE, !.timed = b].id = turn.id
         /\ [turn EXCEPT !.at = "accepted", !.timed = FALSE].id = turn.id
         /\ \A b \in BOOLEAN : [turn EXCEPT !.at = "prompted", !.took = b].id = turn.id
BY TurnKind DEF IInv, CallersInv, FrontierInv, WorkersInv, TurnShape

\* A step that reports on the task of the turn.
LEMMA TurnReports ==
  ASSUME IInv, FrontierInv, turn # NoTurn, NEW r,
         r.approval = task[turn.id].approval, Write(turn.id, r),
         turn' = NoTurn \/ turn'.id = turn.id,
         UNCHANGED <<sent, cursor, preview, runner, waiting, late>>
  PROVE  FrontierInv'
<1>1. turn.id \in Tasks /\ ~Pending(turn.id)
  BY TurnGoesOn
<1>2. CalmStep
  BY <1>1, ApprovedCalm DEF IInv, Pending
<1> QED
  BY <1>1, <1>2, TurnFrontier

LEMMA BeginFrontier ==
  ASSUME IInv, FrontierInv, NEW t \in Tasks, NEW timed \in BOOLEAN,
         ProviderClaimable(task[t]), Begin(t, timed), waiting' \subseteq waiting,
         UNCHANGED <<sent, cursor, preview, runner, late>>
  PROVE  FrontierInv'
<1>1. /\ task[t] \in TaskRecord /\ Managed \in Sessions /\ ~Pending(t)
      /\ turn'.id = t
  BY DeliveryAssumption
     DEF IInv, DeliveryTypeOK, ProviderClaimable, Unclaimed, CanQueue, Pending, Begin, NoTurn
<1>2. SessionClaimed(task[t], Managed).approval = task[t].approval
  BY <1>1, ClaimGives
<1>3. CalmStep
  BY <1>1, <1>2, ApprovedCalm DEF Begin, IInv, Pending
<1> QED
  BY <1>1, <1>3, TurnFrontier

LEMMA InterruptedCalm ==
  ASSUME DeliveryTypeOK, NEW t \in Tasks
  PROVE  Calm(task[t], Interrupted(t)) /\ Calm(task[t], Ended(task[t], "canceled"))
<1>1. task[t] \in TaskRecord /\ Calm(task[t], task[t])
  BY DEF DeliveryTypeOK, Calm
<1> QED
  BY <1>1, EndedCalm DEF Interrupted

LEMMA AcceptFrontier ==
  ASSUME IInv, FrontierInv, Accept
  PROVE  FrontierInv'
<1> DEFINE r == SetDelivery(task[turn.id], "queued", Managed)
           u == IF Queued(r) THEN r ELSE Unconfirmed(r)
<1>1. /\ turn # NoTurn /\ Managed \in Sessions
      /\ task[turn.id].session = Managed /\ task[turn.id] \in TaskRecord
  BY TurnKind, DeliveryAssumption DEF Accept, Turn, IInv, CallersInv
<1>2. /\ Write(turn.id, u)
      /\ turn' = NoTurn \/ turn' = [turn EXCEPT !.at = "accepted", !.timed = FALSE]
      /\ UNCHANGED <<sent, cursor, preview, runner, waiting, late>>
  BY DEF Accept
<1>3. r \in TaskRecord /\ r.approval = task[turn.id].approval
  BY <1>1, QueuedFixed
<1> HIDE DEF r
<1>4. u.approval = task[turn.id].approval
  BY <1>3, UnconfirmedQuiet DEF Quiet
<1> HIDE DEF u
<1>5. turn' = NoTurn \/ turn'.id = turn.id
  BY <1>1, <1>2, TurnGoesOn
<1> QED
  BY <1>1, <1>2, <1>4, <1>5, TurnReports

LEMMA ClaudeFrontier ==
  ASSUME IInv, FrontierInv, Claude
  PROVE  FrontierInv'
<1> USE DEF IInv
<1>1. CASE OwnerPrompt
  BY <1>1, OwnerPromptFrontier
<1>2. ASSUME NEW t \in Tasks, StartNext(t) PROVE FrontierInv'
  <2>1. CASE ProviderClaimable(task[t])
    BY <1>2, <2>1, BeginFrontier DEF StartNext
  <2>2. CASE ~ProviderClaimable(task[t])
    <3>1. t \in waiting /\ ~Pending(t) /\ turn = NoTurn
      BY <1>2, TurnKind DEF StartNext, First, Turn, FrontierInv, WorkersInv, CallersInv, TurnInv
    <3>2. SetDelivery(task[t], "failed", NoSession).approval = task[t].approval
      BY ReportQuiet DEF Quiet, MaybeSession, DeliveryTypeOK
    <3>3. CalmStep
      BY <1>2, <2>2, <3>1, <3>2, ApprovedCalm DEF StartNext, Report, Pending
    <3> QED
      BY <1>2, <2>2, <3>1, <3>3, TurnFrontier DEF StartNext
  <2> QED
    BY <2>1, <2>2
<1>3. ASSUME NEW t \in Tasks, DeliverOwnerTask(t) PROVE FrontierInv'
  BY <1>3, BeginFrontier DEF DeliverOwnerTask
<1>4. ASSUME NEW took \in BOOLEAN, Dispatch(took) PROVE FrontierInv'
  <2>1. CalmStep /\ turn # NoTurn
    BY <1>4, SameCalm, TurnKind DEF Dispatch, Turn, CallersInv
  <2>2. turn'.id = turn.id
    BY <1>4, <2>1, TurnGoesOn DEF Dispatch
  <2> QED
    BY <1>4, <2>1, <2>2, TurnGoesOn, TurnFrontier DEF Dispatch
<1>5. CASE Accept
  BY <1>5, AcceptFrontier
<1>6. CASE TurnResult
  <2>1. turn # NoTurn /\ Managed \in Sessions
    BY <1>6, TurnKind, DeliveryAssumption DEF TurnResult, Turn, CallersInv
  <2>2. Completed(task[turn.id], Managed).approval = task[turn.id].approval
    BY <2>1, CompletedFixed, TurnGoesOn
  <2> QED
    BY <1>6, <2>1, <2>2, TurnReports DEF TurnResult
<1>7. CASE TurnError
  <2>1. Failed(task[turn.id]).approval = task[turn.id].approval
    BY <1>7, FailedQuiet, TurnGoesOn DEF TurnError, Quiet
  <2> QED
    BY <1>7, <2>1, TurnReports DEF TurnError
<1>8. CASE TurnEnds
  BY <1>8, SameCalm, TurnFrontier DEF TurnEnds
<1>9. CASE TurnTimeout
  <2>1. turn # NoTurn /\ Managed \in MaybeSession
    BY <1>9, TurnKind, DeliveryAssumption DEF TurnTimeout, CallersInv, MaybeSession
  <2>2. SetDelivery(task[turn.id], "uncertain", Managed).approval = task[turn.id].approval
    BY <2>1, ReportQuiet, TurnGoesOn DEF Quiet
  <2>3. turn'.id = turn.id
    BY <1>9, <2>1, TurnGoesOn DEF TurnTimeout
  <2> QED
    BY <1>9, <2>1, <2>2, <2>3, TurnReports DEF TurnTimeout, Report
<1>10. CASE Stop
  <2>1. CalmStep
    BY <1>10, InterruptedCalm, SentTasks DEF Stop, CalmStep
  <2>2. turn' = NoTurn \/ (turn # NoTurn /\ turn'.id = turn.id)
    BY <1>10, TurnGoesOn DEF Stop, Fence
  <2> QED
    BY <1>10, <2>1, <2>2, TurnGoesOn, TurnFrontier DEF Stop
<1>11. ASSUME NEW t \in Tasks, LateTimeout(t) PROVE FrontierInv'
  <2>1. t \in late /\ ~Pending(t) /\ Managed \in MaybeSession
    BY <1>11, DeliveryAssumption DEF LateTimeout, FrontierInv, WorkersInv, MaybeSession
  <2>2. SetDelivery(task[t], "uncertain", Managed).approval = task[t].approval
    BY <2>1, ReportQuiet DEF Quiet, DeliveryTypeOK
  <2>3. CalmStep
    BY <1>11, <2>1, <2>2, ApprovedCalm DEF LateTimeout, Report, Pending
  <2>4. WorkersInv'
    BY <1>11, <2>3, WorkersKept DEF LateTimeout, FrontierInv, WorkersInv
  <2> QED
    BY <1>11, <2>3, <2>4, FrontierKept DEF LateTimeout
<1> QED
  BY <1>1, <1>2, <1>3, <1>4, <1>5, <1>6, <1>7, <1>8, <1>9, <1>10, <1>11 DEF Claude

LEMMA RestartFrontier ==
  ASSUME IInv, FrontierInv, NEW orderly \in BOOLEAN, Restart(orderly)
  PROVE  FrontierInv'
<1>1. PICK old \in SUBSET {t \in Sent : task[t].delivery = "sending"} :
        task' = [t \in Tasks |->
          LET r == IF orderly /\ t = turn.id THEN Ended(task[t], "canceled")
                                             ELSE task[t]
          IN Reconciled(Retired(r), t \in old)]
  BY DEF Restart
<1>2. ASSUME NEW t \in Tasks, NEW r, r = task[t] \/ r = Ended(task[t], "canceled")
      PROVE  Calm(task[t], Reconciled(Retired(r), t \in old))
  <2>1. task[t] \in TaskRecord
    BY DEF IInv, DeliveryTypeOK
  <2>2. r \in TaskRecord /\ Calm(task[t], r)
    BY <1>2, <2>1, EndedQuiet, EndedCalm DEF Calm, Quiet
  <2>3. \A b \in BOOLEAN : Calm(r, Reconciled(Retired(r), b))
    BY <2>2, RestartCalm
  <2>4. Calm(r, Reconciled(Retired(r), t \in old))
    BY <2>3, (t \in old) \in BOOLEAN
  <2> QED
    BY <2>2, <2>4 DEF Calm
<1>3. CalmStep
  BY <1>1, <1>2, SentTasks DEF CalmStep, IInv
<1>4. waiting' \subseteq waiting /\ late' \subseteq late
  BY DEF Restart
<1> QED
  BY <1>3, <1>4, TurnFrontier DEF Restart

----------------------------------------------------------------------------
(* OpenCode, whose sessions have nothing to do with another recipient *)

LEMMA OpenCodeFrontier ==
  ASSUME IInv, FrontierInv, to # "opencode", NEW s \in Sessions, OpenCode(s)
  PROVE  FrontierInv'
<1>1. GoesIdle(s) \/ PluginCrash(s)
  BY DEF OpenCode, Settle, Poll, PollClaim, PollRefused, Prompt, ExecutionFails, Polls
<1>2. UNCHANGED <<task, sent, cursor, preview, runner, turn, waiting, late>>
  BY <1>1 DEF GoesIdle, PluginCrash
<1> QED
  BY <1>2, SameCalm, OutsideKeeps

----------------------------------------------------------------------------
(* The theorem *)

LEMMA FrontierStep ==
  ASSUME IInv, PInv, [Next]_vars
  PROVE  PInv'
<1> SUFFICES ASSUME to' # "opencode" PROVE FrontierInv'
  BY DEF PInv
<1>1. to' = to
  BY ToStays
<1>2. FrontierInv /\ to # "opencode"
  BY <1>1 DEF PInv
<1>3. CASE Next
  BY <1>2, <1>3, SendersFrontier, ReadersFrontier, ClaudeFrontier, CodexFrontier,
     OpenCodeFrontier, RestartFrontier DEF Next
<1>4. CASE UNCHANGED vars
  BY <1>2, <1>4, SameCalm, OutsideKeeps DEF vars, transports
<1> QED
  BY <1>3, <1>4

LEMMA FrontierStarts ==
  ASSUME Init
  PROVE  PInv
<1>1. WorkersInv
  BY DEF Init, WorkersInv, NoRunner
<1>2. Sent = {} /\ \A s \in Sessions : preview[s].ids = {}
  BY DEF Init, Sent, NoPreview
<1> QED
  BY <1>1, <1>2 DEF PInv, FrontierInv, Init

\* No read of the inbox moves a session's cursor to or past a task that waits
\* for approval and that the session may be given, for any tasks, sessions,
\* scopes and faults, whatever else is delivered, taken back or restarted.
THEOREM PendingTasksKeepTheirPlace == Spec => []PendingKeepsItsPlace
<1>1. Init => IInv /\ PInv
  BY InitHolds, FrontierStarts
<1>2. IInv /\ PInv /\ [Next]_vars => PInv'
  BY FrontierStep
<1>3. PInv => PendingKeepsItsPlace
  BY DEF PInv, FrontierInv, PendingKeepsItsPlace, KeepsItsPlace, Waits, Pending
<1> QED
  BY <1>1, <1>2, <1>3, DeliveryInvariant, PTL DEF Spec

----------------------------------------------------------------------------
(***************************************************************************)
(* A task is given to its session once, unless its delivery failed: the    *)
(* proof of HandedOnce.                                                    *)
(*                                                                         *)
(* Whoever is about to give a task away knows that nobody has it, since    *)
(* the claim saw it undelivered and nobody else may take it meanwhile.     *)
(* Only a failed delivery lets the inbox show it again, and every cursor   *)
(* of the session that does so moves past the task.                        *)
(***************************************************************************)

Underway(r) == r.delivery \in {"sending", "uncertain"}
Early(r) == r.delivery \in {"none", "deferred"}
Free(r) == Early(r) \/ r.delivery = "failed"

\* How many of a session's cursors are past a task.
At(n, t) == IF n >= t THEN 1 ELSE 0
Past(t, s) == At(cursor[s]["folder"], t) + At(cursor[s]["session"], t)

\* A record whose task was given n times to a session.
Counted(r, n, past) ==
  /\ n <= IF r.delivery = "failed" THEN 1 + past ELSE 1
  /\ n > 0 /\ ~r.delivered => Underway(r) \/ (to # "codex" /\ r.delivery = "failed")

CountsInv ==
  /\ \A t \in Tasks, s \in Sessions : Counted(task[t], handed[t][s], Past(t, s))
  /\ \A t \in Tasks : t > sent => task[t].delivery = "none" /\ t \notin waiting

\* Whoever is about to give a task away.
Never(t) == \A s \in Sessions : handed[t][s] = 0

RunnerHands ==
  \A t \in Tasks : runner[t].at # "idle" =>
    /\ to = "codex" /\ Underway(task[t]) /\ ~task[t].delivered
    /\ ~runner[t].took => Never(t)

\* A plugin may go on after the failure of what it prompts.
MayPrompt(r, n, past) ==
  \/ Underway(r) /\ ~r.delivered /\ n = 0
  \/ r.delivery = "failed" /\ n <= past

Prompts(s) ==
  LET t == plugin[s].id
  IN  to = "opencode" /\ MayPrompt(task[t], handed[t][s], Past(t, s))
PluginHands == \A s \in Sessions : plugin[s].at = "prompt" => Prompts(s)

TurnHands ==
  turn # NoTurn =>
    /\ to = "claude" /\ ~Free(task[turn.id])
    /\ task[turn.id].delivered \/ Underway(task[turn.id])
    /\ turn.at = "connecting" => handed[turn.id][Managed] = 0

OnceInv == CountsInv /\ RunnerHands /\ PluginHands /\ TurnHands

\* A timer that outlived its turn reports on a task that nobody can claim.
LateInv ==
  /\ to # "claude" => late = {}
  /\ turn # NoTurn => turn.id \notin waiting \cup late
  /\ \A t \in late : t \notin waiting /\ ~Free(task[t])

LEMMA OnceInvHanded == ASSUME IInv, OnceInv PROVE HandedOnce
<1>1. Cardinality(Scopes) = 2
  <2>1. Scopes = {"folder"} \cup {"session"}
    BY DEF Scopes
  <2>2. IsFiniteSet({"folder"}) /\ Cardinality({"folder"}) = 1 /\ "session" \notin {"folder"}
    BY FS_Singleton
  <2> QED
    BY <2>1, <2>2, FS_AddElement
<1>2. \A t \in Tasks, s \in Sessions : Past(t, s) \in 0..2 /\ handed[t][s] \in Nat
  BY DEF Past, At, IInv, DeliveryTypeOK
<1> QED
  BY <1>1, <1>2 DEF HandedOnce, OnceInv, CountsInv, Counted

\* A task that is free for a claim and was not delivered was given to nobody.
LEMMA FreeNever ==
  ASSUME IInv, OnceInv, NEW t \in Tasks, ~task[t].delivered,
         Early(task[t]) \/ (to = "codex" /\ task[t].delivery = "failed")
  PROVE  Never(t)
<1> SUFFICES ASSUME NEW s \in Sessions PROVE handed[t][s] = 0
  BY DEF Never
<1>1. handed[t][s] \in Nat /\ Counted(task[t], handed[t][s], Past(t, s))
  BY DEF IInv, DeliveryTypeOK, OnceInv, CountsInv
<1> QED
  BY <1>1 DEF Counted, Underway, Early

\* A record that goes on, as far as the counts are concerned.
Onward(r, u) ==
  /\ r.delivered => u.delivered
  /\ r.delivery = "failed" => u.delivery = "failed"
  /\ ~u.delivered =>
       \/ u.delivery = r.delivery \/ Early(r) \/ Underway(u)
       \/ to # "codex" /\ u.delivery = "failed"

CursorsOn == \A s \in Sessions, c \in Scopes : cursor'[s][c] >= cursor[s][c]

UnsentStay ==
  \A t \in Tasks : t > sent' =>
    t > sent /\ task'[t].delivery = task[t].delivery /\ (t \in waiting' => t \in waiting)

LEMMA PastOn ==
  ASSUME IInv, IInv', CursorsOn
  PROVE  \A t \in Tasks, s \in Sessions :
           Past(t, s) \in Nat /\ Past(t, s)' \in Nat /\ Past(t, s)' >= Past(t, s)
<1> SUFFICES ASSUME NEW t \in Tasks, NEW s \in Sessions
             PROVE  Past(t, s) \in Nat /\ Past(t, s)' \in Nat /\ Past(t, s)' >= Past(t, s)
  OBVIOUS
<1>1. \A c \in Scopes : cursor[s][c] \in Nat /\ cursor'[s][c] \in Nat /\ cursor'[s][c] >= cursor[s][c]
  BY DeliveryAssumption DEF IInv, DeliveryTypeOK, CursorsOn
<1>2. t \in Nat
  BY DeliveryAssumption DEF Tasks
<1> QED
  BY <1>1, <1>2 DEF Past, At, Scopes

LEMMA CountsKept ==
  ASSUME IInv, IInv', OnceInv, UNCHANGED <<to, handed>>, CursorsOn, UnsentStay,
         \A t \in Tasks : Onward(task[t], task'[t]) \/ Never(t)
  PROVE  CountsInv'
<1>1. ASSUME NEW t \in Tasks, NEW s \in Sessions
      PROVE  Counted(task[t], handed[t][s], Past(t, s))'
  <2>1. /\ Counted(task[t], handed[t][s], Past(t, s)) /\ handed[t][s] \in Nat
        /\ Past(t, s) \in Nat /\ Past(t, s)' \in Nat /\ Past(t, s)' >= Past(t, s)
    BY PastOn DEF OnceInv, CountsInv, IInv, DeliveryTypeOK
  <2>2. CASE handed[t][s] = 0
    BY <2>1, <2>2 DEF Counted
  <2>3. CASE handed[t][s] # 0 /\ Onward(task[t], task'[t])
    <3>1. handed[t][s] <= IF task'[t].delivery = "failed" THEN 1 + Past(t, s)' ELSE 1
      BY <2>1, <2>3 DEF Counted, Onward
    <3>2. ~task'[t].delivered =>
            Underway(task'[t]) \/ (to # "codex" /\ task'[t].delivery = "failed")
      BY <2>1, <2>3 DEF Counted, Onward, Early, Underway
    <3> QED
      BY <3>1, <3>2 DEF Counted, Underway
  <2> QED
    BY <2>2, <2>3 DEF Never
<1>2. \A t \in Tasks : t > sent' => task'[t].delivery = "none" /\ t \notin waiting'
  BY DEF OnceInv, CountsInv, UnsentStay
<1> QED
  BY <1>1, <1>2 DEF CountsInv

----------------------------------------------------------------------------
(* Steps of those who give nothing away *)

\* A record that whoever works on the task may still rely on.
Outside(r, u) ==
  /\ Onward(r, u)
  /\ Underway(r) /\ ~r.delivered => Underway(u) /\ ~u.delivered
  /\ ~Free(r) => ~Free(u)

\* A record that a prompt under way may still rely on.
GoesOn(r, u) ==
  /\ r.delivery = "failed" => u.delivery = "failed"
  /\ Underway(r) /\ ~r.delivered =>
       u.delivery = "failed" \/ (Underway(u) /\ ~u.delivered)

LEMMA MayPromptOn ==
  ASSUME NEW r, NEW u, NEW n \in Nat, NEW past \in Nat, NEW later \in Nat, later >= past,
         MayPrompt(r, n, past), GoesOn(r, u)
  PROVE  MayPrompt(u, n, later)
BY DEF MayPrompt, GoesOn

LEMMA OtherRunners ==
  ASSUME OnceInv, to # "codex", UNCHANGED <<to, runner>>
  PROVE  RunnerHands'
BY DEF OnceInv, RunnerHands

LEMMA OtherPlugins ==
  ASSUME OnceInv, to # "opencode", UNCHANGED <<to, plugin>>
  PROVE  PluginHands'
BY DEF OnceInv, PluginHands, Prompts

LEMMA OtherTurn ==
  ASSUME OnceInv, to # "claude", UNCHANGED <<to, turn>>
  PROVE  TurnHands'
BY DEF OnceInv, TurnHands

\* A prompt that a step does not concern.
StillPrompts(s) ==
  LET t == plugin[s].id
  IN  /\ plugin'[s] = plugin[s]
      /\ handed'[t][s] = handed[t][s] /\ GoesOn(task[t], task'[t])

LEMMA PromptsOn ==
  ASSUME IInv, IInv', OnceInv, to' = to, CursorsOn,
         NEW s \in Sessions, plugin[s].at = "prompt", StillPrompts(s)
  PROVE  Prompts(s)'
<1>1. PICK t \in Tasks : t = plugin[s].id
  BY DEF IInv, CallersInv, PluginInv
<1>2. /\ to = "opencode" /\ MayPrompt(task[t], handed[t][s], Past(t, s))
      /\ handed[t][s] \in Nat
  BY <1>1 DEF OnceInv, PluginHands, Prompts, IInv, DeliveryTypeOK
<1>3. Past(t, s) \in Nat /\ Past(t, s)' \in Nat /\ Past(t, s)' >= Past(t, s)
  BY PastOn
<1>4. plugin'[s].id = t /\ handed'[t][s] = handed[t][s] /\ GoesOn(task[t], task'[t])
  BY <1>1 DEF StillPrompts
<1>5. MayPrompt(task'[t], handed[t][s], Past(t, s)')
  BY <1>2, <1>3, <1>4, MayPromptOn
<1> QED
  BY <1>2, <1>4, <1>5 DEF Prompts, Past

LEMMA OutsideOnce ==
  ASSUME IInv, IInv', OnceInv, UNCHANGED <<to, handed, cursor, runner, plugin>>,
         UnsentStay, \A t \in Tasks : Outside(task[t], task'[t]),
         \/ turn' = turn \/ turn' = NoTurn
         \/ turn # NoTurn /\ turn'.id = turn.id /\ turn'.at = turn.at
  PROVE  OnceInv'
<1>1. CursorsOn
  BY DeliveryAssumption DEF CursorsOn, IInv, DeliveryTypeOK
<1>2. CountsInv'
  BY <1>1, CountsKept DEF Outside
<1>3. RunnerHands'
  BY DEF RunnerHands, OnceInv, Outside, Never
<1>4. PluginHands'
  <2> SUFFICES ASSUME NEW s \in Sessions, plugin'[s].at = "prompt"
               PROVE  Prompts(s)'
    BY DEF PluginHands
  <2>1. plugin[s].id \in Tasks
    BY DEF IInv, CallersInv, PluginInv
  <2>2. StillPrompts(s)
    BY <2>1 DEF StillPrompts, GoesOn, Outside, Onward
  <2> QED
    BY <1>1, <2>2, PromptsOn
<1>5. TurnHands'
  BY DEF TurnHands, OnceInv, Outside, Onward, IInv, CallersInv, TurnInv
<1> QED
  BY <1>2, <1>3, <1>4, <1>5 DEF OnceInv

\* The changes of those who give nothing away.
Unmoved(r, u) == u.delivery = r.delivery /\ u.delivered = r.delivered

LEMMA UnmovedOutside ==
  ASSUME NEW r, NEW u, Unmoved(r, u)
  PROVE  Outside(r, u)
BY DEF Unmoved, Outside, Onward, Underway, Early, Free

LEMMA EarlyOutside ==
  ASSUME NEW r, NEW u, Early(r), ~r.delivered
  PROVE  Outside(r, u)
BY DEF Outside, Onward, Underway, Early, Free

LEMMA EndedUnmoved ==
  ASSUME NEW r \in TaskRecord, NEW a
  PROVE  Unmoved(r, Ended(r, a))
BY DEF Unmoved, Ended, TaskRecord

LEMMA CompletedOutside ==
  ASSUME NEW r \in TaskRecord, NEW s \in Sessions, r.delivered, ~Broken(r)
  PROVE  Outside(r, Completed(r, s))
<1>1. /\ Completed(r, s).delivered /\ r.delivery # "failed"
      /\ Completed(r, s).delivery = IF r.delivery = "none" THEN "none" ELSE "done"
  BY DEF Completed, Broken, TaskRecord
<1> QED
  BY <1>1 DEF Outside, Onward, Underway, Early, Free

LEMMA RestartOutside ==
  ASSUME NEW r \in TaskRecord, NEW old \in BOOLEAN
  PROVE  Outside(r, Reconciled(Retired(r), old))
<1>1. Retired(r) \in TaskRecord /\ Unmoved(r, Retired(r))
  BY DEF Retired, Unmoved, TaskRecord
<1>2. LET u == Reconciled(Retired(r), old)
      IN  /\ u.delivered = r.delivered
          /\ u.delivery = r.delivery \/ (r.delivery = "sending" /\ u.delivery = "uncertain")
  BY <1>1 DEF Reconciled, Unmoved, TaskRecord
<1> QED
  BY <1>2 DEF Outside, Onward, Underway, Early, Free

\* One record is written, of a task that was sent.
LEMMA WriteStays ==
  ASSUME IInv, OnceInv, NEW t \in Tasks, NEW r, Write(t, r), sent' = sent,
         waiting' \subseteq waiting,
         t \in Sent \/ task[t].delivery # "none" \/ r.delivery = task[t].delivery
  PROVE  /\ UnsentStay /\ task'[t] = r
         /\ \A u \in Tasks : u # t => task'[u] = task[u]
<1>1. task \in [Tasks -> TaskRecord] /\ task' = [task EXCEPT ![t] = r]
  BY DEF IInv, DeliveryTypeOK, Write
<1>2. task'[t] = r /\ \A u \in Tasks : u # t => task'[u] = task[u]
  BY <1>1
<1>3. t > sent => r.delivery = task[t].delivery
  BY DeliveryAssumption DEF OnceInv, CountsInv, Sent, Tasks, IInv, DeliveryTypeOK
<1> QED
  BY <1>2, <1>3 DEF UnsentStay

LEMMA WriteOutside ==
  ASSUME IInv, IInv', OnceInv, NEW t \in Tasks, NEW r, Write(t, r), sent' = sent,
         waiting' \subseteq waiting,
         UNCHANGED <<to, handed, cursor, runner, plugin>>,
         t \in Sent \/ task[t].delivery # "none" \/ r.delivery = task[t].delivery,
         Outside(task[t], r),
         \/ turn' = turn \/ turn' = NoTurn
         \/ turn # NoTurn /\ turn'.id = turn.id /\ turn'.at = turn.at
  PROVE  OnceInv'
<1>1. /\ UnsentStay /\ task'[t] = r
      /\ \A u \in Tasks : u # t => task'[u] = task[u]
  BY WriteStays
<1>2. \A u \in Tasks : Outside(task[u], task'[u])
  BY <1>1, UnmovedOutside DEF Unmoved
<1> QED
  BY <1>1, <1>2, OutsideOnce

LEMMA SameOnce ==
  ASSUME IInv, IInv', OnceInv,
         UNCHANGED <<to, sent, task, handed, cursor, runner, plugin, turn, waiting>>
  PROVE  OnceInv'
<1>1. \A u \in Tasks : Outside(task[u], task'[u])
  BY UnmovedOutside DEF Unmoved
<1>2. UnsentStay
  BY DEF UnsentStay
<1> QED
  BY <1>1, <1>2, OutsideOnce

LEMMA SendOnce ==
  ASSUME IInv, IInv', OnceInv, NEW owner \in BOOLEAN, NEW approval \in {"pending", "granted"},
         NEW target \in MaybeSession, Send(owner, approval, target)
  PROVE  OnceInv'
<1> DEFINE r == NewTask(owner, approval, target)
<1>1. /\ task' = [task EXCEPT ![sent + 1] = r] /\ sent < MaxTasks /\ sent' = sent + 1
      /\ UNCHANGED <<to, cursor, preview, transports, handed, faults>>
  BY DEF Send, Write
<1>2. r.delivery = "none"
  BY DEF NewTask
<1> HIDE DEF r
<1>3. /\ sent \in Nat /\ sent + 1 \in Tasks /\ task \in [Tasks -> TaskRecord]
      /\ task'[sent + 1] = r /\ \A u \in Tasks : u # sent + 1 => task'[u] = task[u]
  BY <1>1, DeliveryAssumption DEF IInv, DeliveryTypeOK, Tasks
<1>4. task[sent + 1].delivery = "none" /\ ~task[sent + 1].delivered
  BY <1>3 DEF IInv, UnsentInv, Unsent, OnceInv, CountsInv
<1>5. \A u \in Tasks : Outside(task[u], task'[u])
  BY <1>3, <1>4, EarlyOutside, UnmovedOutside DEF Unmoved, Early
<1>6. UnsentStay
  BY <1>1, <1>3, DeliveryAssumption DEF UnsentStay, transports, Tasks
<1> QED
  BY <1>1, <1>5, <1>6, OutsideOnce DEF transports

LEMMA SendersOnce ==
  ASSUME IInv, IInv', OnceInv, Senders
  PROVE  OnceInv'
<1>1. ASSUME NEW owner \in BOOLEAN, NEW approval \in {"pending", "granted"},
             NEW target \in MaybeSession, Send(owner, approval, target)
      PROVE  OnceInv'
  BY <1>1, SendOnce
<1>2. ASSUME NEW t \in Tasks, Defer(t) PROVE OnceInv'
  <2> DEFINE r == SetDelivery(task[t], "deferred", NoSession)
  <2>1. /\ Write(t, r) /\ t \in Sent /\ task[t].delivery = "none" /\ task[t] \in TaskRecord
        /\ UNCHANGED <<to, sent, handed, cursor, runner, plugin, turn, waiting>>
    BY <1>2 DEF Defer, Report, transports, IInv, DeliveryTypeOK
  <2>2. Outside(task[t], r)
    <3>1. r = task[t] \/ (r.delivery = "deferred" /\ r.delivered = task[t].delivered)
      BY <2>1 DEF SetDelivery, TaskRecord
    <3> QED
      BY <2>1, <3>1 DEF Outside, Onward, Underway, Early, Free
  <2> QED
    BY <2>1, <2>2, WriteOutside
<1>3. ASSUME NEW t \in Tasks, GrowStale(t) PROVE OnceInv'
  <2> DEFINE r == [task[t] EXCEPT !.age = "stale"]
  <2>1. /\ Write(t, r) /\ t \in Sent /\ Unmoved(task[t], r)
        /\ UNCHANGED <<to, sent, handed, cursor, runner, plugin, turn, waiting>>
    BY <1>3 DEF GrowStale, transports, IInv, DeliveryTypeOK, Unmoved, TaskRecord
  <2> QED
    BY <2>1, UnmovedOutside, WriteOutside
<1>4. ASSUME NEW t \in Tasks, PauseStage(t) PROVE OnceInv'
  <2> DEFINE r == Ended(task[t], "paused")
  <2>1. /\ Write(t, r) /\ t \in Sent /\ task[t] \in TaskRecord
        /\ UNCHANGED <<to, sent, handed, cursor, runner, plugin, turn, waiting>>
    BY <1>4 DEF PauseStage, transports, IInv, DeliveryTypeOK
  <2>2. Unmoved(task[t], r)
    BY <2>1, EndedUnmoved
  <2> QED
    BY <2>1, <2>2, UnmovedOutside, WriteOutside
<1>5. ASSUME NEW t \in Tasks, NEW yes \in BOOLEAN, Decide(t, yes) PROVE OnceInv'
  <2> DEFINE r == IF yes THEN Approved(task[t], to = "claude")
                         ELSE [task[t] EXCEPT !.approval = "refused"]
  <2>1. /\ Write(t, r) /\ t \in Sent /\ task[t] \in TaskRecord
        /\ UNCHANGED <<to, sent, handed, cursor, runner, plugin, turn, waiting>>
    BY <1>5 DEF Decide, transports, IInv, DeliveryTypeOK
  <2>2. \/ Unmoved(task[t], r)
        \/ task[t].delivery = "none" /\ ~task[t].delivered
    BY <2>1 DEF Approved, TaskRecord, Unmoved
  <2> HIDE DEF r
  <2>3. Outside(task[t], r)
    BY <2>2, UnmovedOutside, EarlyOutside DEF Early
  <2> QED
    BY <2>1, <2>3, WriteOutside
<1> QED
  BY <1>1, <1>2, <1>3, <1>4, <1>5 DEF Senders

\* What a claim of the inbox takes was given to nobody, or its delivery failed.
LEMMA TakesOnce ==
  ASSUME IInv, OnceInv, NEW t \in Tasks, NEW s \in Sessions, Takes(task[t], s)
  PROVE  Free(task[t]) /\ (Early(task[t]) => Never(t))
<1>1. task[t] \in TaskRecord /\ Held(task[t], handed[t])
  BY DEF IInv, DeliveryTypeOK, HeldInv
<1>2. Free(task[t])
  BY <1>1 DEF Takes, LeavesAlone, Over, Free, Early, TaskRecord, Deliveries
<1>3. ASSUME Early(task[t]) PROVE ~task[t].delivered
  <2>1. ~(task[t].delivered /\ Owner(task[t]) = s) /\ Owner(task[t]) \in {NoSession, s}
    BY <1>3 DEF Takes, ShownBefore, Elsewhere, Early
  <2>2. task[t].delivered => Owner(task[t]) # NoSession
    BY <1>1, ReceiptsAssumption DEF Held, Owner
  <2> QED
    BY <2>1, <2>2
<1> QED
  BY <1>2, <1>3, FreeNever

\* A claim of the inbox moves the cursor past what it takes.
LEMMA ReadMoves ==
  ASSUME IInv, NEW s \in Sessions, Read(s)
  PROVE  \E taken \in SUBSET Tasks :
           /\ \A t \in taken : Takes(task[t], s) /\ Past(t, s)' >= Past(t, s) + 1
           /\ \A t \in Tasks :
                /\ t \in taken => task'[t] = Taken(task[t], s)
                /\ t \notin taken => task'[t] = task[t]
           /\ CursorsOn /\ Hand(taken, s) /\ UNCHANGED <<to, sent, transports>>
<1> DEFINE scope == preview[s].scope
           Moves(t) == t > cursor[s][scope] /\ (Takes(task[t], s) \/ Passes(task[t], s))
           moved == {t \in preview[s].ids : Moves(t)}
           taken == {t \in moved : Takes(task[t], s)}
<1>1. /\ preview[s].ids \in SUBSET Tasks /\ scope \in Scopes
      /\ cursor \in [Sessions -> [Scopes -> 0..MaxTasks]]
      /\ cursor' \in [Sessions -> [Scopes -> 0..MaxTasks]]
  BY ReadKeeps DEF IInv, DeliveryTypeOK
<1>2. /\ task' = [t \in Tasks |-> IF t \in taken THEN Taken(task[t], s) ELSE task[t]]
      /\ Hand(taken, s) /\ UNCHANGED <<to, sent, transports>>
      /\ IF moved = {} THEN cursor' = cursor
         ELSE \E t \in moved : Last(t, moved) /\ cursor' = [cursor EXCEPT ![s][scope] = t]
  BY DEF Read
<1>3. /\ taken \subseteq Tasks /\ moved \subseteq Tasks /\ taken \subseteq moved
      /\ \A t \in taken : Takes(task[t], s)
      /\ \A t \in moved : t > cursor[s][scope]
  BY <1>1
<1> HIDE DEF taken, moved, scope
<1>4. ASSUME moved # {}
      PROVE  /\ CursorsOn
             /\ \A t \in moved : cursor'[s][scope] >= t
  <2>1. PICK m \in moved : /\ \A t \in moved : t <= m
                           /\ cursor' = [cursor EXCEPT ![s][scope] = m]
    BY <1>2, <1>4 DEF Last
  <2>2. cursor'[s][scope] = m
    BY <1>1, <2>1
  <2>3. \A t \in moved : t \in Nat /\ cursor'[s][scope] >= t
    BY <1>3, <2>1, <2>2, DeliveryAssumption DEF Tasks
  <2>4. ASSUME NEW v \in Sessions, NEW c \in Scopes PROVE cursor'[v][c] >= cursor[v][c]
    <3>1. cursor[v][c] \in Nat
      BY <1>1, DeliveryAssumption
    <3>2. CASE v = s /\ c = scope
      BY <1>3, <2>1, <2>2, <2>3, <3>1, <3>2
    <3>3. CASE ~(v = s /\ c = scope)
      BY <1>1, <2>1, <3>1, <3>3
    <3> QED
      BY <3>2, <3>3
  <2> QED
    BY <2>3, <2>4 DEF CursorsOn
<1>5. CursorsOn
  <2>1. ASSUME moved = {} PROVE CursorsOn
    BY <1>1, <1>2, <2>1, DeliveryAssumption DEF CursorsOn
  <2> QED
    BY <1>4, <2>1
<1>6. ASSUME NEW t \in taken PROVE Past(t, s)' >= Past(t, s) + 1
  <2>1. /\ t \in moved /\ t > cursor[s][scope] /\ cursor'[s][scope] >= t /\ t \in Nat
    BY <1>3, <1>4, DeliveryAssumption DEF Tasks
  <2>2. \A c \in Scopes : cursor[s][c] \in Nat /\ cursor'[s][c] \in Nat /\ cursor'[s][c] >= cursor[s][c]
    BY <1>1, <1>5, DeliveryAssumption DEF CursorsOn
  <2>3. "folder" \in Scopes /\ "session" \in Scopes /\ (scope = "folder" \/ scope = "session")
    BY <1>1 DEF Scopes
  <2> QED
    BY <2>1, <2>2, <2>3 DEF Past, At
<1>7. \A t \in Tasks : /\ t \in taken => task'[t] = Taken(task[t], s)
                       /\ t \notin taken => task'[t] = task[t]
  BY <1>2
<1> QED
  BY <1>2, <1>3, <1>5, <1>6, <1>7

LEMMA TakenKeeps ==
  ASSUME NEW r \in TaskRecord, NEW s
  PROVE  Taken(r, s).delivered /\ Taken(r, s).delivery = r.delivery
BY DEF Taken, TaskRecord

LEMMA ReadOnce ==
  ASSUME IInv, IInv', OnceInv, NEW s \in Sessions, Read(s)
  PROVE  OnceInv'
<1>1. PICK taken \in SUBSET Tasks :
        /\ \A t \in taken : Takes(task[t], s) /\ Past(t, s)' >= Past(t, s) + 1
        /\ \A t \in Tasks :
             /\ t \in taken => task'[t] = Taken(task[t], s)
             /\ t \notin taken => task'[t] = task[t]
        /\ CursorsOn /\ Hand(taken, s) /\ UNCHANGED <<to, sent, transports>>
  BY ReadMoves
<1>2. \A t \in Tasks, v \in Sessions :
        /\ handed[t][v] \in Nat /\ handed'[t][v] = handed[t][v] + IF v = s /\ t \in taken THEN 1 ELSE 0
        /\ Past(t, v) \in Nat /\ Past(t, v)' \in Nat /\ Past(t, v)' >= Past(t, v)
  BY <1>1, HandGives, PastOn DEF IInv, DeliveryTypeOK
<1>3. \A t \in taken : Free(task[t]) /\ (Early(task[t]) => Never(t))
  BY <1>1, TakesOnce
<1>4. \A t \in Tasks : task'[t].delivery = task[t].delivery /\ (t \in taken => task'[t].delivered)
  BY <1>1, TakenKeeps DEF IInv, DeliveryTypeOK
<1>5. ASSUME NEW t \in Tasks, NEW v \in Sessions
      PROVE  Counted(task[t], handed[t][v], Past(t, v))'
  <2>1. Counted(task[t], handed[t][v], Past(t, v))
    BY DEF OnceInv, CountsInv
  <2>2. CASE t \notin taken
    BY <1>1, <1>2, <2>1, <2>2 DEF Counted
  <2>3. CASE t \in taken /\ Early(task[t])
    <3>1. handed[t][v] = 0 /\ task'[t].delivered
      BY <1>3, <1>4, <2>3 DEF Never
    <3> QED
      BY <1>2, <3>1 DEF Counted
  <2>4. CASE t \in taken /\ ~Early(task[t])
    <3>1. /\ task[t].delivery = "failed" /\ task'[t].delivery = "failed" /\ task'[t].delivered
          /\ v = s => Past(t, v)' >= Past(t, v) + 1
      BY <1>1, <1>3, <1>4, <2>4 DEF Free
    <3> QED
      BY <1>2, <2>1, <3>1 DEF Counted
  <2> QED
    BY <2>2, <2>3, <2>4
<1>6. CountsInv'
  BY <1>1, <1>4, <1>5 DEF CountsInv, OnceInv, transports
<1>7. RunnerHands'
  <2> SUFFICES ASSUME NEW t \in Tasks, runner'[t].at # "idle"
               PROVE  /\ to' = "codex" /\ Underway(task'[t]) /\ ~task'[t].delivered
                      /\ ~runner'[t].took => Never(t)'
    BY DEF RunnerHands
  <2>1. /\ to = "codex" /\ Underway(task[t]) /\ ~task[t].delivered
        /\ ~runner[t].took => Never(t)
    BY <1>1 DEF OnceInv, RunnerHands, transports
  <2>2. t \notin taken
    BY <1>3, <2>1 DEF Underway, Free, Early
  <2> QED
    BY <1>1, <1>2, <2>1, <2>2 DEF Never, transports
<1>8. PluginHands'
  <2> SUFFICES ASSUME NEW v \in Sessions, plugin'[v].at = "prompt" PROVE Prompts(v)'
    BY DEF PluginHands
  <2>1. PICK t \in Tasks : t = plugin[v].id /\ plugin' = plugin /\ to' = to
    BY <1>1 DEF IInv, CallersInv, PluginInv, transports
  <2>2. to = "opencode" /\ MayPrompt(task[t], handed[t][v], Past(t, v))
    BY <2>1 DEF OnceInv, PluginHands, Prompts
  <2>3. CASE t \notin taken
    <3>1. MayPrompt(task'[t], handed'[t][v], Past(t, v)')
      BY <1>1, <1>2, <2>2, <2>3 DEF MayPrompt
    <3> QED
      BY <2>1, <2>2, <3>1 DEF Prompts, Past
  <2>4. CASE t \in taken
    <3>1. task[t].delivery = "failed" /\ handed[t][v] <= Past(t, v)
      BY <1>3, <2>2, <2>4 DEF MayPrompt, Underway, Free, Early
    <3>2. handed'[t][v] <= Past(t, v)'
      BY <1>1, <1>2, <2>4, <3>1
    <3>3. MayPrompt(task'[t], handed'[t][v], Past(t, v)')
      BY <1>4, <3>1, <3>2 DEF MayPrompt
    <3> QED
      BY <2>1, <2>2, <3>3 DEF Prompts, Past
  <2> QED
    BY <2>3, <2>4
<1>9. TurnHands'
  <2> SUFFICES ASSUME turn' # NoTurn
               PROVE  /\ to' = "claude" /\ ~Free(task'[turn'.id])
                      /\ task'[turn'.id].delivered \/ Underway(task'[turn'.id])
                      /\ turn'.at = "connecting" => handed'[turn'.id][Managed] = 0
    BY DEF TurnHands
  <2>1. PICK t \in Tasks : t = turn.id /\ turn' = turn /\ to' = to
    BY <1>1 DEF IInv, CallersInv, TurnInv, transports
  <2>2. /\ to = "claude" /\ ~Free(task[t])
        /\ task[t].delivered \/ Underway(task[t])
        /\ turn.at = "connecting" => handed[t][Managed] = 0
    BY <2>1 DEF OnceInv, TurnHands
  <2>3. t \notin taken
    BY <1>3, <2>2
  <2>4. task'[t] = task[t] /\ handed'[t][Managed] = handed[t][Managed]
    BY <1>1, <1>2, <2>3, DeliveryAssumption
  <2> QED
    BY <2>1, <2>2, <2>4
<1> QED
  BY <1>6, <1>7, <1>8, <1>9 DEF OnceInv

LEMMA ReadersOnce ==
  ASSUME IInv, IInv', OnceInv, Readers
  PROVE  OnceInv'
<1>1. ASSUME NEW s \in Sessions, Read(s) PROVE OnceInv'
  BY <1>1, ReadOnce
<1>2. ASSUME NEW s \in Sessions, NEW named \in BOOLEAN, EndTurn(s, named) PROVE OnceInv'
  <2>1. PICK t \in Sent :
          /\ task[t].delivered /\ ~Broken(task[t])
          /\ Write(t, Completed(task[t], s))
          /\ UNCHANGED <<to, sent, cursor, preview, transports, handed, faults>>
    BY <1>2 DEF EndTurn
  <2>2. t \in Tasks /\ task[t] \in TaskRecord
    BY DeliveryAssumption DEF Sent, Tasks, IInv, DeliveryTypeOK
  <2>3. Outside(task[t], Completed(task[t], s))
    BY <2>1, <2>2, CompletedOutside
  <2> QED
    BY <2>1, <2>2, <2>3, WriteOutside DEF transports
<1>3. ASSUME NEW t \in Tasks, NEW s \in Sessions, ReportResult(t, s) PROVE OnceInv'
  <2>1. /\ t \in Sent /\ task[t].delivered /\ ~Broken(task[t]) /\ task[t] \in TaskRecord
        /\ Write(t, Completed(task[t], s))
        /\ UNCHANGED <<to, sent, cursor, preview, transports, handed, faults>>
    BY <1>3 DEF ReportResult, ResultFits, IInv, DeliveryTypeOK
  <2>2. Outside(task[t], Completed(task[t], s))
    BY <2>1, CompletedOutside
  <2> QED
    BY <2>1, <2>2, WriteOutside DEF transports
<1>4. ASSUME NEW s \in Sessions, NEW scope \in Scopes, Look(s, scope) PROVE OnceInv'
  BY <1>4, SameOnce DEF Look, transports
<1> QED
  BY <1>1, <1>2, <1>3, <1>4 DEF Readers

----------------------------------------------------------------------------
(* Codex: one runner for each task *)

LEMMA RunnerOnce ==
  ASSUME IInv, IInv', OnceInv, to = "codex", NEW t \in Tasks, NEW r, NEW state,
         Write(t, r), Run(t, state), Onward(task[t], r) \/ Never(t),
         state.at # "idle" =>
           Underway(r) /\ ~r.delivered /\ (~state.took => Never(t)),
         t \in Sent \/ task[t].delivery # "none" \/ r.delivery = task[t].delivery,
         UNCHANGED <<to, sent, handed, cursor, plugin, turn, waiting>>
  PROVE  OnceInv'
<1>1. /\ UnsentStay /\ task'[t] = r
      /\ \A u \in Tasks : u # t => task'[u] = task[u]
  BY WriteStays
<1>2. /\ runner'[t] = state
      /\ \A u \in Tasks : u # t => runner'[u] = runner[u]
  BY DEF Run, IInv, DeliveryTypeOK
<1>3. CursorsOn
  BY DeliveryAssumption DEF CursorsOn, IInv, DeliveryTypeOK
<1>4. \A u \in Tasks : Onward(task[u], task'[u]) \/ Never(u)
  BY <1>1 DEF Onward
<1>5. CountsInv'
  BY <1>1, <1>3, <1>4, CountsKept
<1>6. RunnerHands'
  <2> SUFFICES ASSUME NEW u \in Tasks, runner'[u].at # "idle"
               PROVE  /\ to' = "codex" /\ Underway(task'[u]) /\ ~task'[u].delivered
                      /\ ~runner'[u].took => Never(u)'
    BY DEF RunnerHands
  <2>1. CASE u = t
    BY <1>1, <1>2, <2>1 DEF Never
  <2>2. CASE u # t
    BY <1>1, <1>2, <2>2 DEF OnceInv, RunnerHands, Never
  <2> QED
    BY <2>1, <2>2
<1> QED
  BY <1>5, <1>6, OtherPlugins, OtherTurn DEF OnceInv

\* A runner that has not spawned knows that nobody has the task.
LEMMA RunnerKnows ==
  ASSUME IInv, OnceInv, NEW t \in Tasks, runner[t].at # "idle"
  PROVE  /\ to = "codex" /\ Underway(task[t]) /\ ~task[t].delivered
         /\ task[t] \in TaskRecord /\ task[t].delivery # "none"
         /\ runner[t].at \in {"claimed", "binding", "bound"} => Never(t)
<1>1. /\ to = "codex" /\ Underway(task[t]) /\ ~task[t].delivered
      /\ ~runner[t].took => Never(t)
  BY DEF OnceInv, RunnerHands
<1>2. runner[t].took => runner[t].at = "spawned"
  BY DEF IInv, CallersInv, RunnerInv
<1> QED
  BY <1>1, <1>2 DEF Underway, IInv, DeliveryTypeOK

\* What the reports of a transport do to the state of a delivery.
LEMMA ReportSays ==
  ASSUME NEW r \in TaskRecord, NEW thread,
         NEW st \in {"sending", "queued", "deferred", "uncertain", "failed"}
  PROVE  LET u == SetDelivery(r, st, thread)
         IN  \/ u = r
             \/ u.delivery = st /\ u.delivered = (r.delivered \/ st = "queued")
BY DEF SetDelivery, TaskRecord

LEMMA SpawnOnce ==
  ASSUME IInv, IInv', OnceInv, NEW t \in Tasks, NEW took \in BOOLEAN, CodexSpawn(t, took)
  PROVE  OnceInv'
<1> DEFINE s == runner[t].session
           r == SetDelivery(task[t], "sending", s)
           ids == IF took THEN {t} ELSE {}
           state == [at |-> "spawned", session |-> s, took |-> took]
<1>1. /\ runner[t].at = "bound" /\ Write(t, r) /\ Run(t, state) /\ Hand(ids, s)
      /\ UNCHANGED <<to, sent, cursor, preview, plugin, watched, turn, waiting, faults>>
  BY DEF CodexSpawn, Running, Report
<1>2. /\ to = "codex" /\ Underway(task[t]) /\ ~task[t].delivered /\ Never(t)
      /\ task[t] \in TaskRecord /\ task[t].delivery # "none" /\ s \in Sessions
  BY <1>1, RunnerKnows DEF IInv, CallersInv, RunnerInv
<1>3. Underway(r) /\ ~r.delivered
  <2>1. r = task[t] \/ (r.delivery = "sending" /\ r.delivered = task[t].delivered)
    BY <1>2 DEF SetDelivery, TaskRecord
  <2> QED
    BY <1>2, <2>1 DEF Underway
<1> HIDE DEF s, r
<1>4. /\ UnsentStay /\ task'[t] = r
      /\ \A u \in Tasks : u # t => task'[u] = task[u]
  BY <1>1, <1>2, WriteStays
<1>5. /\ runner'[t].took = took
      /\ \A u \in Tasks : u # t => runner'[u] = runner[u]
  BY <1>1 DEF Run, IInv, DeliveryTypeOK
<1>6. \A u \in Tasks, v \in Sessions :
        handed[u][v] \in Nat /\ handed'[u][v] = handed[u][v] + IF v = s /\ u \in ids THEN 1 ELSE 0
  BY <1>1, <1>2, HandGives DEF IInv, DeliveryTypeOK
<1>7. CountsInv'
  <2>1. ASSUME NEW u \in Tasks, NEW v \in Sessions
        PROVE  Counted(task[u], handed[u][v], Past(u, v))'
    <3>1. Past(u, v)' = Past(u, v) /\ Counted(task[u], handed[u][v], Past(u, v))
      BY <1>1 DEF Past, OnceInv, CountsInv
    <3>2. CASE u = t
      <4>1. handed'[u][v] \in {0, 1} /\ task'[u].delivery # "failed" /\ Underway(task'[u])
        BY <1>2, <1>3, <1>4, <1>6, <3>2 DEF Never, Underway
      <4> QED
        BY <4>1 DEF Counted
    <3>3. CASE u # t
      BY <1>1, <1>4, <1>6, <3>1, <3>3 DEF Counted
    <3> QED
      BY <3>2, <3>3
  <2> QED
    BY <1>1, <1>4, <2>1 DEF CountsInv, OnceInv, UnsentStay
<1>8. RunnerHands'
  <2> SUFFICES ASSUME NEW u \in Tasks, runner'[u].at # "idle"
               PROVE  /\ to' = "codex" /\ Underway(task'[u]) /\ ~task'[u].delivered
                      /\ ~runner'[u].took => Never(u)'
    BY DEF RunnerHands
  <2>1. CASE u = t
    BY <1>1, <1>2, <1>3, <1>4, <1>5, <1>6, <2>1 DEF Never
  <2>2. CASE u # t
    BY <1>1, <1>4, <1>5, <1>6, <2>2 DEF OnceInv, RunnerHands, Never
  <2> QED
    BY <2>1, <2>2
<1> QED
  BY <1>1, <1>2, <1>7, <1>8, OtherPlugins, OtherTurn DEF OnceInv

LEMMA CodexOnce ==
  ASSUME IInv, IInv', OnceInv, NEW t \in Tasks, Codex(t)
  PROVE  OnceInv'
<1>1. task[t] \in TaskRecord /\ task \in [Tasks -> TaskRecord]
  BY DEF IInv, DeliveryTypeOK
<1>2. CASE CodexClaim(t)
  <2> DEFINE state == [NoRunner EXCEPT !.at = "claimed"]
  <2>1. /\ to = "codex" /\ t \in Sent /\ CodexClaimable(task[t])
        /\ Write(t, CodexClaimed(task[t])) /\ Run(t, state)
        /\ UNCHANGED <<to, sent, handed, cursor, plugin, turn, waiting>>
    BY <1>2 DEF CodexClaim, Running
  <2>2. Never(t) /\ ~task[t].delivered
    BY <2>1, FreeNever DEF CodexClaimable, Unclaimed, Early
  <2>3. Underway(CodexClaimed(task[t])) /\ ~CodexClaimed(task[t]).delivered
    BY <1>1, <2>2 DEF CodexClaimed, Underway, TaskRecord
  <2> QED
    BY <2>1, <2>2, <2>3, RunnerOnce
<1>3. CASE CodexFail(t)
  <2>1. /\ runner[t].at \in {"claimed", "bound"}
        /\ Write(t, SetDelivery(task[t], "failed", NoSession)) /\ Run(t, NoRunner)
        /\ UNCHANGED <<to, sent, handed, cursor, plugin, turn, waiting>>
    BY <1>3 DEF CodexFail, Running, Report
  <2>2. to = "codex" /\ Never(t) /\ task[t].delivery # "none"
    BY <2>1, RunnerKnows
  <2> QED
    BY <2>1, <2>2, RunnerOnce DEF NoRunner
<1>4. CASE RunnerCrash(t)
  <2>1. /\ runner[t].at # "idle" /\ Run(t, NoRunner) /\ Write(t, task[t])
        /\ UNCHANGED <<to, sent, handed, cursor, plugin, turn, waiting>>
    BY <1>1, <1>4 DEF RunnerCrash, Write
  <2>2. to = "codex" /\ Onward(task[t], task[t])
    BY <2>1, RunnerKnows DEF Onward
  <2> QED
    BY <2>1, <2>2, RunnerOnce DEF NoRunner
<1>5. ASSUME NEW s \in Sessions, CodexBind(t, s) PROVE OnceInv'
  <2> DEFINE r == Bound(task[t], s)
             state == [NoRunner EXCEPT !.at = "binding", !.session = s]
  <2>1. /\ runner[t].at = "claimed" /\ Write(t, r) /\ Run(t, state)
        /\ UNCHANGED <<to, sent, handed, cursor, plugin, turn, waiting>>
    BY <1>5 DEF CodexBind, Running
  <2>2. /\ to = "codex" /\ Never(t) /\ task[t].delivery # "none" /\ Underway(task[t])
        /\ ~task[t].delivered
    BY <2>1, RunnerKnows
  <2>3. Unmoved(task[t], r)
    BY <1>1 DEF Bound, TaskRecord, Unmoved
  <2> HIDE DEF r
  <2>4. Underway(r) /\ ~r.delivered
    BY <2>2, <2>3 DEF Unmoved, Underway
  <2> QED
    BY <2>1, <2>2, <2>4, RunnerOnce
<1>9. CASE CodexRecord(t)
  <2> DEFINE r == SetDelivery(task[t], "sending", runner[t].session)
             state == [runner[t] EXCEPT !.at = "bound"]
  <2>1. /\ runner[t].at = "binding" /\ Write(t, r) /\ Run(t, state)
        /\ UNCHANGED <<to, sent, handed, cursor, plugin, turn, waiting>>
    BY <1>9 DEF CodexRecord, Running, Report
  <2>2. /\ to = "codex" /\ Never(t) /\ task[t].delivery # "none" /\ Underway(task[t])
        /\ ~task[t].delivered
    BY <2>1, RunnerKnows
  <2>3. r = task[t] \/ (r.delivery = "sending" /\ r.delivered = task[t].delivered)
    BY <1>1 DEF SetDelivery, TaskRecord
  <2> HIDE DEF r
  <2>4. Underway(r) /\ ~r.delivered
    BY <2>2, <2>3 DEF Underway
  <2> QED
    BY <2>1, <2>2, <2>4, RunnerOnce
<1>6. ASSUME NEW s \in Sessions, CodexDefer(t, s) PROVE OnceInv'
  <2>1. /\ runner[t].at = "claimed"
        /\ Write(t, SetDelivery(task[t], "deferred", s)) /\ Run(t, NoRunner)
        /\ UNCHANGED <<to, sent, handed, cursor, plugin, turn, waiting>>
    BY <1>6 DEF CodexDefer, Running, Report
  <2>2. to = "codex" /\ Never(t) /\ task[t].delivery # "none"
    BY <2>1, RunnerKnows
  <2> QED
    BY <2>1, <2>2, RunnerOnce DEF NoRunner
<1>7. ASSUME NEW b \in BOOLEAN, CodexSpawn(t, b) PROVE OnceInv'
  BY <1>7, SpawnOnce
<1>8. ASSUME NEW b \in BOOLEAN, CodexReturn(t, b) PROVE OnceInv'
  <2> DEFINE st == IF b THEN "queued" ELSE "uncertain"
             s == IF b THEN runner[t].session ELSE NoSession
             r == SetDelivery(task[t], st, s)
  <2>1. /\ runner[t].at = "spawned" /\ Write(t, r) /\ Run(t, NoRunner)
        /\ UNCHANGED <<to, sent, handed, cursor, plugin, turn, waiting>>
    BY <1>8 DEF CodexReturn, Running, Report
  <2>2. /\ to = "codex" /\ task[t].delivery # "none" /\ Underway(task[t])
        /\ ~task[t].delivered
    BY <2>1, RunnerKnows
  <2>3. r = task[t] \/ (r.delivery = st /\ r.delivered = (st = "queued"))
    BY <1>1, <2>2, ReportSays
  <2> HIDE DEF r
  <2>4. Onward(task[t], r)
    BY <2>2, <2>3 DEF Onward, Underway
  <2> QED
    BY <2>1, <2>2, <2>4, RunnerOnce DEF NoRunner
<1> QED
  BY <1>2, <1>3, <1>4, <1>5, <1>6, <1>7, <1>8, <1>9 DEF Codex

----------------------------------------------------------------------------
(* OpenCode: one poller in each session *)

\* A step of the plugins that hands nothing over.
LEMMA PluginOnce ==
  ASSUME IInv, IInv', OnceInv, to # "codex", to # "claude",
         UNCHANGED <<to, handed, runner, turn>>, CursorsOn, UnsentStay,
         \A t \in Tasks : Onward(task[t], task'[t]) \/ Never(t),
         \A s \in Sessions : plugin'[s].at = "prompt" => StillPrompts(s) \/ Prompts(s)'
  PROVE  OnceInv'
<1>1. CountsInv'
  BY CountsKept
<1>2. PluginHands'
  <2> SUFFICES ASSUME NEW s \in Sessions, plugin'[s].at = "prompt" PROVE Prompts(s)'
    BY DEF PluginHands
  <2>1. ASSUME StillPrompts(s) PROVE Prompts(s)'
    <3>1. plugin[s].at = "prompt"
      BY <2>1 DEF StillPrompts
    <3> QED
      BY <2>1, <3>1, PromptsOn
  <2> QED
    BY <2>1
<1> QED
  BY <1>1, <1>2, OtherRunners, OtherTurn DEF OnceInv

LEMMA PollClaimOnce ==
  ASSUME IInv, IInv', OnceInv, NEW s \in Sessions, NEW arrives \in BOOLEAN,
         PollClaim(s, arrives)
  PROVE  OnceInv'
<1>0. PICK t \in Tasks : t = plugin[s].id
  BY DEF PollClaim, Polls, IInv, CallersInv, PluginInv
<1> DEFINE r == SessionClaimed(task[t], s)
           state == IF arrives THEN [Ready EXCEPT !.at = "prompt", !.id = t] ELSE Ready
<1>1. /\ to = "opencode" /\ t > cursor[s]["folder"]
      /\ OpenCodeClaimable(task[t], s) /\ Write(t, r)
      /\ cursor' = [cursor EXCEPT ![s]["folder"] = t] /\ Phase(s, state)
      /\ UNCHANGED <<to, sent, runner, turn, waiting, handed>>
  BY <1>0 DEF PollClaim, Claims, Polls
<1>10. t \in Sent
  <2>1. ~(t > sent)
    BY <1>1 DEF OpenCodeClaimable, Unclaimed, CanQueue, IInv, UnsentInv, Unsent
  <2> QED
    BY <2>1, DeliveryAssumption DEF Sent, Tasks, IInv, DeliveryTypeOK
<1>2. Never(t) /\ ~task[t].delivered /\ Early(task[t])
  BY <1>1, FreeNever DEF OpenCodeClaimable, Unclaimed, Early
<1>3. Underway(r) /\ ~r.delivered
  BY <1>2 DEF SessionClaimed, Underway, IInv, DeliveryTypeOK, TaskRecord
<1> HIDE DEF r
<1>4. state.at = "prompt" => state.id = t
  BY DEF Ready
<1> HIDE DEF state
<1>5. /\ UnsentStay /\ task'[t] = r
      /\ \A u \in Tasks : u # t => task'[u] = task[u]
  BY <1>1, <1>10, WriteStays
<1>6. CursorsOn
  <2> SUFFICES ASSUME NEW v \in Sessions, NEW c \in Scopes
               PROVE  cursor'[v][c] >= cursor[v][c]
    BY DEF CursorsOn
  <2>1. cursor \in [Sessions -> [Scopes -> 0..MaxTasks]] /\ cursor[v][c] \in Nat /\ t \in Nat
    BY DeliveryAssumption DEF IInv, DeliveryTypeOK, Tasks
  <2> QED
    BY <1>1, <2>1
<1>7. \A u \in Tasks : Onward(task[u], task'[u]) \/ Never(u)
  BY <1>2, <1>5 DEF Onward
<1>8. plugin'[s] = state /\ \A v \in Sessions : v # s => plugin'[v] = plugin[v]
  BY <1>1 DEF Phase, IInv, DeliveryTypeOK
<1>9. ASSUME NEW v \in Sessions, plugin'[v].at = "prompt"
      PROVE  StillPrompts(v) \/ Prompts(v)'
  <2>1. CASE v = s
    <3>1. plugin'[v].id = t /\ to' = "opencode"
      BY <1>1, <1>8, <1>9, <1>4, <2>1
    <3>2. MayPrompt(task'[t], handed'[t][v], Past(t, v)')
      BY <1>1, <1>2, <1>3, <1>5 DEF MayPrompt, Never
    <3> QED
      BY <3>1, <3>2 DEF Prompts, Past
  <2>2. CASE v # s
    <3>1. plugin'[v] = plugin[v] /\ plugin[v].at = "prompt"
      BY <1>8, <1>9, <2>2
    <3>2. PICK u \in Tasks : u = plugin[v].id
      BY <3>1 DEF IInv, CallersInv, PluginInv
    <3>3. MayPrompt(task[u], handed[u][v], Past(u, v))
      BY <3>1, <3>2 DEF OnceInv, PluginHands, Prompts
    <3>4. u # t
      BY <1>2, <3>3 DEF MayPrompt, Early, Underway
    <3> QED
      BY <1>1, <1>5, <3>1, <3>2, <3>4 DEF StillPrompts, GoesOn
  <2> QED
    BY <2>1, <2>2
<1> QED
  BY <1>1, <1>5, <1>6, <1>7, <1>9, PluginOnce

LEMMA PromptOnce ==
  ASSUME IInv, IInv', OnceInv, NEW s \in Sessions,
         NEW outcome \in {"queued", "failed", "uncertain"}, NEW took \in BOOLEAN,
         Prompt(s, outcome, took)
  PROVE  OnceInv'
<1>1. /\ plugin[s].at = "prompt" /\ to = "opencode"
      /\ Phase(s, [at |-> "settle", id |-> plugin[s].id, outcome |-> outcome])
      /\ Hand(IF took THEN {plugin[s].id} ELSE {}, s)
      /\ UNCHANGED <<to, sent, task, cursor, runner, turn, waiting>>
  BY DEF Prompt, Polls
<1>2. PICK t \in Tasks : t = plugin[s].id
  BY <1>1 DEF IInv, CallersInv, PluginInv
<1>3. MayPrompt(task[t], handed[t][s], Past(t, s))
  BY <1>1, <1>2 DEF OnceInv, PluginHands, Prompts
<1>4. \A u \in Tasks, v \in Sessions :
        /\ handed[u][v] \in Nat
        /\ handed'[u][v] = handed[u][v] + IF v = s /\ took /\ u = t THEN 1 ELSE 0
  BY <1>1, <1>2, HandGives DEF IInv, DeliveryTypeOK
<1>5. plugin'[s].at = "settle" /\ \A v \in Sessions : v # s => plugin'[v] = plugin[v]
  BY <1>1 DEF Phase, IInv, DeliveryTypeOK
<1>6. CursorsOn
  BY <1>1, DeliveryAssumption DEF CursorsOn, IInv, DeliveryTypeOK
<1>7. CountsInv'
  <2>1. ASSUME NEW u \in Tasks, NEW v \in Sessions
        PROVE  Counted(task[u], handed[u][v], Past(u, v))'
    <3>1. /\ Past(u, v)' = Past(u, v) /\ Counted(task[u], handed[u][v], Past(u, v))
          /\ Past(u, v) \in Nat
      BY <1>1, <1>6, PastOn DEF Past, OnceInv, CountsInv
    <3>2. CASE v = s /\ took /\ u = t
      BY <1>1, <1>3, <1>4, <3>1, <3>2 DEF Counted, MayPrompt, Underway
    <3>3. CASE ~(v = s /\ took /\ u = t)
      BY <1>1, <1>4, <3>1, <3>3 DEF Counted
    <3> QED
      BY <3>2, <3>3
  <2> QED
    BY <1>1, <2>1 DEF CountsInv, OnceInv
<1>8. PluginHands'
  <2> SUFFICES ASSUME NEW v \in Sessions, plugin'[v].at = "prompt" PROVE Prompts(v)'
    BY DEF PluginHands
  <2>1. v # s /\ plugin'[v] = plugin[v] /\ plugin[v].at = "prompt"
    BY <1>5
  <2>2. plugin[v].id \in Tasks
    BY <2>1 DEF IInv, CallersInv, PluginInv
  <2>3. StillPrompts(v)
    BY <1>1, <1>4, <2>1, <2>2 DEF StillPrompts, GoesOn
  <2> QED
    BY <1>1, <1>6, <2>1, <2>3, PromptsOn
<1> QED
  BY <1>1, <1>7, <1>8, OtherRunners, OtherTurn DEF OnceInv

\* A report of the plugin's about a task in delivery.
LEMMA SettlesOnward ==
  ASSUME NEW r \in TaskRecord, NEW s, NEW st \in {"queued", "failed", "uncertain"},
         to # "codex", Settles(r, s, st)
  PROVE  /\ Onward(r, Settled(r, st)) /\ r.delivery # "none"
         /\ st = "failed" => GoesOn(r, Settled(r, st))
<1>1. /\ r.delivery \in {st, "sending", "done", "uncertain", "queued"} /\ r.delivery # "none"
      /\ r.delivery = "failed" => st = "failed"
  BY DEF Settles
<1>2. \/ Settled(r, st) = r /\ r.delivery \in {st, "done"}
      \/ /\ Settled(r, st).delivery = st
         /\ Settled(r, st).delivered = (r.delivered \/ st = "queued")
  BY DEF Settled, TaskRecord
<1> QED
  BY <1>1, <1>2 DEF Onward, GoesOn, Underway, Early

LEMMA OpenCodeOnce ==
  ASSUME IInv, IInv', OnceInv, NEW s \in Sessions, OpenCode(s)
  PROVE  OnceInv'
<1>1. cursor' = cursor => CursorsOn
  <2>1. \A v \in Sessions, c \in Scopes : cursor[v][c] \in Nat
    BY DeliveryAssumption DEF IInv, DeliveryTypeOK
  <2> QED
    BY <2>1 DEF CursorsOn
<1>2. ASSUME NEW alone \in BOOLEAN, NEW b \in BOOLEAN, Settle(s, alone, b)
      PROVE  OnceInv'
  <2> DEFINE st == plugin[s].outcome
  <2>1. /\ plugin[s].at = "settle" /\ to = "opencode"
        /\ Settles(task[plugin[s].id], s, st)
        /\ Write(plugin[s].id, Settled(task[plugin[s].id], st))
        /\ Phase(s, IF b THEN Ready ELSE plugin[s])
        /\ UNCHANGED <<to, sent, handed, cursor, runner, turn, waiting>>
    BY <1>2 DEF Settle, Polls
  <2>2. PICK t \in Tasks : t = plugin[s].id
    BY <2>1 DEF IInv, CallersInv, PluginInv
  <2>3. /\ task[t].session = s /\ st \in {"queued", "failed", "uncertain"}
        /\ task[t] \in TaskRecord
    BY <2>1, <2>2 DEF IInv, CallersInv, PluginInv, DeliveryTypeOK
  <2> HIDE DEF st
  <2>4. Onward(task[t], Settled(task[t], st)) /\ task[t].delivery # "none"
    BY <2>1, <2>2, <2>3, SettlesOnward
  <2>5. /\ UnsentStay /\ task'[t] = Settled(task[t], st)
        /\ \A u \in Tasks : u # t => task'[u] = task[u]
    BY <2>1, <2>2, <2>4, WriteStays
  <2>6. \A u \in Tasks : Onward(task[u], task'[u])
    BY <2>4, <2>5 DEF Onward
  <2>7. ASSUME NEW v \in Sessions, plugin'[v].at = "prompt" PROVE StillPrompts(v)
    <3>1. v # s /\ plugin'[v] = plugin[v] /\ plugin[v].at = "prompt"
      BY <2>1, <2>7 DEF Phase, Ready, IInv, DeliveryTypeOK
    <3>2. plugin[v].id \in Tasks /\ task[plugin[v].id].session = v
      BY <3>1 DEF IInv, CallersInv, PluginInv
    <3> QED
      BY <2>1, <2>3, <2>5, <3>1, <3>2 DEF StillPrompts, GoesOn
  <2> QED
    BY <1>1, <2>1, <2>5, <2>6, <2>7, PluginOnce
<1>3. ASSUME NEW b \in BOOLEAN, PollClaim(s, b) PROVE OnceInv'
  BY <1>3, PollClaimOnce
<1>4. ASSUME NEW outcome \in {"queued", "failed", "uncertain"}, NEW took \in BOOLEAN,
             Prompt(s, outcome, took)
      PROVE  OnceInv'
  BY <1>4, PromptOnce
<1>5. ASSUME NEW acked \in BOOLEAN, ExecutionFails(s, acked) PROVE OnceInv'
  <2>1. PICK t \in Tasks : t = watched[s] /\ task[t] \in TaskRecord
    BY <1>5 DEF ExecutionFails, IInv, DeliveryTypeOK
  <2>2. /\ to = "opencode" /\ Settles(task[t], s, "failed")
        /\ Write(t, Settled(task[t], "failed"))
        /\ UNCHANGED <<to, sent, handed, cursor, runner, plugin, turn, waiting>>
    BY <1>5, <2>1 DEF ExecutionFails
  <2>3. /\ Onward(task[t], Settled(task[t], "failed")) /\ task[t].delivery # "none"
        /\ GoesOn(task[t], Settled(task[t], "failed"))
    BY <2>1, <2>2, SettlesOnward
  <2>4. /\ UnsentStay /\ task'[t] = Settled(task[t], "failed")
        /\ \A u \in Tasks : u # t => task'[u] = task[u]
    BY <2>2, <2>3, WriteStays
  <2>5. \A u \in Tasks : Onward(task[u], task'[u]) /\ GoesOn(task[u], task'[u])
    BY <2>3, <2>4 DEF Onward, GoesOn
  <2>6. ASSUME NEW v \in Sessions, plugin'[v].at = "prompt" PROVE StillPrompts(v)
    <3>1. plugin[v].id \in Tasks
      BY <2>2, <2>6 DEF IInv, CallersInv, PluginInv
    <3> QED
      BY <2>2, <2>5, <3>1 DEF StillPrompts
  <2> QED
    BY <1>1, <2>2, <2>4, <2>5, <2>6, PluginOnce
<1>6. CASE GoesIdle(s)
  BY <1>6, SameOnce DEF GoesIdle
<1>7. ASSUME NEW state, state.at # "prompt", Phase(s, state),
             UNCHANGED <<to, sent, task, handed, cursor, runner, turn, waiting>>
      PROVE  OnceInv'
  <2>1. CountsInv' /\ RunnerHands' /\ TurnHands'
    <3>1. CountsInv'
      BY <1>7 DEF OnceInv, CountsInv, Past, Counted
    <3>2. RunnerHands' /\ TurnHands'
      BY <1>7 DEF OnceInv, RunnerHands, Never, TurnHands
    <3> QED
      BY <3>1, <3>2
  <2>2. ASSUME NEW v \in Sessions, plugin'[v].at = "prompt" PROVE Prompts(v)'
    <3>1. plugin'[v] = plugin[v]
      BY <1>7, <2>2 DEF Phase, IInv, DeliveryTypeOK
    <3> QED
      BY <1>7, <2>2, <3>1 DEF OnceInv, PluginHands, Prompts, Past
  <2> QED
    BY <2>1, <2>2 DEF OnceInv, PluginHands
<1>8. ASSUME NEW alone \in BOOLEAN, NEW t \in Tasks, Poll(s, t, alone) PROVE OnceInv'
  <2>1. [Ready EXCEPT !.at = "listed", !.id = t].at # "prompt"
    BY DEF Ready
  <2> QED
    BY <1>7, <1>8, <2>1 DEF Poll
<1>9. CASE PollRefused(s) \/ PluginCrash(s)
  <2>1. Ready.at # "prompt"
    BY DEF Ready
  <2> QED
    BY <1>7, <1>9, <2>1 DEF PollRefused, PluginCrash
<1> QED
  BY <1>2, <1>3, <1>4, <1>5, <1>6, <1>8, <1>9 DEF OpenCode

----------------------------------------------------------------------------
(* Claude: the turn of the managed connection *)

\* A step of the connection that writes one record and hands nothing over.
LEMMA TurnOnce ==
  ASSUME IInv, IInv', OnceInv, to = "claude", NEW t \in Tasks, NEW r, Write(t, r),
         Onward(task[t], r) \/ Never(t),
         t \in Sent \/ task[t].delivery # "none" \/ r.delivery = task[t].delivery,
         UNCHANGED <<to, sent, handed, cursor, runner, plugin>>, waiting' \subseteq waiting,
         TurnHands'
  PROVE  OnceInv'
<1>1. /\ UnsentStay /\ task'[t] = r
      /\ \A u \in Tasks : u # t => task'[u] = task[u]
  BY WriteStays
<1>2. CursorsOn
  <2>1. \A v \in Sessions, c \in Scopes : cursor[v][c] \in Nat
    BY DeliveryAssumption DEF IInv, DeliveryTypeOK
  <2> QED
    BY <2>1 DEF CursorsOn
<1>3. \A u \in Tasks : Onward(task[u], task'[u]) \/ Never(u)
  BY <1>1 DEF Onward
<1>4. CountsInv'
  BY <1>1, <1>2, <1>3, CountsKept
<1> QED
  BY <1>4, OtherRunners, OtherPlugins DEF OnceInv

\* What the turn knows of its task.
LEMMA TurnKnows ==
  ASSUME IInv, OnceInv, turn # NoTurn
  PROVE  /\ to = "claude" /\ turn.id \in Tasks /\ task[turn.id] \in TaskRecord
         /\ ~Free(task[turn.id])
         /\ task[turn.id].delivered \/ Underway(task[turn.id])
         /\ turn.at = "connecting" => handed[turn.id][Managed] = 0
BY DEF OnceInv, TurnHands, IInv, CallersInv, TurnInv, DeliveryTypeOK

\* A turn that begins works on a task that nobody was given.
LEMMA BeginOnce ==
  ASSUME IInv, IInv', OnceInv, to = "claude", NEW t \in Tasks, NEW timed \in BOOLEAN,
         ProviderClaimable(task[t]), Begin(t, timed), waiting' \subseteq waiting,
         UNCHANGED <<to, sent, handed, cursor, runner, plugin>>
  PROVE  OnceInv'
<1> DEFINE r == SessionClaimed(task[t], Managed)
<1>1. /\ Write(t, r) /\ turn'.id = t /\ turn'.at = "connecting"
      /\ task[t].delivery = "deferred" /\ ~task[t].delivered
  BY DEF Begin, NoTurn, ProviderClaimable, Unclaimed
<1>2. Never(t)
  BY <1>1, FreeNever DEF Early
<1>3. Underway(r) /\ ~Free(r)
  BY DEF SessionClaimed, Underway, Free, Early, IInv, DeliveryTypeOK, TaskRecord
<1> HIDE DEF r
<1>4. /\ UnsentStay /\ task'[t] = r
      /\ \A u \in Tasks : u # t => task'[u] = task[u]
  BY <1>1, WriteStays
<1>5. TurnHands'
  BY <1>1, <1>2, <1>3, <1>4, DeliveryAssumption DEF TurnHands, Never
<1> QED
  BY <1>1, <1>2, <1>5, TurnOnce

LEMMA DispatchOnce ==
  ASSUME IInv, IInv', OnceInv, NEW took \in BOOLEAN, Dispatch(took)
  PROVE  OnceInv'
<1>1. /\ turn.at = "connecting" /\ turn' = [turn EXCEPT !.at = "prompted", !.took = took]
      /\ Hand(IF took THEN {turn.id} ELSE {}, Managed)
      /\ UNCHANGED <<to, sent, task, cursor, runner, plugin, waiting>>
  BY DEF Dispatch, Turn
<1>2. turn # NoTurn /\ turn'.id = turn.id /\ turn'.at = "prompted"
  BY <1>1, TurnKind DEF NoTurn, TurnShape, IInv, CallersInv
<1>3. PICK t \in Tasks : t = turn.id
  BY <1>2, TurnKnows
<1>4. /\ to = "claude" /\ ~Free(task[t]) /\ handed[t][Managed] = 0
      /\ task[t].delivered \/ Underway(task[t])
  BY <1>1, <1>2, <1>3, TurnKnows
<1>5. \A u \in Tasks, v \in Sessions :
        /\ handed[u][v] \in Nat
        /\ handed'[u][v] = handed[u][v] + IF v = Managed /\ took /\ u = t THEN 1 ELSE 0
  <2> DEFINE ids == IF took THEN {t} ELSE {}
  <2>1. Hand(ids, Managed) /\ Managed \in Sessions /\ DeliveryTypeOK
    BY <1>1, <1>3, DeliveryAssumption DEF IInv
  <2>2. \A u : u \in ids <=> took /\ u = t
    OBVIOUS
  <2> HIDE DEF ids
  <2>3. \A u \in Tasks, v \in Sessions :
          handed'[u][v] = handed[u][v] + IF v = Managed /\ u \in ids THEN 1 ELSE 0
    BY <2>1, HandGives
  <2> QED
    BY <2>1, <2>2, <2>3 DEF DeliveryTypeOK
<1>6. CountsInv'
  <2>1. ASSUME NEW u \in Tasks, NEW v \in Sessions
        PROVE  Counted(task[u], handed[u][v], Past(u, v))'
    <3>1. Past(u, v)' = Past(u, v) /\ Counted(task[u], handed[u][v], Past(u, v))
      BY <1>1 DEF Past, OnceInv, CountsInv
    <3>2. CASE v = Managed /\ took /\ u = t
      BY <1>1, <1>4, <1>5, <3>1, <3>2 DEF Counted, Free
    <3>3. CASE ~(v = Managed /\ took /\ u = t)
      BY <1>1, <1>5, <3>1, <3>3 DEF Counted
    <3> QED
      BY <3>2, <3>3
  <2> QED
    BY <1>1, <2>1 DEF CountsInv, OnceInv
<1>7. TurnHands'
  BY <1>1, <1>2, <1>3, <1>4 DEF TurnHands
<1> QED
  BY <1>1, <1>4, <1>6, <1>7, OtherRunners, OtherPlugins DEF OnceInv

\* The acceptance, or the end of a turn whose acceptance is refused.
LEMMA AcceptOnce ==
  ASSUME IInv, IInv', OnceInv, Accept
  PROVE  OnceInv'
<1>1. turn # NoTurn
  BY DEF Accept, Turn, NoTurn
<1>2. PICK t \in Tasks : t = turn.id
  BY <1>1, TurnKnows
<1> DEFINE q == SetDelivery(task[t], "queued", Managed)
           r == IF Queued(q) THEN q ELSE Unconfirmed(q)
<1>3. /\ Write(t, r) /\ turn' = IF Queued(q) THEN [turn EXCEPT !.at = "accepted", !.timed = FALSE]
                                              ELSE NoTurn
      /\ UNCHANGED <<to, sent, cursor, runner, plugin, waiting, handed>>
  BY <1>2 DEF Accept
<1>4. /\ to = "claude" /\ ~Free(task[t]) /\ task[t] \in TaskRecord
      /\ task[t].delivered \/ Underway(task[t])
      /\ TurnShape(turn)
  BY <1>1, <1>2, TurnKnows, TurnKind DEF IInv, CallersInv
<1>5. q \in TaskRecord
  <2>1. task[t].session = Managed /\ Managed \in Sessions
    BY <1>1, <1>2, DeliveryAssumption DEF IInv, CallersInv, TurnInv
  <2> QED
    BY <1>4, <2>1, QueuedFixed
<1>6. q = task[t] \/ (q.delivery = "queued" /\ q.delivered)
  BY <1>4 DEF SetDelivery, TaskRecord
<1> HIDE DEF q
<1>7. \/ r = q
      \/ r.delivery = "uncertain" /\ r.delivered = q.delivered
      \/ r.delivery = "failed" /\ r.delivered = q.delivered
      \/ r.delivery = q.delivery /\ r.delivered = q.delivered
  <2> DEFINE c == SetDelivery(q, "uncertain", Managed)
  <2>1. c \in TaskRecord
    BY <1>5, ReportQuiet, DeliveryAssumption DEF Quiet, MaybeSession
  <2>2. c = q \/ (c.delivery = "uncertain" /\ c.delivered = q.delivered)
    BY <1>5 DEF SetDelivery, TaskRecord
  <2> HIDE DEF c
  <2>3. \/ Failed(c) = c
        \/ Failed(c).delivery \in {"failed", c.delivery} /\ Failed(c).delivered = c.delivered
    BY <2>1 DEF Failed, TaskRecord
  <2>4. r = q \/ r = c \/ r = Failed(c)
    BY DEF Unconfirmed, c
  <2> HIDE DEF r
  <2> QED
    BY <2>2, <2>3, <2>4
<1>8. Queued(q) => r = q
  OBVIOUS
<1> HIDE DEF r
<1>9. Onward(task[t], r)
  BY <1>4, <1>6, <1>7 DEF Onward, Underway, Free, Early
<1>10. /\ UnsentStay /\ task'[t] = r
  BY <1>2, <1>3, <1>4, WriteStays DEF Free, Early
<1>11. TurnHands'
  <2>1. CASE ~Queued(q)
    BY <1>3, <2>1 DEF TurnHands
  <2>2. CASE Queued(q)
    <3>1. turn'.id = t /\ turn'.at = "accepted"
      BY <1>2, <1>3, <1>4, <2>2 DEF TurnShape
    <3>2. ~Free(r) /\ (r.delivered \/ Underway(r))
      BY <1>4, <1>6, <1>8, <2>2 DEF Free, Early
    <3> QED
      BY <1>3, <1>4, <1>10, <3>1, <3>2 DEF TurnHands
  <2> QED
    BY <2>1, <2>2
<1> QED
  BY <1>3, <1>4, <1>9, <1>11, TurnOnce DEF Free, Early

\* A turn that stays as it was, but for its timer and its fence.
Fences == turn' = [turn EXCEPT !.fenced = TRUE, !.timed = FALSE]

LEMMA FencedTurn ==
  ASSUME IInv, turn' = turn \/ Fences
  PROVE  turn'.id = turn.id /\ turn'.at = turn.at
BY DEF Fences, IInv, DeliveryTypeOK

LEMMA InterruptedUnmoved ==
  ASSUME IInv, NEW t \in Tasks
  PROVE  Unmoved(task[t], Interrupted(t))
<1>1. task[t] \in TaskRecord /\ Unmoved(task[t], task[t])
  BY DEF IInv, DeliveryTypeOK, Unmoved
<1> QED
  BY <1>1, EndedUnmoved DEF Interrupted

LEMMA OwnerPromptOnce ==
  ASSUME IInv, IInv', OnceInv, OwnerPrompt
  PROVE  OnceInv'
<1>1. /\ sent < MaxTasks /\ sent' = sent + 1 /\ waiting' = waiting \cup {sent + 1}
      /\ \A t \in Tasks : t # sent + 1 => task'[t] = Interrupted(t)
      /\ Fence /\ UNCHANGED <<to, cursor, preview, runner, plugin, watched, handed, faults>>
  BY DEF OwnerPrompt
<1>2. sent \in Nat /\ sent + 1 \in Tasks
  BY <1>1, DeliveryAssumption DEF IInv, DeliveryTypeOK, Tasks
<1>3. task[sent + 1].delivery = "none" /\ ~task[sent + 1].delivered
  BY <1>2 DEF IInv, UnsentInv, Unsent, OnceInv, CountsInv
<1>4. \A t \in Tasks : t # sent + 1 => Unmoved(task[t], task'[t])
  BY <1>1, InterruptedUnmoved
<1>5. \A t \in Tasks : Outside(task[t], task'[t])
  BY <1>3, <1>4, EarlyOutside, UnmovedOutside DEF Early
<1>6. UnsentStay
  BY <1>1, <1>2, <1>4, DeliveryAssumption DEF UnsentStay, Tasks, Unmoved
<1>7. turn' = turn \/ (turn # NoTurn /\ turn'.id = turn.id /\ turn'.at = turn.at)
  BY <1>1, FencedTurn DEF Fence, Fences
<1> QED
  BY <1>1, <1>5, <1>6, <1>7, OutsideOnce

LEMMA StopOnce ==
  ASSUME IInv, IInv', OnceInv, Stop
  PROVE  OnceInv'
<1>1. /\ \A t \in Tasks : task'[t] = IF t \in waiting THEN Ended(task[t], "canceled")
                                     ELSE Interrupted(t)
      /\ waiting' = {} /\ Fence
      /\ UNCHANGED <<to, sent, cursor, preview, runner, plugin, watched, handed, faults>>
  BY DEF Stop
<1>2. ASSUME NEW t \in Tasks PROVE Unmoved(task[t], task'[t])
  <2>1. task[t] \in TaskRecord
    BY DEF IInv, DeliveryTypeOK
  <2>2. Unmoved(task[t], Ended(task[t], "canceled")) /\ Unmoved(task[t], Interrupted(t))
    BY <2>1, InterruptedUnmoved, EndedUnmoved
  <2> QED
    BY <1>1, <2>2
<1>3. \A t \in Tasks : Outside(task[t], task'[t])
  BY <1>2, UnmovedOutside
<1>4. UnsentStay
  BY <1>1, <1>2 DEF UnsentStay, Unmoved
<1>5. turn' = turn \/ (turn # NoTurn /\ turn'.id = turn.id /\ turn'.at = turn.at)
  BY <1>1, FencedTurn DEF Fence, Fences
<1> QED
  BY <1>1, <1>3, <1>4, <1>5, OutsideOnce

LEMMA ClaudeOnce ==
  ASSUME IInv, IInv', OnceInv, LateInv, Claude
  PROVE  OnceInv'
<1>1. CASE OwnerPrompt
  BY <1>1, OwnerPromptOnce
<1>2. ASSUME NEW t \in Tasks, StartNext(t) PROVE OnceInv'
  <2>1. /\ to = "claude" /\ turn.at = "idle" /\ waiting' \subseteq waiting
        /\ UNCHANGED <<to, sent, handed, cursor, runner, plugin>>
        /\ t \in waiting /\ task[t] \in TaskRecord
    BY <1>2 DEF StartNext, Turn, First, IInv, DeliveryTypeOK
  <2>2. CASE ProviderClaimable(task[t])
    BY <1>2, <2>1, <2>2, BeginOnce DEF StartNext
  <2>3. CASE ~ProviderClaimable(task[t])
    <3> DEFINE r == SetDelivery(task[t], "failed", NoSession)
    <3>1. Write(t, r) /\ turn' = turn
      BY <1>2, <2>3 DEF StartNext, Report
    <3>2. r = task[t] \/ (r.delivery = "failed" /\ r.delivered = task[t].delivered)
      BY <2>1 DEF SetDelivery, TaskRecord
    <3> HIDE DEF r
    <3>3. Onward(task[t], r)
      BY <2>1, <3>2 DEF Onward
    <3>4. t \in Sent
      BY <2>1, DeliveryAssumption DEF OnceInv, CountsInv, Sent, Tasks, IInv, DeliveryTypeOK
    <3>5. TurnHands'
      BY <2>1, <3>1 DEF TurnHands, IInv, CallersInv, TurnInv
    <3> QED
      BY <2>1, <3>1, <3>3, <3>4, <3>5, TurnOnce
  <2> QED
    BY <2>2, <2>3
<1>3. ASSUME NEW t \in Tasks, DeliverOwnerTask(t) PROVE OnceInv'
  BY <1>3, BeginOnce DEF DeliverOwnerTask, Turn
<1>4. ASSUME NEW took \in BOOLEAN, Dispatch(took) PROVE OnceInv'
  BY <1>4, DispatchOnce
<1>5. CASE Accept
  BY <1>5, AcceptOnce
<1>6. CASE TurnResult
  <2>1. turn # NoTurn /\ turn' = NoTurn
    BY <1>6 DEF TurnResult, Turn, NoTurn
  <2>2. PICK t \in Tasks : t = turn.id /\ task[t] \in TaskRecord
    BY <2>1, TurnKnows
  <2> DEFINE r == IF ResultFits(task[t], Managed) THEN Completed(task[t], Managed)
                                                  ELSE task[t]
  <2>3. /\ Write(t, r)
        /\ UNCHANGED <<to, sent, cursor, runner, plugin, waiting, handed>>
    BY <1>6, <2>2 DEF TurnResult
  <2>4. Outside(task[t], r)
    BY <2>2, CompletedOutside, UnmovedOutside, DeliveryAssumption DEF ResultFits, Unmoved
  <2>5. task[t].delivery # "none"
    BY <2>1, <2>2, TurnKnows DEF Free, Early
  <2> HIDE DEF r
  <2> QED
    BY <2>1, <2>3, <2>4, <2>5, WriteOutside
<1>7. CASE TurnError
  <2>1. turn # NoTurn /\ turn' = NoTurn
    BY <1>7 DEF TurnError
  <2>2. PICK t \in Tasks : t = turn.id
    BY <2>1, TurnKnows
  <2>3. /\ to = "claude" /\ task[t] \in TaskRecord /\ ~Free(task[t])
        /\ Write(t, Failed(task[t]))
        /\ UNCHANGED <<to, sent, cursor, runner, plugin, waiting, handed>>
    BY <1>7, <2>1, <2>2, TurnKnows DEF TurnError
  <2>4. Onward(task[t], Failed(task[t]))
    <3>1. \/ Failed(task[t]) = task[t]
          \/ /\ Failed(task[t]).delivery \in {"failed", task[t].delivery}
             /\ Failed(task[t]).delivered = task[t].delivered
      BY <2>3 DEF Failed, TaskRecord
    <3> QED
      BY <2>3, <3>1 DEF Onward
  <2>5. TurnHands'
    BY <2>1 DEF TurnHands
  <2> QED
    BY <2>3, <2>4, <2>5, TurnOnce DEF Free, Early
<1>8. CASE TurnEnds
  <2>1. \A t \in Tasks : Outside(task[t], task'[t])
    BY <1>8, UnmovedOutside DEF TurnEnds, Unmoved
  <2>2. UnsentStay
    BY <1>8 DEF TurnEnds, UnsentStay
  <2> QED
    BY <1>8, <2>1, <2>2, OutsideOnce DEF TurnEnds
<1>11. ASSUME NEW t \in Tasks, LateTimeout(t) PROVE OnceInv'
  <2> DEFINE r == SetDelivery(task[t], "uncertain", Managed)
  <2>1. /\ task[t] \in TaskRecord /\ ~Free(task[t]) /\ Write(t, r)
        /\ UNCHANGED <<to, sent, cursor, runner, plugin, turn, waiting, handed>>
    BY <1>11 DEF LateTimeout, LateInv, Report, IInv, DeliveryTypeOK
  <2>2. r = task[t] \/ (r.delivery = "uncertain" /\ r.delivered = task[t].delivered)
    BY <2>1 DEF SetDelivery, TaskRecord
  <2> HIDE DEF r
  <2>3. Outside(task[t], r)
    BY <2>1, <2>2 DEF Outside, Onward, Underway, Free, Early
  <2> QED
    BY <2>1, <2>3, WriteOutside DEF Free, Early
<1>9. CASE TurnTimeout
  <2>1. turn # NoTurn /\ Fences
    BY <1>9 DEF TurnTimeout, NoTurn, Fences
  <2>2. PICK t \in Tasks : t = turn.id
    BY <2>1, TurnKnows
  <2> DEFINE r == SetDelivery(task[t], "uncertain", Managed)
  <2>3. /\ task[t] \in TaskRecord /\ ~Free(task[t]) /\ Write(t, r)
        /\ UNCHANGED <<to, sent, cursor, runner, plugin, waiting, handed>>
    BY <1>9, <2>1, <2>2, TurnKnows DEF TurnTimeout, Report
  <2>4. r = task[t] \/ (r.delivery = "uncertain" /\ r.delivered = task[t].delivered)
    BY <2>3 DEF SetDelivery, TaskRecord
  <2> HIDE DEF r
  <2>5. Outside(task[t], r)
    BY <2>3, <2>4 DEF Outside, Onward, Underway, Free, Early
  <2>6. turn'.id = turn.id /\ turn'.at = turn.at
    BY <2>1, FencedTurn
  <2> QED
    BY <2>1, <2>3, <2>5, <2>6, WriteOutside DEF Free, Early
<1>10. CASE Stop
  BY <1>10, StopOnce
<1> QED
  BY <1>1, <1>2, <1>3, <1>4, <1>5, <1>6, <1>7, <1>8, <1>9, <1>10, <1>11 DEF Claude

----------------------------------------------------------------------------
(* The timers that outlive a turn *)

LEMMA LateKept ==
  ASSUME LateInv, to' = to, waiting' \subseteq waiting, late' \subseteq late,
         turn' = NoTurn \/ (turn # NoTurn /\ turn'.id = turn.id),
         \A t \in late' : ~Free(task'[t])
  PROVE  LateInv'
BY DEF LateInv

\* What nobody could claim, a step of those who deliver nothing leaves so.
LEMMA StaysTaken ==
  ASSUME IInv, LateInv, UNCHANGED <<to, turn, waiting, late>>,
         \A t \in Tasks : ~Free(task[t]) => ~Free(task'[t])
  PROVE  LateInv'
<1>1. \A t \in late : t \in Tasks /\ ~Free(task[t])
  BY DEF LateInv, IInv, DeliveryTypeOK
<1> QED
  BY <1>1, LateKept

\* The other writes concern no task with such a timer.
LEMMA WriteLate ==
  ASSUME IInv, LateInv, NEW t \in Tasks, NEW r, Write(t, r),
         t \notin late \/ Free(task[t]) \/ ~Free(r),
         UNCHANGED <<to, late>>, waiting' \subseteq waiting,
         turn' = NoTurn \/ (turn # NoTurn /\ turn'.id = turn.id)
  PROVE  LateInv'
<1>1. \A u \in Tasks : task'[u] = IF u = t THEN r ELSE task[u]
  BY DEF Write, IInv, DeliveryTypeOK
<1>2. \A u \in late : u \in Tasks /\ ~Free(task[u])
  BY DEF LateInv, IInv, DeliveryTypeOK
<1> QED
  BY <1>1, <1>2, LateKept

LEMMA SendersLate ==
  ASSUME IInv, OnceInv, LateInv, Senders
  PROVE  LateInv'
<1>1. turn' = NoTurn \/ (turn # NoTurn /\ turn'.id = turn.id)
  BY DEF Senders, Send, Defer, GrowStale, PauseStage, Decide, transports
<1>2. ASSUME NEW t \in Tasks PROVE task[t] \in TaskRecord
  BY DEF IInv, DeliveryTypeOK
<1>3. ASSUME NEW owner \in BOOLEAN, NEW approval \in {"pending", "granted"},
             NEW target \in MaybeSession, Send(owner, approval, target)
      PROVE  LateInv'
  <2>1. /\ sent + 1 \in Tasks /\ sent + 1 > sent
        /\ Write(sent + 1, NewTask(owner, approval, target))
    BY <1>3, DeliveryAssumption DEF Send, IInv, DeliveryTypeOK, Tasks
  <2>2. Free(task[sent + 1])
    BY <2>1 DEF OnceInv, CountsInv, Free, Early
  <2> QED
    BY <1>1, <1>3, <2>1, <2>2, WriteLate DEF Send, transports
<1>4. ASSUME NEW t \in Tasks, Defer(t) PROVE LateInv'
  BY <1>1, <1>4, WriteLate DEF Defer, Report, Free, Early, transports
<1>5. ASSUME NEW t \in Tasks, NEW r, Write(t, r), r.delivery = task[t].delivery,
             UNCHANGED <<to, turn, waiting, late>>
      PROVE  LateInv'
  BY <1>1, <1>5, WriteLate DEF Free, Early
<1>6. ASSUME NEW t \in Tasks, GrowStale(t) PROVE LateInv'
  <2>1. [task[t] EXCEPT !.age = "stale"].delivery = task[t].delivery
    BY <1>2 DEF TaskRecord
  <2> QED
    BY <1>5, <1>6, <2>1 DEF GrowStale, transports
<1>7. ASSUME NEW t \in Tasks, PauseStage(t) PROVE LateInv'
  <2>1. Ended(task[t], "paused").delivery = task[t].delivery
    BY <1>2, EndedUnmoved DEF Unmoved
  <2> QED
    BY <1>5, <1>7, <2>1 DEF PauseStage, transports
<1>8. ASSUME NEW t \in Tasks, NEW yes \in BOOLEAN, Decide(t, yes) PROVE LateInv'
  <2> DEFINE r == IF yes THEN Approved(task[t], to = "claude")
                         ELSE [task[t] EXCEPT !.approval = "refused"]
  <2>1. r.delivery = task[t].delivery \/ task[t].delivery = "none"
    BY <1>2 DEF Approved, TaskRecord
  <2>2. Write(t, r) /\ UNCHANGED <<to, turn, waiting, late>>
    BY <1>8 DEF Decide, transports
  <2> HIDE DEF r
  <2> QED
    BY <1>1, <2>1, <2>2, WriteLate DEF Free, Early
<1> QED
  BY <1>3, <1>4, <1>6, <1>7, <1>8 DEF Senders

LEMMA ReadersLate ==
  ASSUME IInv, LateInv, Readers
  PROVE  LateInv'
<1>1. ASSUME NEW t \in Tasks PROVE task[t] \in TaskRecord
  BY DEF IInv, DeliveryTypeOK
<1>2. ASSUME NEW s \in Sessions, Read(s) PROVE LateInv'
  <2>1. \A t \in Tasks : task'[t] = task[t] \/ task'[t] = Taken(task[t], s)
    BY <1>2 DEF Read
  <2>2. \A t \in Tasks : Taken(task[t], s).delivery = task[t].delivery
    BY <1>1 DEF Taken, TaskRecord
  <2>3. \A t \in Tasks : ~Free(task[t]) => ~Free(task'[t])
    BY <2>1, <2>2 DEF Free, Early
  <2> QED
    BY <1>2, <2>3, StaysTaken DEF Read, transports
<1>3. ASSUME NEW s \in Sessions, NEW t \in Tasks, Write(t, Completed(task[t], s)),
             UNCHANGED <<to, turn, waiting, late>>
      PROVE  LateInv'
  <2>1. Completed(task[t], s).delivery = IF task[t].delivery = "none" THEN "none" ELSE "done"
    BY <1>1 DEF Completed, TaskRecord
  <2>2. ~Free(task[t]) => ~Free(Completed(task[t], s))
    BY <2>1 DEF Free, Early
  <2>3. \A u \in Tasks : task'[u] = IF u = t THEN Completed(task[t], s) ELSE task[u]
    BY <1>3 DEF Write, IInv, DeliveryTypeOK
  <2> QED
    BY <1>3, <2>2, <2>3, StaysTaken
<1>4. ASSUME NEW s \in Sessions, NEW named \in BOOLEAN, EndTurn(s, named) PROVE LateInv'
  BY <1>3, <1>4, SentTasks DEF EndTurn, transports, IInv
<1>5. ASSUME NEW s \in Sessions, NEW t \in Tasks, ReportResult(t, s) PROVE LateInv'
  BY <1>3, <1>5 DEF ReportResult, transports
<1>6. ASSUME NEW s \in Sessions, NEW scope \in Scopes, Look(s, scope) PROVE LateInv'
  BY <1>6, StaysTaken DEF Look, transports
<1> QED
  BY <1>2, <1>4, <1>5, <1>6 DEF Readers

\* A turn that begins has a task that could be claimed, and that waits no more.
LEMMA BeginLate ==
  ASSUME IInv, OnceInv, LateInv, turn = NoTurn, NEW t \in Tasks, NEW timed \in BOOLEAN,
         ProviderClaimable(task[t]), Begin(t, timed), UNCHANGED <<to, late>>,
         waiting' \subseteq waiting, t \notin waiting'
  PROVE  LateInv'
<1>1. t \notin late
  BY DEF LateInv, ProviderClaimable, Free, Early
<1>2. turn'.id = t
  BY DEF Begin, NoTurn
<1>3. \A u \in late : u \in Tasks /\ task'[u] = task[u]
  BY <1>1 DEF Begin, Write, IInv, DeliveryTypeOK
<1> QED
  BY <1>1, <1>2, <1>3 DEF LateInv

LEMMA ClaudeLate ==
  ASSUME IInv, OnceInv, LateInv, Claude
  PROVE  LateInv'
<1>1. ASSUME NEW t \in Tasks
      PROVE  task[t] \in TaskRecord /\ (t \in late => ~Free(task[t]) /\ t \notin waiting)
  BY DEF LateInv, IInv, DeliveryTypeOK
<1>2. turn # NoTurn => /\ turn.id \in Tasks /\ ~Free(task[turn.id])
                       /\ turn.id \notin waiting /\ turn.id \notin late
  BY TurnKnows DEF LateInv
<1>3. late \subseteq Tasks
  BY DEF IInv, DeliveryTypeOK
<1>4. turn.at = "idle" => turn = NoTurn
  BY DEF IInv, CallersInv, TurnInv
<1>5. ASSUME NEW r, turn # NoTurn, Write(turn.id, r), turn' = NoTurn \/ turn'.id = turn.id,
             UNCHANGED <<to, late, waiting>>
      PROVE  LateInv'
  <2>1. PICK t \in Tasks : t = turn.id
    BY <1>2, <1>5
  <2>2. /\ t \notin late /\ Write(t, r) /\ waiting' \subseteq waiting /\ UNCHANGED <<to, late>>
        /\ turn' = NoTurn \/ (turn # NoTurn /\ turn'.id = turn.id)
    BY <1>2, <1>5, <2>1
  <2> QED
    BY <2>1, <2>2, WriteLate
<1>6. ASSUME Fence
      PROVE  turn' = NoTurn \/ (turn # NoTurn /\ turn'.id = turn.id)
  BY <1>6, FencedTurn DEF Fence, Fences
<1>7. CASE OwnerPrompt
  <2>1. /\ waiting' = waiting \cup {sent + 1} /\ Fence /\ UNCHANGED <<to, late>>
        /\ \A t \in Tasks : t # sent + 1 => task'[t] = Interrupted(t)
    BY <1>7 DEF OwnerPrompt
  <2>2. sent + 1 \in Tasks /\ sent + 1 > sent
    BY <1>7, DeliveryAssumption DEF OwnerPrompt, IInv, DeliveryTypeOK, Tasks
  <2>3. Free(task[sent + 1])
    BY <2>2 DEF OnceInv, CountsInv, Free, Early
  <2>4. sent + 1 \notin late /\ (turn # NoTurn => turn.id # sent + 1)
    BY <1>1, <1>2, <2>2, <2>3
  <2>5. \A t \in late : ~Free(task'[t])
    BY <1>1, <1>3, <2>1, <2>4, InterruptedUnmoved DEF Unmoved, Free, Early
  <2> QED
    BY <1>6, <2>1, <2>4, <2>5 DEF LateInv
<1>8. ASSUME NEW t \in Tasks, StartNext(t) PROVE LateInv'
  <2>1. /\ turn = NoTurn /\ t \in waiting /\ waiting' = waiting \ {t}
        /\ UNCHANGED <<to, late>>
    BY <1>4, <1>8 DEF StartNext, Turn, First
  <2>2. CASE ProviderClaimable(task[t])
    BY <1>8, <2>1, <2>2, BeginLate DEF StartNext
  <2>3. CASE ~ProviderClaimable(task[t])
    <3> DEFINE r == SetDelivery(task[t], "failed", NoSession)
    <3>1. /\ Write(t, r) /\ turn' = NoTurn /\ t \notin late
          /\ waiting' \subseteq waiting /\ UNCHANGED <<to, late>>
      BY <1>1, <1>8, <2>1, <2>3 DEF StartNext, Report
    <3> HIDE DEF r
    <3> QED
      BY <3>1, WriteLate
  <2> QED
    BY <2>2, <2>3
<1>9. ASSUME NEW t \in Tasks, DeliverOwnerTask(t) PROVE LateInv'
  BY <1>4, <1>9, BeginLate DEF DeliverOwnerTask, Turn
<1>10. ASSUME NEW took \in BOOLEAN, Dispatch(took) PROVE LateInv'
  <2>1. turn # NoTurn /\ turn'.id = turn.id
    BY <1>10 DEF Dispatch, Turn, NoTurn, IInv, DeliveryTypeOK
  <2> QED
    BY <1>1, <1>3, <1>10, <2>1, LateKept DEF Dispatch
<1>11. CASE Accept
  <2>1. turn # NoTurn /\ (turn' = NoTurn \/ turn'.id = turn.id)
    BY <1>11 DEF Accept, Turn, NoTurn, IInv, DeliveryTypeOK
  <2> QED
    BY <1>5, <1>11, <2>1 DEF Accept
<1>12. CASE TurnResult
  <2>1. turn # NoTurn
    BY <1>12 DEF TurnResult, Turn, NoTurn
  <2> QED
    BY <1>5, <1>12, <2>1 DEF TurnResult
<1>13. CASE TurnError
  BY <1>5, <1>13 DEF TurnError
<1>14. CASE TurnEnds
  BY <1>1, <1>2, <1>3, <1>14 DEF TurnEnds, LateInv
<1>15. CASE TurnTimeout
  <2>1. turn # NoTurn /\ turn'.id = turn.id
    BY <1>15, FencedTurn DEF TurnTimeout, Fences, NoTurn
  <2> QED
    BY <1>5, <1>15, <2>1 DEF TurnTimeout, Report
<1>16. CASE Stop
  <2>1. \A t \in Tasks : task'[t] = Ended(task[t], "canceled") \/ task'[t] = Interrupted(t)
    BY <1>16 DEF Stop
  <2>2. \A t \in late : ~Free(task'[t])
    BY <1>1, <1>3, <2>1, InterruptedUnmoved, EndedUnmoved DEF Unmoved, Free, Early
  <2> QED
    BY <1>6, <1>16, <2>2, LateKept DEF Stop
<1>17. ASSUME NEW t \in Tasks, LateTimeout(t) PROVE LateInv'
  <2>1. \A u \in late' : u \in late /\ task'[u] = task[u]
    BY <1>3, <1>17 DEF LateTimeout, Report, Write, IInv, DeliveryTypeOK
  <2> QED
    BY <1>1, <1>3, <1>17, <2>1, LateKept DEF LateTimeout
<1> QED
  BY <1>7, <1>8, <1>9, <1>10, <1>11, <1>12, <1>13, <1>14, <1>15, <1>16, <1>17 DEF Claude

LEMMA LateStep ==
  ASSUME IInv, OnceInv, OnceInv', LateInv, [Next]_vars
  PROVE  LateInv'
<1>1. to' = to
  BY ToStays
<1>2. ASSUME UNCHANGED <<turn, waiting, late>>, to # "claude" \/ UNCHANGED task
      PROVE  LateInv'
  BY <1>1, <1>2 DEF LateInv, OnceInv, TurnHands
<1>3. ASSUME NEW t \in Tasks, Codex(t) PROVE LateInv'
  BY <1>2, <1>3 DEF Codex, CodexClaim, CodexRecord, CodexFail, RunnerCrash, CodexBind,
     CodexDefer, CodexSpawn, CodexReturn, Running
<1>4. ASSUME NEW s \in Sessions, OpenCode(s) PROVE LateInv'
  BY <1>2, <1>4 DEF OpenCode, Settle, Poll, PollClaim, PollRefused, Prompt,
     ExecutionFails, GoesIdle, PluginCrash, Polls
<1>5. ASSUME NEW orderly \in BOOLEAN, Restart(orderly) PROVE LateInv'
  BY <1>1, <1>5 DEF Restart, LateInv
<1>6. CASE UNCHANGED vars
  BY <1>2, <1>6 DEF vars, transports
<1> QED
  BY <1>3, <1>4, <1>5, <1>6, SendersLate, ReadersLate, ClaudeLate DEF Next

----------------------------------------------------------------------------
(* A restart, and the theorem *)

LEMMA RestartOnce ==
  ASSUME IInv, IInv', OnceInv, NEW orderly \in BOOLEAN, Restart(orderly)
  PROVE  OnceInv'
<1>1. PICK old \in SUBSET {t \in Sent : task[t].delivery = "sending"} :
        task' = [t \in Tasks |->
          LET r == IF orderly /\ t = turn.id THEN Ended(task[t], "canceled") ELSE task[t]
          IN Reconciled(Retired(r), t \in old)]
  BY DEF Restart
<1>2. /\ turn' = NoTurn /\ waiting' = {}
      /\ UNCHANGED <<to, sent, cursor, preview, runner, plugin, watched, handed>>
  BY DEF Restart
<1>3. ASSUME NEW t \in Tasks
      PROVE  /\ Outside(task[t], task'[t])
             /\ task[t].delivery = "none" => task'[t].delivery = "none"
  <2> DEFINE r == IF orderly /\ t = turn.id THEN Ended(task[t], "canceled") ELSE task[t]
  <2>1. r \in TaskRecord /\ Unmoved(task[t], r)
    <3>1. task[t] \in TaskRecord /\ Unmoved(task[t], task[t])
      BY DEF IInv, DeliveryTypeOK, Unmoved
    <3> QED
      BY <3>1, EndedQuiet, EndedUnmoved DEF Quiet
  <2>2. task'[t] = Reconciled(Retired(r), t \in old)
    BY <1>1
  <2> HIDE DEF r
  <2>3. (t \in old) \in BOOLEAN
    OBVIOUS
  <2>4. Outside(r, task'[t])
    BY <2>1, <2>2, <2>3, RestartOutside
  <2>5. r.delivery = "none" => task'[t].delivery = "none"
    BY <2>1, <2>2 DEF Reconciled, Retired, TaskRecord
  <2> QED
    BY <2>1, <2>4, <2>5 DEF Unmoved, Outside, Onward, Underway, Free, Early
<1>4. UnsentStay
  BY <1>2, <1>3 DEF UnsentStay, OnceInv, CountsInv
<1> QED
  BY <1>2, <1>3, <1>4, OutsideOnce

LEMMA OnceStep ==
  ASSUME IInv, IInv', OnceInv, LateInv, [Next]_vars
  PROVE  OnceInv'
<1>1. CASE UNCHANGED vars
  BY <1>1, SameOnce DEF vars, transports
<1> QED
  BY <1>1, SendersOnce, ReadersOnce, ClaudeOnce, CodexOnce, OpenCodeOnce, RestartOnce
     DEF Next

LEMMA OnceStarts ==
  ASSUME Init
  PROVE  OnceInv /\ LateInv
<1>1. /\ \A t \in Tasks : task[t].delivery = "none" /\ runner[t].at = "idle"
      /\ \A s \in Sessions : plugin[s].at = "ready"
      /\ \A t \in Tasks, s \in Sessions : handed[t][s] = 0
      /\ turn = NoTurn /\ waiting = {} /\ late = {}
  BY DEF Init, NewTask, NoRunner, Ready
<1> QED
  BY <1>1 DEF OnceInv, CountsInv, Counted, RunnerHands, PluginHands, TurnHands, LateInv

\* A session is given a task once, whichever transport or read gives it, and
\* after a failed delivery once more through each of its two cursors at most:
\* a crash, a timeout, a lost answer or a restart never makes a transport
\* deliver again what its session may already have.
THEOREM GivenOnce == Spec => []HandedOnce
<1>1. Init => OnceInv /\ LateInv
  BY OnceStarts
<1>2. IInv /\ IInv' /\ OnceInv /\ LateInv /\ [Next]_vars => OnceInv' /\ LateInv'
  BY OnceStep, LateStep
<1>3. IInv /\ OnceInv => HandedOnce
  BY OnceInvHanded
<1> QED
  BY <1>1, <1>2, <1>3, DeliveryInvariant, PTL DEF Spec
=============================================================================
