---------------------------- MODULE TaskReceipts ----------------------------
(***************************************************************************)
(* One task record of the local store and what each of the store's methods *)
(* does to it: the claims of the three transports, the inbox claim, the    *)
(* transport's reports, results, and the receipt that only moves forward.  *)
(*                                                                         *)
(* A record keeps what the guards of those methods read.  The lifecycle    *)
(* and the histories are projections of it and are left out.               *)
(***************************************************************************)
EXTENDS Naturals

CONSTANTS
  Sessions,   \* provider sessions of the recipient, all with an identity
  NoSession   \* no session

ASSUME ReceiptsAssumption == NoSession \notin Sessions

Receipts == {"accepted", "dispatched", "provider_received", "started",
             "paused", "retryable", "uncertain", "failed", "completed",
             "canceled"}
Deliveries == {"none", "deferred", "sending", "queued", "uncertain",
               "failed", "done"}

MaybeSession == Sessions \cup {NoSession}
TaskRecord == [
  owner : BOOLEAN,       \* from "you"
  approval : {"pending", "granted", "refused"},
  age : {"fresh", "stale", "retired"},
  target : MaybeSession, \* targetSession
  session : MaybeSession,\* deliveredSession
  thread : MaybeSession, \* delivery.threadId
  delivery : Deliveries, \* delivery.state
  receipt : Receipts,    \* receipt.state
  delivered : BOOLEAN,   \* deliveredAt
  result : MaybeSession] \* who gave resultSummary

NewTask(owner, approval, target) ==
  [owner |-> owner, approval |-> approval, age |-> "fresh",
   target |-> target, session |-> NoSession, thread |-> NoSession,
   delivery |-> "none", receipt |-> "accepted", delivered |-> FALSE,
   result |-> NoSession]

Answered(r) == r.result # NoSession
Owner(r) == IF r.target # NoSession THEN r.target ELSE r.session
CanQueue(r) == r.approval = "granted" /\ r.age # "retired"

----------------------------------------------------------------------------
(* The receipt *)

After == [
  accepted |-> Receipts \ {"accepted"},
  dispatched |-> Receipts \ {"accepted", "dispatched"},
  provider_received |-> {"started", "completed", "paused", "canceled",
                         "failed", "uncertain"},
  started |-> {"completed", "paused", "canceled", "failed", "uncertain"},
  paused |-> {"canceled"},
  retryable |-> {"dispatched", "canceled", "failed", "completed"},
  uncertain |-> {"completed", "canceled"},
  failed |-> {"completed", "canceled", "retryable"},
  completed |-> {},
  canceled |-> {}]

\* Whatever is not after the receipt leaves it as it is.
Advance(receipt, to) == IF to \in After[receipt] THEN to ELSE receipt

\* A new dispatch; a failed receipt crosses the retry boundary first.
Dispatched(receipt) ==
  Advance(IF receipt = "failed" THEN "retryable" ELSE receipt, "dispatched")

Closed(r) == r.receipt \in {"completed", "canceled", "paused"}

----------------------------------------------------------------------------
(* What a transport reports *)

\* Faulty variant: the delivery state itself becomes the receipt.
ReceiptForUnmapped(r, st) == st

ReceiptFor(r, st) ==
  CASE st = "sending" -> Dispatched(r.receipt)
    [] st = "queued" -> Advance(r.receipt, "provider_received")
    [] st = "deferred" ->
         IF r.receipt \in {"failed", "uncertain"} \/ r.delivery = "sending"
           THEN Advance(r.receipt, "retryable") ELSE r.receipt
    [] OTHER -> Advance(r.receipt, st)

Refuses(r, st) ==
  \/ r.age = "retired" \/ r.delivery = "done" \/ Answered(r) \/ Closed(r)
  \/ r.receipt = "failed" /\ st = "queued"
  \/ r.receipt = "uncertain" /\ st \in {"sending", "deferred", "failed"}

SetDelivery(r, st, thread) ==
  IF Refuses(r, st) THEN r
  ELSE [r EXCEPT
    !.delivery = st,
    !.receipt = ReceiptFor(r, st),
    !.thread = IF thread # NoSession THEN thread ELSE @,
    !.session = IF st = "queued" /\ @ = NoSession THEN thread ELSE @,
    !.delivered = @ \/ st = "queued"]

\* The person's answer; native Claude work that nothing has touched becomes
\* deferred with it.
Approved(r, resident) ==
  [r EXCEPT
    !.approval = "granted",
    !.delivery = IF /\ resident /\ @ = "none" /\ ~Answered(r)
                    /\ ~r.delivered /\ r.session = NoSession
                    /\ r.receipt \notin {"canceled", "paused"}
                    /\ r.age = "fresh"
                   THEN "deferred" ELSE @]

----------------------------------------------------------------------------
(* Claims of the transports *)

Unclaimed(r) ==
  /\ CanQueue(r) /\ r.age = "fresh" /\ ~r.delivered /\ ~Answered(r)
  /\ r.receipt \notin {"completed", "uncertain", "canceled", "paused"}

CodexClaimable(r) ==
  Unclaimed(r) /\ r.delivery \in {"none", "failed", "deferred"}
CodexClaimed(r) ==
  [r EXCEPT !.delivery = "sending", !.thread = NoSession,
            !.receipt = Dispatched(@)]

\* bindTaskToSession, short of the test for another task with the same text.
Bindable(r, s) ==
  /\ ~Answered(r) /\ r.receipt \notin {"paused", "canceled"} /\ CanQueue(r)
  /\ (IF Owner(r) # NoSession THEN Owner(r) ELSE r.thread) \in {NoSession, s}
Bound(r, s) ==
  [r EXCEPT !.session = s, !.thread = IF r.delivery = "none" THEN @ ELSE s]

\* Another task that a session has not finished with keeps it busy.
Occupies(r, s) ==
  /\ ~Answered(r) /\ r.receipt \notin {"canceled", "paused"}
  /\ (IF Owner(r) # NoSession THEN Owner(r) ELSE r.thread) = s
  /\ r.delivery \in {"sending", "queued", "uncertain"} /\ r.age = "fresh"

OpenCodeClaimable(r, s) ==
  /\ Unclaimed(r) /\ r.delivery \in {"none", "deferred"}
  /\ r.target \in {NoSession, s}
SessionClaimed(r, s) ==
  [r EXCEPT !.delivery = "sending", !.thread = s, !.session = s,
            !.receipt = Dispatched(@)]

ProviderClaimable(r) ==
  /\ Unclaimed(r) /\ r.owner /\ r.delivery = "deferred"
  /\ r.session = NoSession /\ r.target = NoSession /\ r.thread = NoSession

----------------------------------------------------------------------------
(* The OpenCode plugin settles its claim: "queued", "failed", "uncertain" *)

Settles(r, s, st) ==
  /\ r.receipt \notin {"canceled", "paused"} /\ r.thread = s
  /\ \/ r.delivery = st \/ r.delivery = "sending"
     \/ st = "queued" /\ r.delivery \in {"done", "uncertain"}
     \/ st = "failed" /\ r.delivery = "queued"
Settled(r, st) ==
  IF r.delivery = st \/ r.delivery = "done" THEN r
  ELSE [r EXCEPT
    !.delivery = st,
    !.receipt =
      Advance(@, IF st = "queued" THEN "provider_received" ELSE st),
    !.delivered = @ \/ st = "queued"]

----------------------------------------------------------------------------
(* The inbox *)

\* renderInboxInjection lists these for a session (tasksForSession).
Listed(r, s) ==
  /\ Owner(r) \in {NoSession, s} /\ r.age = "fresh"
  /\ r.approval # "refused" /\ r.receipt \notin {"canceled", "paused"}
  /\ r.delivery \in {"none", "deferred", "failed"} /\ ~Answered(r)

\* claimInboxTasks leaves these alone, passes those, and takes the rest.
\* Faulty variant: a task in delivery, or in doubt, is taken.
LeavesAloneRetired(r) == r.age = "retired"

LeavesAlone(r) == r.age = "retired" \/ r.delivery \in {"sending", "uncertain"}

Over(r) ==
  \/ r.approval = "refused" \/ r.receipt \in {"canceled", "paused"}
  \/ r.delivery \in {"queued", "done"} \/ Answered(r) \/ r.age # "fresh"

\* Faulty variant: whose task it is is not checked again at the claim.
ElsewhereNever(r, s) == FALSE

Elsewhere(r, s) == Owner(r) \notin {NoSession, s}

ShownBefore(r, s) ==
  r.delivery # "failed" /\ r.delivered /\ Owner(r) = s

Takes(r, s) ==
  /\ ~LeavesAlone(r) /\ ~Over(r) /\ r.approval # "pending"
  /\ ~Elsewhere(r, s) /\ ~ShownBefore(r, s)
Passes(r, s) ==
  /\ ~LeavesAlone(r)
  /\ Over(r) \/ (r.approval # "pending"
                  /\ (Elsewhere(r, s) \/ ShownBefore(r, s)))
Taken(r, s) ==
  [r EXCEPT !.delivered = TRUE, !.session = IF r.target = NoSession THEN s ELSE r.target,
            !.receipt = Advance(@, "provider_received")]

----------------------------------------------------------------------------
(* Ends of a task *)

Broken(r) == r.receipt = "failed" \/ r.delivery = "failed"

\* recordTaskResult, from the session that owns the delivered task.
ResultFits(r, s) ==
  /\ Owner(r) = s /\ r.delivered /\ ~Answered(r) /\ ~Closed(r) /\ ~Broken(r)
Completed(r, s) ==
  [r EXCEPT !.result = s, !.receipt = Advance(@, "completed"),
            !.delivery = IF @ = "none" THEN @ ELSE "done"]

\* recordTaskFailure.
Failed(r) ==
  IF Closed(r) THEN r
  ELSE [r EXCEPT !.delivery = IF @ = "none" THEN @ ELSE "failed",
                 !.receipt = Advance(@, "failed")]

\* cancelTask and pauseTask.
Ended(r, receipt) ==
  IF Answered(r) THEN r ELSE [r EXCEPT !.receipt = Advance(@, receipt)]

\* The start of a broker: old work is retired, and a claim that is old enough
\* becomes uncertain.
Retired(r) ==
  IF r.age = "stale" /\ ~Answered(r) /\ r.receipt # "completed"
    THEN [r EXCEPT !.age = "retired"] ELSE r
Reconciled(r, old) ==
  IF old /\ r.delivery = "sending" /\ ~Answered(r) /\ ~Closed(r)
    THEN [r EXCEPT !.delivery = "uncertain",
                   !.receipt = Advance(@, "uncertain")]
    ELSE r
=============================================================================
