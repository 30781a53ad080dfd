--------------------------- MODULE DispatchLeases ---------------------------
(***************************************************************************)
(* The durable side of mission dispatch: one lease row per slot, the       *)
(* dispatch intents written with it, and the inbox of execution results.   *)
(* Every operation is one transaction on these (mission-scheduler and its  *)
(* store, and the migrations that hold the same functions as SQL).         *)
(*                                                                         *)
(* A slot is one mission and dispatch key.  A claim mints a lease id and   *)
(* counts an attempt; both name the generation, so one number stands for   *)
(* them.  Deadlines are kept as the time left.  Callers pass the clock     *)
(* they read some time ago: age is how long ago that was.                  *)
(***************************************************************************)
EXTENDS Integers, FiniteSets

CONSTANTS
  Slots,          \* slots of missions whose work may be dispatched
  Workers,        \* lease holders: the worker processes
  NoWorker,       \* the holder of a slot that was never leased
  LeaseDuration,  \* leaseDurationMs
  RenewalWindow,  \* renewalWindowMs
  MaxAge,         \* bound: how old a clock reading in use gets
  MaxGen,         \* bound: claims of one slot
  MaxToken        \* bound: fencing tokens of one slot

ASSUME LeasesAssumption ==
  /\ NoWorker \notin Workers
  /\ LeaseDuration \in Nat \ {0} /\ RenewalWindow \in Nat /\ MaxAge \in Nat
  /\ MaxGen \in Nat /\ MaxToken \in Nat

Gens == 1..MaxGen
Jobs == Slots \X Gens       \* an instruction, and the execution it starts
Kinds == {"started", "finished", "lease_lost"}

VARIABLES
  lease,        \* the lease row of each slot
  outstanding,  \* intents neither delivered nor superseded
  attached,     \* intents whose process handle is durable
  inbox         \* accepted execution results
leaseVars == <<lease, outstanding, attached, inbox>>

NoLease == [gen |-> 0, token |-> 0, holder |-> NoWorker, status |-> "none", left |-> 0]

LeasesInit ==
  /\ lease = [s \in Slots |-> NoLease]
  /\ outstanding = {}
  /\ attached = {}
  /\ inbox = {}

----------------------------------------------------------------------------
(* Pure decisions on a lease row *)

\* Faulty variant: the row on record counts as live whatever the clock says
LiveForever(l, age) == l.status = "leased"

Live(l, age) == l.status = "leased" /\ l.left + age > 0

\* Whether a claim of the slot by w succeeds: a live lease of somebody else
\* refuses it, one's own may be taken again.
Claimable(l, w, age) == ~(Live(l, age) /\ l.holder # w)

\* Faulty variant: the tokens of a new generation start again
AcquiredFresh(l, w, age) ==
  [gen |-> l.gen + 1, token |-> 1, holder |-> w, status |-> "leased",
   left |-> LeaseDuration - age]

\* The row after a claim: the token continues the slot's sequence.
Acquired(l, w, age) ==
  [gen |-> l.gen + 1, token |-> l.token + 1, holder |-> w, status |-> "leased",
   left |-> LeaseDuration - age]

InWindow(l, age) == l.left + age >= 0 /\ l.left + age <= RenewalWindow

\* validateFence: says nothing about expiry.
FenceCurrent(l, g, token) == l.gen = g /\ l.status = "leased" /\ l.token = token

\* Every condition renewLease checks, the fence first.
Renewable(l, g, token, w, age) ==
  FenceCurrent(l, g, token) /\ l.holder = w /\ InWindow(l, age)
Renewed(l, age) == [l EXCEPT !.token = @ + 1, !.left = LeaseDuration - age]

Releasable(l, g, token, w) == FenceCurrent(l, g, token) /\ l.holder = w

----------------------------------------------------------------------------
(* Transactions *)

\* Faulty variant: the claim leaves older intents outstanding
ClaimKeepingIntents(w, chosen, age) ==
  /\ lease' = [s \in Slots |-> IF s \in chosen THEN Acquired(lease[s], w, age) ELSE lease[s]]
  /\ outstanding' = outstanding \cup {<<s, lease[s].gen + 1>> : s \in chosen}
  /\ UNCHANGED <<attached, inbox>>

\* claimCandidates: all slots of the batch in one transaction; each claim
\* supersedes the slot's outstanding intents and writes its own.
ClaimAll(w, chosen, age) ==
  /\ lease' = [s \in Slots |-> IF s \in chosen THEN Acquired(lease[s], w, age) ELSE lease[s]]
  /\ outstanding' = {j \in outstanding : j[1] \notin chosen}
                      \cup {<<s, lease[s].gen + 1>> : s \in chosen}
  /\ UNCHANGED <<attached, inbox>>

RenewLease(s, age) ==
  /\ lease' = [lease EXCEPT ![s] = Renewed(@, age)]
  /\ UNCHANGED <<outstanding, attached, inbox>>

\* A refused release changes nothing.
ReleaseLease(s, g, token, w) ==
  /\ lease' = IF Releasable(lease[s], g, token, w)
                THEN [lease EXCEPT ![s].status = "released"] ELSE lease
  /\ UNCHANGED <<outstanding, attached, inbox>>

\* Whoever holds the slot, and whichever generation it is in.
RevokeLease(s) ==
  /\ lease' = IF lease[s].status = "leased"
                THEN [lease EXCEPT ![s].status = "revoked"] ELSE lease
  /\ UNCHANGED <<outstanding, attached, inbox>>

MarkDelivered(j) ==
  /\ outstanding' = outstanding \ {j}
  /\ UNCHANGED <<lease, attached, inbox>>
AttachHandle(j) ==
  /\ attached' = attached \cup {j}
  /\ UNCHANGED <<lease, outstanding, inbox>>

----------------------------------------------------------------------------
(* Results *)

Result(j, kind, token) == [job |-> j, kind |-> kind, token |-> token]
Results == [job : Jobs, kind : Kinds, token : 0..MaxToken]

StartedIn(box, j) == \E r \in box : r.job = j /\ r.kind = "started"
EndedIn(box, j) == \E r \in box : r.job = j /\ r.kind # "started"

\* Faulty variant: the slot has a live lease, whoever has it
AcceptableUnfenced(j, kind, token, age) ==
  LET l == lease[j[1]] IN
  /\ l.left + age > 0
  /\ l.status = "leased" \/ kind = "lease_lost"
  /\ IF kind = "started" THEN ~StartedIn(inbox, j)
       ELSE StartedIn(inbox, j) /\ ~EndedIn(inbox, j)

\* Every check of the accepting function on lease, intent and earlier rows.
Acceptable(j, kind, token, age) ==
  LET l == lease[j[1]] IN
  /\ l.gen = j[2] /\ l.token = token /\ l.left + age > 0
  /\ l.status = "leased" \/ kind = "lease_lost"
  /\ IF kind = "started" THEN ~StartedIn(inbox, j)
       ELSE StartedIn(inbox, j) /\ ~EndedIn(inbox, j)

AcceptResult(j, kind, token) ==
  /\ inbox' = inbox \cup {Result(j, kind, token)}
  /\ UNCHANGED <<lease, outstanding, attached>>

\* Faulty variant: expiry is written to the row (evaluateLeaseExpiry)
ElapseExpiring ==
  /\ lease' = [s \in Slots |->
       [lease[s] EXCEPT !.left = IF @ > -(MaxAge + 1) THEN @ - 1 ELSE @,
                        !.status = IF @ = "leased" /\ lease[s].left < 0 THEN "expired" ELSE @]]
  /\ UNCHANGED <<outstanding, attached, inbox>>

\* The clock moves; what is long past stays past.  The row of a lease that
\* expires is not written.
Elapse ==
  /\ lease' = [s \in Slots |->
       [lease[s] EXCEPT !.left = IF @ > -(MaxAge + 1) THEN @ - 1 ELSE @]]
  /\ UNCHANGED <<outstanding, attached, inbox>>

----------------------------------------------------------------------------

LeasesTypeOK ==
  /\ lease \in [Slots -> [gen : 0..MaxGen, token : 0..MaxToken,
                          holder : Workers \cup {NoWorker},
                          status : {"none", "leased", "released", "revoked"}, left : Int]]
  /\ outstanding \subseteq Jobs
  /\ attached \subseteq Jobs
  /\ inbox \subseteq Results
=============================================================================
