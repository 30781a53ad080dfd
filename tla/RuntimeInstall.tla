--------------------------- MODULE RuntimeInstall ---------------------------
(***************************************************************************)
(* The update of the installed runtime: one setup after the other, each    *)
(* with a transaction directory whose journal says how far it is.  A setup *)
(* first recovers what an earlier one left, then stages, applies, and      *)
(* commits or rolls back.  It may end at any step, also while it writes a  *)
(* journal, and any file operation may fail.                               *)
(*                                                                         *)
(* A file is replaced by a rename, so it has one content or the other; the *)
(* snapshots of a transaction are whole once its journal says "applying".  *)
(***************************************************************************)
EXTENDS Naturals

CONSTANTS
  Files,         \* paths under the installation directory
  Contents,      \* what a file may hold, told apart by its hash
  Absent,        \* no such file
  Packages,      \* what each package puts at each path
  Current,       \* the package that the person goes on installing
  Transactions,  \* names of transaction directories
  NoTransaction,
  MaxFaults      \* failures and ends of the process in a behaviour

ASSUME InstallAssumption ==
  /\ Absent \notin Contents /\ Packages \subseteq [Files -> Contents \cup {Absent}]
  /\ Current \in Packages /\ NoTransaction \notin Transactions /\ MaxFaults \in Nat

VARIABLES
  disk,    \* the files of the installation directory
  owned,   \* runtimeFiles of the ownership manifest
  tx,      \* the transaction directories
  run,     \* the setup that runs
  faults   \* faults so far
vars == <<disk, owned, tx, run, faults>>

Runtime == [Files -> Contents \cup {Absent}]
Statuses == {"none", "preparing", "applying", "committed", "rolled_back", "rollback_failed"}
Stages == {"idle", "recovering", "clearing", "planning", "staging", "applying",
           "rolling", "cleaning", "pruning", "recording"}

\* A journal that cannot be read is one whose writing was cut short; status is
\* then what was being written.
Unused == [status |-> "none", readable |-> TRUE, files |-> {}, old |-> Current, new |-> Current]
Idle == [at |-> "idle", package |-> Current, removals |-> {}, t |-> NoTransaction,
         todo |-> {}, failed |-> {}]

Init ==
  /\ disk \in Packages
  /\ owned = {f \in Files : disk[f] # Absent}
  /\ tx = [t \in Transactions |-> Unused]
  /\ run = Idle
  /\ faults = 0

Unresolved == {t \in Transactions : tx[t].status \in {"applying", "rollback_failed"}}
Pending == {t \in Unresolved : tx[t].readable}
Unreadable == {t \in Transactions : ~tx[t].readable}
Completed == {t \in Transactions :
                tx[t].status \in {"committed", "rolled_back"} /\ tx[t].readable}

At(stage) == run.at = stage
This == tx[run.t]
Fault == faults < MaxFaults /\ faults' = faults + 1
Put(f, content) == disk' = [disk EXCEPT ![f] = content]

\* writeFileSync of a journal: it is written, or the process ends in the middle
\* of it, or it fails and the setup goes on with the error.
WriteJournal(t, record, next, onError) ==
  \/ /\ tx' = [tx EXCEPT ![t] = record]
     /\ run' = next
     /\ UNCHANGED faults
  \/ /\ Fault
     /\ tx' = [tx EXCEPT ![t] = [record EXCEPT !.readable = FALSE]]
     /\ run' = Idle
  \/ /\ Fault
     /\ tx' = tx \/ tx' = [tx EXCEPT ![t].readable = FALSE]
     /\ run' = onError

Status(status) == [This EXCEPT !.status = status, !.readable = TRUE]

----------------------------------------------------------------------------
(* Setup: what is to be done *)

Stale(package) == {f \in owned : package[f] = Absent}

\* Faulty variant: a transaction that was cut short is no reason to set up.
NeededForFiles(package) ==
  \E f \in Files : package[f] # Absent /\ disk[f] # package[f]

Needed(package) ==
  \/ Pending # {}
  \/ \E f \in Files : package[f] # Absent /\ disk[f] # package[f]

\* A journal that cannot be read stops the inspection, unless a pending one is
\* met before it.
Start(package) ==
  /\ At("idle") /\ (Unreadable = {} \/ Pending # {})
  /\ Needed(package) \/ Stale(package) # {}
  /\ run' = [Idle EXCEPT !.at = "recovering", !.package = package,
                         !.removals = {f \in Stale(package) : disk[f] # Absent}]
  /\ UNCHANGED <<disk, owned, tx, faults>>

----------------------------------------------------------------------------
(* recoverRuntimeTransactions *)

Recover(t) ==
  /\ At("recovering") /\ run.t = NoTransaction /\ t \in Pending
  /\ run' = [run EXCEPT !.t = t, !.todo = tx[t].files]
  /\ UNCHANGED <<disk, owned, tx, faults>>

Restore(f) ==
  /\ At("recovering") /\ f \in run.todo
  /\ Put(f, This.old[f])
  /\ run' = [run EXCEPT !.todo = @ \ {f}]
  /\ UNCHANGED <<owned, tx, faults>>

Recovered ==
  /\ At("recovering") /\ run.t # NoTransaction /\ run.todo = {}
  /\ WriteJournal(run.t, Status("rolled_back"), [run EXCEPT !.t = NoTransaction], Idle)
  /\ UNCHANGED <<disk, owned>>

\* A file cannot be restored.  (A journal that cannot be read ends the recovery
\* too, but is never there beside a pending one: Start has met it.)
RecoveryFails ==
  /\ At("recovering") /\ run.todo # {} /\ Fault
  /\ run' = Idle
  /\ UNCHANGED <<disk, owned, tx>>

\* Faulty variant: setup goes on without the recovery.
AllRecoveredUnchecked ==
  /\ At("recovering") /\ run.t = NoTransaction
  /\ run' = [run EXCEPT !.at = "clearing"]
  /\ UNCHANGED <<disk, owned, tx, faults>>

AllRecovered ==
  /\ At("recovering") /\ run.t = NoTransaction /\ Pending = {} /\ Unreadable = {}
  /\ run' = [run EXCEPT !.at = "clearing"]
  /\ UNCHANGED <<disk, owned, tx, faults>>

\* pruneCompletedRuntimeTransactions: what is locked stays, with its journal.
Prune(from, to) ==
  /\ At(from)
  /\ \E locked \in SUBSET Completed :
       tx' = [t \in Transactions |-> IF t \in Completed \ locked THEN Unused ELSE tx[t]]
  /\ run' = IF to = "idle" THEN Idle ELSE [run EXCEPT !.at = to, !.t = NoTransaction]
  /\ UNCHANGED <<disk, owned, faults>>

----------------------------------------------------------------------------
(* installRuntimeTransaction *)

Plan(package, removals) ==
  {f \in Files : disk[f] # package[f] /\ (package[f] # Absent \/ f \in removals)}

NothingToDo ==
  /\ At("planning") /\ Plan(run.package, run.removals) = {}
  /\ run' = [run EXCEPT !.at = "pruning"]
  /\ UNCHANGED <<disk, owned, tx, faults>>

Prepare(t) ==
  LET plan == Plan(run.package, run.removals) IN
  /\ At("planning") /\ plan # {} /\ tx[t] = Unused
  /\ WriteJournal(t, [status |-> "preparing", readable |-> TRUE, files |-> plan,
                      old |-> disk, new |-> run.package],
                  [run EXCEPT !.at = "staging", !.t = t, !.todo = plan], Idle)
  /\ UNCHANGED <<disk, owned>>

RollBack(applied) == [run EXCEPT !.at = "rolling", !.todo = applied]

Stage ==
  /\ At("staging")
  /\ WriteJournal(run.t, Status("applying"), [run EXCEPT !.at = "applying"], RollBack({}))
  /\ UNCHANGED <<disk, owned>>

StageFails ==
  /\ At("staging") /\ Fault
  /\ run' = RollBack({})
  /\ UNCHANGED <<disk, owned, tx>>

Apply(f) ==
  /\ At("applying") /\ f \in run.todo
  /\ Put(f, This.new[f])
  /\ run' = [run EXCEPT !.todo = @ \ {f}]
  /\ UNCHANGED <<owned, tx, faults>>

\* The target is not what it was, or it is locked, or it was replaced and
\* cannot be verified.  A target that was tried is rolled back with the others.
\* Faulty variant: a target counts as applied once it is verified.
AppliedVerified(f, tried) == This.files \ run.todo

Applied(f, tried) == (This.files \ run.todo) \cup IF tried THEN {f} ELSE {}

ApplyFails(f, tried, done) ==
  /\ At("applying") /\ f \in run.todo /\ (done => tried) /\ Fault
  /\ Put(f, IF done THEN This.new[f] ELSE disk[f])
  /\ run' = RollBack(Applied(f, tried))
  /\ UNCHANGED <<owned, tx>>

Commit ==
  /\ At("applying") /\ run.todo = {}
  /\ WriteJournal(run.t, Status("committed"), [run EXCEPT !.at = "pruning"], RollBack(This.files))
  /\ UNCHANGED <<disk, owned>>

Undo(f) ==
  /\ At("rolling") /\ f \in run.todo
  /\ Put(f, This.old[f])
  /\ run' = [run EXCEPT !.todo = @ \ {f}]
  /\ UNCHANGED <<owned, tx, faults>>

UndoFails(f) ==
  /\ At("rolling") /\ f \in run.todo /\ Fault
  /\ UNCHANGED disk \/ Put(f, This.old[f])
  /\ run' = [run EXCEPT !.todo = @ \ {f}, !.failed = @ \cup {f}]
  /\ UNCHANGED <<owned, tx>>

RolledBack ==
  /\ At("rolling") /\ run.todo = {}
  /\ IF run.failed = {}
       THEN WriteJournal(run.t, Status("rolled_back"), [run EXCEPT !.at = "cleaning"], Idle)
       ELSE WriteJournal(run.t, Status("rollback_failed"), Idle, Idle)
  /\ UNCHANGED <<disk, owned>>

----------------------------------------------------------------------------
(* The manifest, and the end of the process *)

Record ==
  /\ At("recording")
  /\ owned' = {f \in Files : run.package[f] # Absent}
  /\ run' = Idle
  /\ UNCHANGED <<disk, tx, faults>>

Crash ==
  /\ ~At("idle") /\ Fault
  /\ run' = Idle
  /\ UNCHANGED <<disk, owned, tx>>

----------------------------------------------------------------------------
Setup ==
  \/ \E t \in Transactions : Recover(t) \/ Prepare(t)
  \/ \E f \in Files :
       \/ Restore(f) \/ Apply(f) \/ Undo(f) \/ UndoFails(f)
       \/ \E tried, done \in BOOLEAN : ApplyFails(f, tried, done)
  \/ Recovered \/ RecoveryFails \/ AllRecovered
  \/ Prune("clearing", "planning") \/ Prune("pruning", "recording") \/ Prune("cleaning", "idle")
  \/ NothingToDo \/ Stage \/ StageFails \/ Commit \/ RolledBack \/ Record

Next == Crash \/ Setup \/ \E package \in Packages : Start(package)

Spec == Init /\ [][Next]_vars

\* A setup that runs comes to its end, and the person runs it again as long as
\* it finds something to do.
FairSpec == Spec /\ WF_vars(Setup) /\ WF_vars(Start(Current))

----------------------------------------------------------------------------
(* Properties *)

Journals == [status : Statuses, readable : BOOLEAN, files : SUBSET Files,
             old : Runtime, new : Runtime]
Runs == [at : Stages, package : Packages, removals : SUBSET Files,
         t : Transactions \cup {NoTransaction}, todo : SUBSET Files, failed : SUBSET Files]

\* The types; and no two transactions are unresolved at once, so that their
\* snapshots cannot contradict each other.
InstallTypeOK ==
  /\ disk \in Runtime /\ owned \subseteq Files
  /\ tx \in [Transactions -> Journals]
  /\ \A t, u \in Unresolved : t = u
  /\ run \in Runs
  /\ faults \in 0..MaxFaults

\* What the directory and the snapshots stand for together: the files of a
\* transaction that was begun and is not over stand as they were before it.
Standing ==
  [f \in Files |->
     IF \E t \in Unresolved : f \in tx[t].files
       THEN tx[CHOOSE t \in Unresolved : f \in tx[t].files].old[f]
       ELSE disk[f]]

\* However a setup ends, and however the next ones go on, the runtime changes
\* from package to package as a whole: no mixture of two is ever left without
\* the snapshots and the journal that undo it.
Whole == INSTANCE WholeRuntime WITH runtime <- Standing
ImplementsWholeRuntime == Whole!WholeSpec

\* A transaction that was cut short is resolved, unless its journal cannot be
\* read: then it is kept for inspection.
PendingResolved ==
  Unresolved # {} ~> (Unresolved = {} \/ Unreadable # {})

----------------------------------------------------------------------------
(* What the documentation says and the code does not do *)

\* "M9R keeps only the active install at its canonical paths after a successful
\* update."
NothingLeftBehind == [][Record => disk = run.package]_vars
=============================================================================
