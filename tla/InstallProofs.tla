--------------------------- MODULE InstallProofs ---------------------------
(***************************************************************************)
(* The update of the runtime for every value of the constants.             *)
(*                                                                         *)
(* What the directory stands for is read off the one transaction that may  *)
(* be unresolved.  The invariant says, stage by stage, how far the files   *)
(* are from the snapshots of the transaction that the setup works on, so   *)
(* that a journal may change its status exactly where the two agree.       *)
(***************************************************************************)
EXTENDS RuntimeInstall, TLAPS

\* The setup has a transaction, and its files that are not left to do are done.
Working(left) == run.t \in Transactions /\ left \subseteq This.files

AsBefore(files) == \A f \in files : disk[f] = This.old[f]
AsPackaged(files) == \A f \in files : disk[f] = This.new[f]

\* Outside the plan the package has nothing to change.
PlanCovers ==
  /\ This.new = run.package
  /\ \A f \in Files \ This.files : run.package[f] # Absent => disk[f] = run.package[f]

RecoveringInv ==
  At("recovering") /\ run.t # NoTransaction =>
    /\ Working(run.todo) /\ run.t \in Unresolved
    /\ AsBefore(This.files \ run.todo)

ResolvedInv == run.at \in {"clearing", "planning", "staging"} => Unresolved = {}

StagingInv ==
  At("staging") =>
    Working(run.todo) /\ run.todo = This.files /\ AsBefore(This.files) /\ PlanCovers

ApplyingInv ==
  At("applying") =>
    /\ Working(run.todo) /\ run.t \in Unresolved /\ PlanCovers
    /\ AsBefore(run.todo) /\ AsPackaged(This.files \ run.todo)

RollingInv ==
  At("rolling") =>
    /\ Working(run.todo \cup run.failed) /\ Unresolved \subseteq {run.t}
    /\ run.todo \cup run.failed # {} => run.t \in Unresolved
    /\ AsBefore(This.files \ (run.todo \cup run.failed))

RunInv ==
  /\ run.t = NoTransaction => run.todo = {}
  /\ run.at \in {"clearing", "planning", "pruning", "cleaning", "recording"} => run.todo = {}
  /\ ~At("rolling") => run.failed = {}

IInv ==
  /\ InstallTypeOK /\ RunInv /\ RecoveringInv /\ ResolvedInv
  /\ StagingInv /\ ApplyingInv /\ RollingInv

\* A step of the promise, or none.
WholeStep ==
  Standing' = Standing \/ \E package \in Packages : Whole!Switch(package)

----------------------------------------------------------------------------
(* What the directory stands for *)

UnresolvedIn(s) == {t \in Transactions : s[t].status \in {"applying", "rollback_failed"}}

StandsFor(s, d) ==
  [f \in Files |->
     IF \E t \in UnresolvedIn(s) : f \in s[t].files
       THEN s[CHOOSE t \in UnresolvedIn(s) : f \in s[t].files].old[f]
       ELSE d[f]]

LEMMA StandingIs == Standing = StandsFor(tx, disk) /\ Standing' = StandsFor(tx', disk')
BY DEF Standing, StandsFor, UnresolvedIn, Unresolved

Sole(s, t) == UnresolvedIn(s) = {t}
NoneIn(s) == UnresolvedIn(s) = {}

LEMMA ResolvedStands ==
  ASSUME NEW s, NEW d, NoneIn(s)
  PROVE  \A f \in Files : StandsFor(s, d)[f] = d[f]
BY DEF StandsFor, NoneIn

LEMMA UnresolvedStands ==
  ASSUME NEW s, NEW d, NEW t, Sole(s, t)
  PROVE  \A f \in Files :
           /\ f \in s[t].files => StandsFor(s, d)[f] = s[t].old[f]
           /\ f \notin s[t].files => StandsFor(s, d)[f] = d[f]
<1> SUFFICES ASSUME NEW f \in Files
             PROVE  /\ f \in s[t].files => StandsFor(s, d)[f] = s[t].old[f]
                    /\ f \notin s[t].files => StandsFor(s, d)[f] = d[f]
  OBVIOUS
<1>1. f \in s[t].files => (CHOOSE u \in UnresolvedIn(s) : f \in s[u].files) = t
  BY DEF Sole
<1> QED
  BY <1>1 DEF StandsFor, Sole

\* Where the snapshots stand for the files, the files themselves do not show.
LEMMA MaskedStands ==
  ASSUME NEW s, NEW t, NEW d, NEW e, Sole(s, t),
         \A f \in Files \ s[t].files : d[f] = e[f]
  PROVE  StandsFor(s, d) = StandsFor(s, e)
<1>1. ASSUME NEW f \in Files PROVE StandsFor(s, d)[f] = StandsFor(s, e)[f]
  <2>1. /\ f \in s[t].files => StandsFor(s, d)[f] = s[t].old[f]
        /\ f \notin s[t].files => StandsFor(s, d)[f] = d[f]
    BY UnresolvedStands
  <2>2. /\ f \in s[t].files => StandsFor(s, e)[f] = s[t].old[f]
        /\ f \notin s[t].files => StandsFor(s, e)[f] = e[f]
    BY UnresolvedStands
  <2> QED
    BY <2>1, <2>2
<1> QED
  BY <1>1 DEF StandsFor

----------------------------------------------------------------------------
(* Journals *)

Alike(r, q) == r.status = q.status /\ r.files = q.files /\ r.old = q.old /\ r.new = q.new

\* However the writing of a journal ends, the transaction is as one of the two
\* records says, up to whether it can be read.
LEMMA JournalWritten ==
  ASSUME InstallTypeOK, NEW t \in Transactions, NEW record \in Journals,
         NEW next, NEW onError, WriteJournal(t, record, next, onError)
  PROVE  \E r \in Journals :
           /\ tx' = [tx EXCEPT ![t] = r] /\ faults' \in 0..MaxFaults
           /\ \/ Alike(r, record) /\ run' \in {next, Idle}
              \/ Alike(r, tx[t]) /\ run' = onError
<1>1. tx \in [Transactions -> Journals] /\ faults \in 0..MaxFaults /\ MaxFaults \in Nat
  BY InstallAssumption DEF InstallTypeOK, Runs
<1>2. CASE tx' = [tx EXCEPT ![t] = record] /\ run' = next /\ UNCHANGED faults
  BY <1>1, <1>2 DEF Alike
<1>3. CASE Fault /\ tx' = [tx EXCEPT ![t] = [record EXCEPT !.readable = FALSE]] /\ run' = Idle
  <2> DEFINE r == [record EXCEPT !.readable = FALSE]
  <2>1. r \in Journals /\ Alike(r, record)
    BY DEF Alike, Journals
  <2>2. faults' \in 0..MaxFaults
    BY <1>1, <1>3 DEF Fault
  <2> QED
    BY <1>3, <2>1, <2>2
<1>4. CASE Fault /\ tx' = tx /\ run' = onError
  <2>1. tx' = [tx EXCEPT ![t] = tx[t]] /\ tx[t] \in Journals /\ Alike(tx[t], tx[t])
    BY <1>1, <1>4 DEF Alike
  <2>2. faults' \in 0..MaxFaults
    BY <1>1, <1>4 DEF Fault
  <2> QED
    BY <1>4, <2>1, <2>2
<1>5. CASE Fault /\ tx' = [tx EXCEPT ![t].readable = FALSE] /\ run' = onError
  <2> DEFINE r == [tx[t] EXCEPT !.readable = FALSE]
  <2>1. r \in Journals /\ Alike(r, tx[t])
    BY <1>1 DEF Alike, Journals
  <2>2. faults' \in 0..MaxFaults
    BY <1>1, <1>5 DEF Fault
  <2> QED
    BY <1>5, <2>1, <2>2
<1> QED
  BY <1>2, <1>3, <1>4, <1>5 DEF WriteJournal

----------------------------------------------------------------------------
(* Steps that change neither the files nor the journals *)

LEMMA StartKeeps ==
  ASSUME IInv, NEW package \in Packages, Start(package)
  PROVE  IInv' /\ WholeStep
<1>1. /\ run' = [Idle EXCEPT !.at = "recovering", !.package = package,
                             !.removals = {f \in Stale(package) : disk[f] # Absent}]
      /\ UNCHANGED <<disk, owned, tx, faults>>
  BY DEF Start
<1>2. InstallTypeOK'
  BY <1>1 DEF IInv, InstallTypeOK, Runs, Idle, Stale, Stages, Unresolved
<1>3. RunInv' /\ RecoveringInv' /\ ResolvedInv' /\ StagingInv' /\ ApplyingInv' /\ RollingInv'
  BY <1>1 DEF RunInv, RecoveringInv, ResolvedInv, StagingInv, ApplyingInv, RollingInv, At, Idle
<1> QED
  BY <1>1, <1>2, <1>3 DEF IInv, WholeStep, Standing, Unresolved

LEMMA RecoverKeeps ==
  ASSUME IInv, NEW t \in Transactions, Recover(t)
  PROVE  IInv' /\ WholeStep
<1>1. /\ At("recovering") /\ t \in Unresolved
      /\ run' = [run EXCEPT !.t = t, !.todo = tx[t].files]
      /\ UNCHANGED <<disk, owned, tx, faults>>
  BY DEF Recover, Pending
<1>2. InstallTypeOK'
  BY <1>1 DEF IInv, InstallTypeOK, Runs, Journals, Unresolved
<1>3. RunInv' /\ RecoveringInv' /\ ResolvedInv' /\ StagingInv' /\ ApplyingInv' /\ RollingInv'
  <2>1. /\ run'.at = "recovering" /\ run'.t = t /\ run'.todo = tx[t].files
        /\ run'.failed = run.failed
    BY <1>1 DEF IInv, InstallTypeOK, Runs, At
  <2> QED
    BY <1>1, <2>1, InstallAssumption
    DEF IInv, RunInv, RecoveringInv, ResolvedInv, StagingInv, ApplyingInv, RollingInv, At,
        Working, AsBefore, This, Unresolved
<1> QED
  BY <1>1, <1>2, <1>3 DEF IInv, WholeStep, Standing, Unresolved

LEMMA AllRecoveredKeeps ==
  ASSUME IInv, AllRecovered
  PROVE  IInv' /\ WholeStep
<1>1. /\ At("recovering") /\ run.t = NoTransaction /\ Unresolved = {}
      /\ run' = [run EXCEPT !.at = "clearing"]
      /\ UNCHANGED <<disk, owned, tx, faults>>
  BY DEF AllRecovered, Pending, Unreadable, Unresolved
<1>2. InstallTypeOK'
  BY <1>1 DEF IInv, InstallTypeOK, Runs, Stages, Unresolved
<1>3. RunInv' /\ RecoveringInv' /\ ResolvedInv' /\ StagingInv' /\ ApplyingInv' /\ RollingInv'
  <2>1. /\ run'.at = "clearing" /\ run'.t = run.t /\ run'.todo = run.todo
        /\ run'.failed = run.failed
    BY <1>1 DEF IInv, InstallTypeOK, Runs, At
  <2> QED
    BY <1>1, <2>1
    DEF IInv, RunInv, RecoveringInv, ResolvedInv, StagingInv, ApplyingInv, RollingInv, At,
        Unresolved
<1> QED
  BY <1>1, <1>2, <1>3 DEF IInv, WholeStep, Standing, Unresolved

LEMMA NothingToDoKeeps ==
  ASSUME IInv, NothingToDo
  PROVE  IInv' /\ WholeStep
<1>1. /\ At("planning") /\ run' = [run EXCEPT !.at = "pruning"]
      /\ UNCHANGED <<disk, owned, tx, faults>>
  BY DEF NothingToDo
<1>2. InstallTypeOK'
  BY <1>1 DEF IInv, InstallTypeOK, Runs, Stages, Unresolved
<1>3. RunInv' /\ RecoveringInv' /\ ResolvedInv' /\ StagingInv' /\ ApplyingInv' /\ RollingInv'
  <2>1. /\ run'.at = "pruning" /\ run'.t = run.t /\ run'.todo = run.todo
        /\ run'.failed = run.failed
    BY <1>1 DEF IInv, InstallTypeOK, Runs, At
  <2> QED
    BY <1>1, <2>1
    DEF IInv, RunInv, RecoveringInv, ResolvedInv, StagingInv, ApplyingInv, RollingInv, At
<1> QED
  BY <1>1, <1>2, <1>3 DEF IInv, WholeStep, Standing, Unresolved

\* A setup that ends where it is, by a failure or at its end.
LEMMA EndsKeep ==
  ASSUME IInv, run' = Idle, disk' = disk, tx' = tx, owned' \subseteq Files, faults' \in 0..MaxFaults
  PROVE  IInv' /\ WholeStep
<1>1. InstallTypeOK'
  BY InstallAssumption DEF IInv, InstallTypeOK, Runs, Idle, Stages, Unresolved
<1>2. RunInv' /\ RecoveringInv' /\ ResolvedInv' /\ StagingInv' /\ ApplyingInv' /\ RollingInv'
  BY DEF RunInv, RecoveringInv, ResolvedInv, StagingInv, ApplyingInv, RollingInv, At, Idle
<1> QED
  BY <1>1, <1>2 DEF IInv, WholeStep, Standing, Unresolved

LEMMA FaultBounded == ASSUME IInv, Fault PROVE faults' \in 0..MaxFaults
BY InstallAssumption DEF IInv, InstallTypeOK, Runs, Fault

LEMMA CrashKeeps ==
  ASSUME IInv, Crash \/ RecoveryFails \/ Record
  PROVE  IInv' /\ WholeStep
<1>1. run' = Idle /\ disk' = disk /\ tx' = tx /\ owned' \subseteq Files
  BY DEF Crash, RecoveryFails, Record, IInv, InstallTypeOK, Runs
<1>2. faults' \in 0..MaxFaults
  BY FaultBounded DEF Crash, RecoveryFails, Record, IInv, InstallTypeOK, Runs
<1> QED
  BY <1>1, <1>2, EndsKeep

LEMMA StageFailsKeeps ==
  ASSUME IInv, StageFails
  PROVE  IInv' /\ WholeStep
<1>1. /\ At("staging") /\ run' = [run EXCEPT !.at = "rolling", !.todo = {}]
      /\ UNCHANGED <<disk, owned, tx>> /\ faults' \in 0..MaxFaults
  BY FaultBounded DEF StageFails, RollBack
<1>2. InstallTypeOK'
  BY <1>1 DEF IInv, InstallTypeOK, Runs, Stages, Unresolved
<1>3. RunInv' /\ RecoveringInv' /\ ResolvedInv' /\ StagingInv' /\ ApplyingInv' /\ RollingInv'
  <2>1. /\ run'.at = "rolling" /\ run'.t = run.t /\ run'.todo = {} /\ run'.failed = {}
    BY <1>1 DEF IInv, InstallTypeOK, Runs, At, RunInv
  <2> QED
    BY <1>1, <2>1
    DEF IInv, RunInv, RecoveringInv, ResolvedInv, StagingInv, ApplyingInv, RollingInv, At,
        Working, AsBefore, This, Unresolved
<1> QED
  BY <1>1, <1>2, <1>3 DEF IInv, WholeStep, Standing, Unresolved

----------------------------------------------------------------------------
(* Steps that change a file of the unresolved transaction *)

LEMMA MaskedPut ==
  ASSUME IInv, run.t \in Unresolved, NEW f \in This.files, NEW content \in Contents \cup {Absent},
         disk' = [disk EXCEPT ![f] = content], tx' = tx
  PROVE  /\ disk' \in Runtime /\ Standing' = Standing
         /\ disk'[f] = content /\ \A g \in Files \ {f} : disk'[g] = disk[g]
<1>1. Sole(tx, run.t) /\ f \in Files /\ disk \in Runtime
  BY DEF IInv, InstallTypeOK, Unresolved, UnresolvedIn, Sole, This, Journals
<1>2. /\ disk' \in Runtime /\ disk'[f] = content
      /\ \A g \in Files \ {f} : disk'[g] = disk[g]
  BY <1>1 DEF Runtime
<1>3. StandsFor(tx, disk) = StandsFor(tx, disk')
  <2>1. ASSUME NEW e, \A g \in Files \ tx[run.t].files : disk[g] = e[g]
        PROVE  StandsFor(tx, disk) = StandsFor(tx, e)
    BY <1>1, <2>1, MaskedStands
  <2>2. \A g \in Files \ tx[run.t].files : disk[g] = (disk')[g]
    BY <1>2 DEF This
  <2> QED
    BY <2>1, <2>2
<1> QED
  BY <1>2, <1>3, StandingIs

LEMMA SnapshotTypes ==
  ASSUME IInv, run.t \in Transactions, NEW f \in This.files
  PROVE  f \in Files /\ This.old[f] \in Contents \cup {Absent}
                     /\ This.new[f] \in Contents \cup {Absent}
BY DEF IInv, InstallTypeOK, Runs, Journals, Runtime, This

LEMMA RestoreKeeps ==
  ASSUME IInv, NEW f \in Files, Restore(f)
  PROVE  IInv' /\ WholeStep
<1>1. /\ At("recovering") /\ run.t # NoTransaction /\ f \in run.todo
      /\ disk' = [disk EXCEPT ![f] = This.old[f]]
      /\ run' = [run EXCEPT !.todo = run.todo \ {f}]
      /\ UNCHANGED <<owned, tx, faults>>
  BY DEF Restore, Put, IInv, RunInv
<1>2. /\ run.t \in Unresolved /\ run.t \in Transactions /\ f \in This.files
      /\ run.todo \subseteq This.files /\ AsBefore(This.files \ run.todo)
  BY <1>1 DEF IInv, RecoveringInv, Working
<1>3. /\ disk' \in Runtime /\ Standing' = Standing
      /\ disk'[f] = This.old[f] /\ \A g \in Files \ {f} : disk'[g] = disk[g]
  BY <1>1, <1>2, MaskedPut, SnapshotTypes
<1>4. InstallTypeOK'
  BY <1>1, <1>3 DEF IInv, InstallTypeOK, Runs, Unresolved
<1>5. RunInv' /\ RecoveringInv' /\ ResolvedInv' /\ StagingInv' /\ ApplyingInv' /\ RollingInv'
  <2>1. /\ run'.at = "recovering" /\ run'.t = run.t /\ run'.todo = run.todo \ {f}
        /\ run'.failed = run.failed
    BY <1>1 DEF IInv, InstallTypeOK, Runs, At
  <2>2. This.files \subseteq Files /\ run.failed = {}
    BY <1>1, <1>2 DEF IInv, InstallTypeOK, Runs, Journals, This, RunInv, At
  <2>3. RecoveringInv'
    BY <1>1, <1>2, <1>3, <2>1, <2>2 DEF RecoveringInv, At, Working, AsBefore, This, Unresolved
  <2> QED
    BY <1>1, <2>1, <2>2, <2>3 DEF RunInv, ResolvedInv, StagingInv, ApplyingInv, RollingInv, At
<1> QED
  BY <1>3, <1>4, <1>5 DEF IInv, WholeStep

LEMMA ApplyKeeps ==
  ASSUME IInv, NEW f \in Files, Apply(f)
  PROVE  IInv' /\ WholeStep
<1>1. /\ At("applying") /\ f \in run.todo
      /\ disk' = [disk EXCEPT ![f] = This.new[f]]
      /\ run' = [run EXCEPT !.todo = run.todo \ {f}]
      /\ UNCHANGED <<owned, tx, faults>>
  BY DEF Apply, Put
<1>2. /\ run.t \in Unresolved /\ run.t \in Transactions /\ f \in This.files
      /\ run.todo \subseteq This.files /\ PlanCovers
      /\ AsBefore(run.todo) /\ AsPackaged(This.files \ run.todo)
  BY <1>1 DEF IInv, ApplyingInv, Working
<1>3. /\ disk' \in Runtime /\ Standing' = Standing
      /\ disk'[f] = This.new[f] /\ \A g \in Files \ {f} : disk'[g] = disk[g]
  BY <1>1, <1>2, MaskedPut, SnapshotTypes
<1>4. InstallTypeOK'
  BY <1>1, <1>3 DEF IInv, InstallTypeOK, Runs, Unresolved
<1>5. RunInv' /\ RecoveringInv' /\ ResolvedInv' /\ StagingInv' /\ ApplyingInv' /\ RollingInv'
  <2>1. /\ run'.at = "applying" /\ run'.t = run.t /\ run'.todo = run.todo \ {f}
        /\ run'.failed = run.failed /\ run'.package = run.package
    BY <1>1 DEF IInv, InstallTypeOK, Runs, At
  <2>2. This.files \subseteq Files /\ run.failed = {} /\ run.t # NoTransaction
    BY <1>1, <1>2, InstallAssumption DEF IInv, InstallTypeOK, Runs, Journals, This, RunInv, At
  <2>3. ApplyingInv'
    BY <1>1, <1>2, <1>3, <2>1, <2>2
    DEF ApplyingInv, At, Working, AsBefore, AsPackaged, PlanCovers, This, Unresolved
  <2> QED
    BY <1>1, <2>1, <2>2, <2>3 DEF RunInv, RecoveringInv, ResolvedInv, StagingInv, RollingInv, At
<1> QED
  BY <1>3, <1>4, <1>5 DEF IInv, WholeStep

LEMMA ApplyFailsKeeps ==
  ASSUME IInv, NEW f \in Files, NEW tried \in BOOLEAN, NEW done \in BOOLEAN,
         ApplyFails(f, tried, done)
  PROVE  IInv' /\ WholeStep
<1> DEFINE applied == Applied(f, tried)
<1>1. /\ At("applying") /\ f \in run.todo /\ (done => tried)
      /\ disk' = [disk EXCEPT ![f] = IF done THEN This.new[f] ELSE disk[f]]
      /\ run' = [run EXCEPT !.at = "rolling", !.todo = applied]
      /\ UNCHANGED <<owned, tx>> /\ faults' \in 0..MaxFaults
  BY FaultBounded DEF ApplyFails, Put, RollBack
<1>2. /\ run.t \in Unresolved /\ run.t \in Transactions /\ f \in This.files
      /\ run.todo \subseteq This.files /\ AsBefore(run.todo)
  BY <1>1 DEF IInv, ApplyingInv, Working
<1>3. disk[f] \in Contents \cup {Absent} /\ This.files \subseteq Files
  BY <1>2 DEF IInv, InstallTypeOK, Runs, Runtime, Journals, This
<1>4. /\ disk' \in Runtime /\ Standing' = Standing
      /\ disk'[f] = (IF done THEN This.new[f] ELSE disk[f])
      /\ \A g \in Files \ {f} : disk'[g] = disk[g]
  BY <1>1, <1>2, <1>3, MaskedPut, SnapshotTypes
<1>5. /\ applied \subseteq This.files
      /\ \A g \in This.files \ applied : g \in run.todo /\ (g = f => ~done)
  BY <1>1, <1>2 DEF Applied
<1>6. InstallTypeOK'
  BY <1>1, <1>3, <1>4, <1>5 DEF IInv, InstallTypeOK, Runs, Stages, Unresolved
<1>7. RunInv' /\ RecoveringInv' /\ ResolvedInv' /\ StagingInv' /\ ApplyingInv' /\ RollingInv'
  <2>1. /\ run'.at = "rolling" /\ run'.t = run.t /\ run'.todo = applied /\ run'.failed = {}
    BY <1>1 DEF IInv, InstallTypeOK, Runs, RunInv, At
  <2>2. run.t # NoTransaction /\ Unresolved \subseteq {run.t}
    BY <1>2, InstallAssumption DEF IInv, InstallTypeOK, Runs
  <2>3. \A g \in This.files \ applied : disk'[g] = This.old[g]
    <3> SUFFICES ASSUME NEW g \in This.files \ applied PROVE disk'[g] = This.old[g]
      OBVIOUS
    <3> QED
      BY <1>2, <1>3, <1>4, <1>5 DEF AsBefore
  <2>4. RollingInv'
    BY <1>1, <1>2, <1>5, <2>1, <2>2, <2>3 DEF RollingInv, At, Working, AsBefore, This, Unresolved
  <2> QED
    BY <1>1, <2>1, <2>2, <2>4 DEF RunInv, RecoveringInv, ResolvedInv, StagingInv, ApplyingInv, At
<1> QED
  BY <1>4, <1>6, <1>7 DEF IInv, WholeStep

LEMMA UndoKeeps ==
  ASSUME IInv, NEW f \in Files, Undo(f) \/ UndoFails(f)
  PROVE  IInv' /\ WholeStep
<1>1. /\ At("rolling") /\ f \in run.todo /\ run'.todo = run.todo \ {f}
      /\ run' \in Runs /\ run'.at = "rolling" /\ run'.t = run.t
      /\ UNCHANGED <<owned, tx>> /\ faults' \in 0..MaxFaults
  <2>1. faults' \in 0..MaxFaults
    BY FaultBounded DEF Undo, UndoFails, IInv, InstallTypeOK, Runs
  <2>2. CASE Undo(f)
    BY <2>1, <2>2 DEF Undo, IInv, InstallTypeOK, Runs, At
  <2>3. CASE UndoFails(f)
    BY <2>1, <2>3 DEF UndoFails, IInv, InstallTypeOK, Runs, At
  <2> QED
    BY <2>2, <2>3
<1>2. \/ disk' = [disk EXCEPT ![f] = This.old[f]] /\ run'.failed \in {run.failed, run.failed \cup {f}}
      \/ disk' = disk /\ run'.failed = run.failed \cup {f}
  BY DEF Undo, UndoFails, Put, IInv, InstallTypeOK, Runs
<1>3. /\ run.t \in Unresolved /\ run.t \in Transactions /\ f \in This.files
      /\ run.todo \cup run.failed \subseteq This.files /\ Unresolved \subseteq {run.t}
      /\ AsBefore(This.files \ (run.todo \cup run.failed))
      /\ run.t # NoTransaction /\ This.files \subseteq Files
  BY <1>1, InstallAssumption DEF IInv, RollingInv, Working, InstallTypeOK, Runs, Journals, This
<1>4. /\ disk' \in Runtime /\ Standing' = Standing /\ \A g \in Files \ {f} : disk'[g] = disk[g]
      /\ f \in run'.failed \/ disk'[f] = This.old[f]
  <2>1. CASE disk' = [disk EXCEPT ![f] = This.old[f]]
    BY <1>1, <1>3, <2>1, MaskedPut, SnapshotTypes
  <2>2. CASE disk' = disk /\ run'.failed = run.failed \cup {f}
    BY <1>1, <2>2 DEF Standing, Unresolved, IInv, InstallTypeOK, Runs
  <2> QED
    BY <1>2, <2>1, <2>2
<1>5. InstallTypeOK'
  BY <1>1, <1>4 DEF IInv, InstallTypeOK, Runs, Unresolved
<1>6. RollingInv'
  BY <1>1, <1>2, <1>3, <1>4 DEF RollingInv, At, Working, AsBefore, This, Unresolved
<1>7. RunInv' /\ RecoveringInv' /\ ResolvedInv' /\ StagingInv' /\ ApplyingInv'
  BY <1>1, <1>3 DEF RunInv, RecoveringInv, ResolvedInv, StagingInv, ApplyingInv, At
<1> QED
  BY <1>4, <1>5, <1>6, <1>7 DEF IInv, WholeStep

----------------------------------------------------------------------------
(* Steps that write a journal or remove some *)

\* A transaction may be resolved, or become unresolved, where its files are as
\* they were before it.
LEMMA SettledStands ==
  ASSUME NEW s, NEW u, NEW t, NEW d, Sole(s, t), NoneIn(u),
         \A f \in Files : f \in s[t].files => d[f] = s[t].old[f]
  PROVE  StandsFor(s, d) = StandsFor(u, d)
<1>1. ASSUME NEW f \in Files PROVE StandsFor(s, d)[f] = StandsFor(u, d)[f]
  <2>1. /\ f \in s[t].files => StandsFor(s, d)[f] = s[t].old[f]
        /\ f \notin s[t].files => StandsFor(s, d)[f] = d[f]
    BY UnresolvedStands
  <2>2. StandsFor(u, d)[f] = d[f]
    BY ResolvedStands
  <2> QED
    BY <2>1, <2>2
<1> QED
  BY <1>1 DEF StandsFor

LEMMA ResolvedTwice ==
  ASSUME NEW s, NEW u, NEW d, NoneIn(s), NoneIn(u)
  PROVE  StandsFor(s, d) = StandsFor(u, d)
BY DEF StandsFor, NoneIn

LEMMA UnresolvedTwice ==
  ASSUME NEW s, NEW u, NEW t, NEW d, Sole(s, t), Sole(u, t),
         s[t].files = u[t].files, s[t].old = u[t].old
  PROVE  StandsFor(s, d) = StandsFor(u, d)
<1>1. ASSUME NEW f \in Files PROVE StandsFor(s, d)[f] = StandsFor(u, d)[f]
  <2>1. /\ f \in s[t].files => StandsFor(s, d)[f] = s[t].old[f]
        /\ f \notin s[t].files => StandsFor(s, d)[f] = d[f]
    BY UnresolvedStands
  <2>2. /\ f \in u[t].files => StandsFor(u, d)[f] = u[t].old[f]
        /\ f \notin u[t].files => StandsFor(u, d)[f] = d[f]
    BY UnresolvedStands
  <2> QED
    BY <2>1, <2>2
<1> QED
  BY <1>1 DEF StandsFor

LEMMA JournalEffect ==
  ASSUME IInv, NEW t \in Transactions, NEW r \in Journals, tx' = [tx EXCEPT ![t] = r],
         UNCHANGED <<disk, owned>>, faults' \in 0..MaxFaults, run' \in Runs
  PROVE  /\ tx'[t] = r
         /\ UnresolvedIn(tx') = IF r.status \in {"applying", "rollback_failed"}
                                  THEN UnresolvedIn(tx) \cup {t} ELSE UnresolvedIn(tx) \ {t}
         /\ (UnresolvedIn(tx') \subseteq {t}) => InstallTypeOK'
<1>1. tx \in [Transactions -> Journals]
  BY DEF IInv, InstallTypeOK
<1>2. tx' \in [Transactions -> Journals] /\ tx'[t] = r
  BY <1>1
<1>3. UnresolvedIn(tx') = IF r.status \in {"applying", "rollback_failed"}
                            THEN UnresolvedIn(tx) \cup {t} ELSE UnresolvedIn(tx) \ {t}
  BY <1>1 DEF UnresolvedIn
<1>4. Unresolved' = UnresolvedIn(tx')
  BY DEF Unresolved, UnresolvedIn
<1> QED
  BY <1>2, <1>3, <1>4 DEF IInv, InstallTypeOK

LEMMA UnresolvedIs == Unresolved = UnresolvedIn(tx)
BY DEF Unresolved, UnresolvedIn

LEMMA RecoveredKeeps ==
  ASSUME IInv, Recovered
  PROVE  IInv' /\ WholeStep
<1>1. /\ At("recovering") /\ run.t # NoTransaction /\ run.todo = {}
      /\ WriteJournal(run.t, Status("rolled_back"), [run EXCEPT !.t = NoTransaction], Idle)
      /\ UNCHANGED <<disk, owned>>
  BY DEF Recovered
<1>2. /\ run.t \in Transactions /\ Sole(tx, run.t) /\ AsBefore(This.files)
      /\ run \in Runs /\ run.failed = {} /\ Idle \in Runs
      /\ [run EXCEPT !.t = NoTransaction] \in Runs
  <2>1. run.t \in Unresolved /\ run.t \in Transactions /\ AsBefore(This.files)
    BY <1>1 DEF IInv, RecoveringInv, Working
  <2> QED
    BY <1>1, <2>1, UnresolvedIs, InstallAssumption
    DEF IInv, InstallTypeOK, RunInv, Runs, Idle, Stages, At, Sole
<1>3. Status("rolled_back") \in Journals
  BY <1>2 DEF IInv, InstallTypeOK, Status, This, Journals, Statuses
<1>4. PICK r \in Journals :
        /\ tx' = [tx EXCEPT ![run.t] = r] /\ faults' \in 0..MaxFaults
        /\ \/ Alike(r, Status("rolled_back"))
              /\ run' \in {[run EXCEPT !.t = NoTransaction], Idle}
           \/ Alike(r, tx[run.t]) /\ run' = Idle
  <2>1. InstallTypeOK
    BY DEF IInv
  <2> QED
    BY <1>1, <1>2, <1>3, <2>1, JournalWritten
<1>5. run' \in Runs /\ run'.t = NoTransaction /\ run'.todo = {} /\ run'.failed = {}
      /\ run'.at \in {"recovering", "idle"}
  BY <1>1, <1>2, <1>4 DEF Idle, Runs, At
<1>6. /\ tx'[run.t] = r
      /\ UnresolvedIn(tx') = IF r.status \in {"applying", "rollback_failed"}
                               THEN {run.t} ELSE {}
      /\ InstallTypeOK'
  <2>1. /\ tx'[run.t] = r
        /\ UnresolvedIn(tx') = IF r.status \in {"applying", "rollback_failed"}
                                 THEN UnresolvedIn(tx) \cup {run.t} ELSE UnresolvedIn(tx) \ {run.t}
        /\ (UnresolvedIn(tx') \subseteq {run.t}) => InstallTypeOK'
    BY <1>1, <1>2, <1>4, <1>5, JournalEffect
  <2> QED
    BY <1>2, <2>1 DEF Sole
<1>7. Standing' = Standing
  <2>1. CASE Alike(r, Status("rolled_back"))
    <3>1. NoneIn(tx')
      BY <1>6, <2>1 DEF Alike, Status, This, NoneIn
    <3>2. \A f \in Files : f \in tx[run.t].files => disk[f] = tx[run.t].old[f]
      BY <1>2 DEF AsBefore, This
    <3> QED
      BY <1>1, <1>2, <3>1, <3>2, SettledStands, StandingIs
  <2>2. CASE Alike(r, tx[run.t])
    <3>1. Sole(tx', run.t)
      BY <1>2, <1>6, <2>2 DEF Alike, UnresolvedIn, Sole
    <3>2. tx[run.t].files = tx'[run.t].files /\ tx[run.t].old = tx'[run.t].old
      BY <1>6, <2>2 DEF Alike
    <3> QED
      BY <1>1, <1>2, <3>1, <3>2, UnresolvedTwice, StandingIs
  <2> QED
    BY <1>4, <2>1, <2>2
<1>8. RunInv' /\ RecoveringInv' /\ ResolvedInv' /\ StagingInv' /\ ApplyingInv' /\ RollingInv'
  BY <1>5 DEF RunInv, RecoveringInv, ResolvedInv, StagingInv, ApplyingInv, RollingInv, At
<1> QED
  BY <1>6, <1>7, <1>8 DEF IInv, WholeStep

LEMMA PrepareKeeps ==
  ASSUME IInv, NEW t \in Transactions, Prepare(t)
  PROVE  IInv' /\ WholeStep
<1> DEFINE plan == Plan(run.package, run.removals)
           record == [status |-> "preparing", readable |-> TRUE, files |-> plan,
                      old |-> disk, new |-> run.package]
           next == [run EXCEPT !.at = "staging", !.t = t, !.todo = plan]
<1>1. /\ At("planning") /\ tx[t] = Unused /\ WriteJournal(t, record, next, Idle)
      /\ UNCHANGED <<disk, owned>>
  BY DEF Prepare
<1>2. /\ NoneIn(tx) /\ run \in Runs /\ run.package \in Runtime /\ disk \in Runtime
      /\ run.failed = {}
  BY <1>1, UnresolvedIs, InstallAssumption
  DEF IInv, ResolvedInv, NoneIn, RunInv, At, InstallTypeOK, Runs, Runtime
<1>3. plan \subseteq Files /\ record \in Journals /\ next \in Runs /\ Idle \in Runs
  BY <1>2, InstallAssumption DEF Plan, Journals, Statuses, Runs, Stages, Idle
<1>4. /\ next.at = "staging" /\ next.t = t /\ next.todo = plan /\ next.failed = {}
      /\ next.package = run.package
  BY <1>2 DEF Runs
<1>5. \A f \in Files \ plan : run.package[f] # Absent => disk[f] = run.package[f]
  BY DEF Plan
<1>6. PICK r \in Journals :
        /\ tx' = [tx EXCEPT ![t] = r] /\ faults' \in 0..MaxFaults
        /\ \/ Alike(r, record) /\ run' \in {next, Idle}
           \/ Alike(r, tx[t]) /\ run' = Idle
  <2>1. InstallTypeOK
    BY DEF IInv
  <2> HIDE DEF record, next
  <2> QED
    BY <1>1, <1>3, <2>1, JournalWritten
<1>7. run' \in Runs /\ (run' = Idle \/ (run' = next /\ Alike(r, record)))
  BY <1>3, <1>6
<1>8. tx'[t] = r /\ NoneIn(tx') /\ InstallTypeOK'
  <2>1. r.status \notin {"applying", "rollback_failed"}
    BY <1>1, <1>6 DEF Alike, Unused
  <2>2. /\ tx'[t] = r
        /\ UnresolvedIn(tx') = IF r.status \in {"applying", "rollback_failed"}
                                 THEN UnresolvedIn(tx) \cup {t} ELSE UnresolvedIn(tx) \ {t}
        /\ (UnresolvedIn(tx') \subseteq {t}) => InstallTypeOK'
    BY <1>1, <1>6, <1>7, JournalEffect
  <2> QED
    BY <1>2, <2>1, <2>2 DEF NoneIn
<1>9. Standing' = Standing
  BY <1>1, <1>2, <1>8, ResolvedTwice, StandingIs
<1>10. StagingInv'
  <2>1. CASE run' = Idle
    BY <2>1 DEF StagingInv, At, Idle
  <2>2. CASE run' = next /\ Alike(r, record)
    <3>1. This' = r /\ run'.package = run.package /\ run'.todo = plan /\ run'.t = t
      BY <1>4, <1>8, <2>2 DEF This
    <3>2. r.files = plan /\ r.old = disk /\ r.new = run.package
      BY <2>2 DEF Alike
    <3> HIDE DEF plan, record, next
    <3> QED
      BY <1>1, <1>3, <1>5, <3>1, <3>2 DEF StagingInv, Working, AsBefore, PlanCovers
  <2> QED
    BY <1>7, <2>1, <2>2
<1>11. ResolvedInv'
  BY <1>8 DEF ResolvedInv, NoneIn, Unresolved, UnresolvedIn
<1>12. RunInv' /\ RecoveringInv' /\ ApplyingInv' /\ RollingInv'
  <2>1. /\ run'.failed = {} /\ run'.at \in {"idle", "staging"}
        /\ run'.t = NoTransaction => run'.todo = {}
    <3>1. CASE run' = Idle
      BY <3>1 DEF Idle
    <3>2. CASE run' = next
      <4> HIDE DEF record, next
      <4> QED
        BY <1>4, <3>2, InstallAssumption
    <3> QED
      BY <1>7, <3>1, <3>2
  <2> QED
    BY <2>1 DEF RunInv, RecoveringInv, ApplyingInv, RollingInv, At
<1> QED
  BY <1>8, <1>9, <1>10, <1>11, <1>12 DEF IInv, WholeStep

LEMMA StageKeeps ==
  ASSUME IInv, Stage
  PROVE  IInv' /\ WholeStep
<1> DEFINE next == [run EXCEPT !.at = "applying"]
           back == RollBack({})
<1>1. /\ At("staging") /\ WriteJournal(run.t, Status("applying"), next, back)
      /\ UNCHANGED <<disk, owned>>
  BY DEF Stage
<1>2. /\ NoneIn(tx) /\ run \in Runs /\ run.failed = {} /\ run.t \in Transactions
      /\ run.todo = This.files /\ AsBefore(This.files) /\ PlanCovers
      /\ run.t # NoTransaction /\ This \in Journals
  BY <1>1, UnresolvedIs, InstallAssumption
  DEF IInv, ResolvedInv, StagingInv, Working, NoneIn, RunInv, At, InstallTypeOK, This
<1>3. /\ Status("applying") \in Journals /\ next \in Runs /\ back \in Runs /\ Idle \in Runs
      /\ Alike(tx[run.t], This)
  BY <1>2, InstallAssumption DEF Status, Journals, Statuses, Runs, Stages, Idle, RollBack, Alike, This
<1>4. /\ next.at = "applying" /\ next.t = run.t /\ next.todo = run.todo /\ next.failed = {}
      /\ next.package = run.package
      /\ back.at = "rolling" /\ back.t = run.t /\ back.todo = {} /\ back.failed = {}
  BY <1>2 DEF Runs, RollBack
<1>5. PICK r \in Journals :
        /\ tx' = [tx EXCEPT ![run.t] = r] /\ faults' \in 0..MaxFaults
        /\ \/ Alike(r, Status("applying")) /\ run' \in {next, Idle}
           \/ Alike(r, tx[run.t]) /\ run' = back
  <2>1. InstallTypeOK
    BY DEF IInv
  <2> HIDE DEF next, back
  <2> QED
    BY <1>1, <1>2, <1>3, <2>1, JournalWritten
<1>6. run' \in Runs
  BY <1>3, <1>5
<1>7. /\ r.files = This.files /\ r.old = This.old /\ r.new = This.new
      /\ tx'[run.t] = r /\ UnresolvedIn(tx') \subseteq {run.t} /\ InstallTypeOK'
      /\ UnresolvedIn(tx') = IF r.status \in {"applying", "rollback_failed"}
                               THEN UnresolvedIn(tx) \cup {run.t} ELSE UnresolvedIn(tx) \ {run.t}
  <2>1. r.files = This.files /\ r.old = This.old /\ r.new = This.new
    BY <1>2, <1>5 DEF Alike, Status, This, Journals
  <2>2. /\ tx'[run.t] = r
        /\ UnresolvedIn(tx') = IF r.status \in {"applying", "rollback_failed"}
                                 THEN UnresolvedIn(tx) \cup {run.t} ELSE UnresolvedIn(tx) \ {run.t}
        /\ (UnresolvedIn(tx') \subseteq {run.t}) => InstallTypeOK'
    <3>1. /\ run.t \in Transactions /\ tx' = [tx EXCEPT ![run.t] = r] /\ faults' \in 0..MaxFaults
          /\ UNCHANGED <<disk, owned>>
      BY <1>1, <1>2, <1>5
    <3> QED
      BY <1>6, <3>1, JournalEffect
  <2> QED
    BY <1>2, <2>1, <2>2 DEF NoneIn
<1>8. CASE Alike(r, Status("applying")) /\ run' \in {next, Idle}
  <2>1. Sole(tx', run.t)
    BY <1>2, <1>7, <1>8 DEF Alike, Status, This, Journals, Sole, NoneIn
  <2>2. Standing' = Standing
    <3>1. \A f \in Files : f \in tx'[run.t].files => disk[f] = tx'[run.t].old[f]
      BY <1>2, <1>7 DEF AsBefore
    <3> QED
      BY <1>1, <1>2, <2>1, <3>1, SettledStands, StandingIs
  <2>3. ApplyingInv'
    <3>1. CASE run' = Idle
      BY <3>1 DEF ApplyingInv, At, Idle
    <3>2. CASE run' = next
      <4>1. /\ This' = r /\ run'.package = run.package /\ run'.todo = run.todo
            /\ run'.t = run.t /\ run.t \in Unresolved'
        BY <1>4, <1>7, <2>1, <3>2 DEF This, Sole, Unresolved, UnresolvedIn
      <4> HIDE DEF next, back
      <4> QED
        BY <1>1, <1>2, <1>7, <4>1 DEF ApplyingInv, Working, AsBefore, AsPackaged, PlanCovers
    <3> QED
      BY <1>8, <3>1, <3>2
  <2>4. RunInv' /\ RecoveringInv' /\ ResolvedInv' /\ StagingInv' /\ RollingInv'
    <3>1. /\ run'.failed = {} /\ run'.at \in {"idle", "applying"}
          /\ run'.t = NoTransaction => run'.todo = {}
      <4>1. CASE run' = Idle
        BY <4>1 DEF Idle
      <4>2. CASE run' = next
        <5> HIDE DEF next, back
        <5> QED
          BY <1>2, <1>4, <4>2
      <4> QED
        BY <1>8, <4>1, <4>2
    <3> QED
      BY <3>1 DEF RunInv, RecoveringInv, ResolvedInv, StagingInv, RollingInv, At
  <2> QED
    BY <1>7, <2>2, <2>3, <2>4 DEF IInv, WholeStep
<1>9. CASE Alike(r, tx[run.t]) /\ run' = back
  <2>1. NoneIn(tx')
    BY <1>2, <1>7, <1>9 DEF Alike, NoneIn, UnresolvedIn
  <2>2. Standing' = Standing
    BY <1>1, <1>2, <2>1, ResolvedTwice, StandingIs
  <2>3. RollingInv'
    <3>1. This' = r /\ run'.t = run.t /\ run'.todo = {} /\ run'.failed = {} /\ Unresolved' = {}
      BY <1>4, <1>7, <1>9, <2>1 DEF This, NoneIn, Unresolved, UnresolvedIn
    <3> HIDE DEF next, back
    <3> QED
      BY <1>1, <1>2, <1>7, <3>1 DEF RollingInv, Working, AsBefore
  <2>4. RunInv' /\ RecoveringInv' /\ ResolvedInv' /\ StagingInv' /\ ApplyingInv'
    BY <1>2, <1>4, <1>9 DEF RunInv, RecoveringInv, ResolvedInv, StagingInv, ApplyingInv, At
  <2> QED
    BY <1>7, <2>2, <2>3, <2>4 DEF IInv, WholeStep
<1> QED
  BY <1>5, <1>8, <1>9

LEMMA CommitKeeps ==
  ASSUME IInv, Commit
  PROVE  IInv' /\ WholeStep
<1> DEFINE next == [run EXCEPT !.at = "pruning"]
           back == RollBack(This.files)
<1>1. /\ At("applying") /\ run.todo = {}
      /\ WriteJournal(run.t, Status("committed"), next, back)
      /\ UNCHANGED <<disk, owned>>
  BY DEF Commit
<1>2. /\ Sole(tx, run.t) /\ run \in Runs /\ run.failed = {} /\ run.t \in Transactions
      /\ AsPackaged(This.files) /\ PlanCovers /\ This.files \subseteq Files
      /\ run.t # NoTransaction /\ This \in Journals
  <2>1. /\ run.t \in Unresolved /\ run.t \in Transactions /\ PlanCovers
        /\ AsPackaged(This.files)
    BY <1>1 DEF IInv, ApplyingInv, Working
  <2> QED
    BY <1>1, <2>1, UnresolvedIs, InstallAssumption
    DEF IInv, RunInv, At, InstallTypeOK, This, Sole, Journals
<1>3. /\ Status("committed") \in Journals /\ next \in Runs /\ back \in Runs /\ Idle \in Runs
  BY <1>2, InstallAssumption DEF Status, Journals, Statuses, Runs, Stages, Idle, RollBack
<1>4. /\ next.at = "pruning" /\ next.t = run.t /\ next.todo = {} /\ next.failed = {}
      /\ back.at = "rolling" /\ back.t = run.t /\ back.todo = This.files /\ back.failed = {}
  BY <1>1, <1>2 DEF Runs, RollBack
<1>5. PICK r \in Journals :
        /\ tx' = [tx EXCEPT ![run.t] = r] /\ faults' \in 0..MaxFaults
        /\ \/ Alike(r, Status("committed")) /\ run' \in {next, Idle}
           \/ Alike(r, tx[run.t]) /\ run' = back
  <2>1. InstallTypeOK
    BY DEF IInv
  <2> HIDE DEF next, back
  <2> QED
    BY <1>1, <1>2, <1>3, <2>1, JournalWritten
<1>6. run' \in Runs
  BY <1>3, <1>5
<1>7. /\ r.files = This.files /\ r.old = This.old /\ r.new = This.new
      /\ tx'[run.t] = r /\ InstallTypeOK'
      /\ UnresolvedIn(tx') = IF r.status \in {"applying", "rollback_failed"}
                               THEN {run.t} ELSE {}
  <2>1. r.files = This.files /\ r.old = This.old /\ r.new = This.new
    BY <1>2, <1>5 DEF Alike, Status, This, Journals
  <2>2. /\ tx'[run.t] = r
        /\ UnresolvedIn(tx') = IF r.status \in {"applying", "rollback_failed"}
                                 THEN UnresolvedIn(tx) \cup {run.t} ELSE UnresolvedIn(tx) \ {run.t}
        /\ (UnresolvedIn(tx') \subseteq {run.t}) => InstallTypeOK'
    <3>1. /\ run.t \in Transactions /\ tx' = [tx EXCEPT ![run.t] = r] /\ faults' \in 0..MaxFaults
          /\ UNCHANGED <<disk, owned>>
      BY <1>1, <1>2, <1>5
    <3> QED
      BY <1>6, <3>1, JournalEffect
  <2> QED
    BY <1>2, <2>1, <2>2 DEF Sole
<1>8. CASE Alike(r, Status("committed")) /\ run' \in {next, Idle}
  <2>1. NoneIn(tx')
    BY <1>2, <1>7, <1>8 DEF Alike, Status, This, Journals, NoneIn
  <2>2. run.package \in Packages /\ Whole!Switch(run.package)
    <3> DEFINE gone == {f \in This.files : run.package[f] = Absent}
               switched(f) == run.package[f] # Absent \/ f \in gone
    <3>1. ASSUME NEW f \in Files
          PROVE  Standing'[f] = IF switched(f) THEN run.package[f] ELSE Standing[f]
      <4>1. Standing'[f] = disk[f]
        BY <1>1, <2>1, ResolvedStands, StandingIs
      <4>2. /\ f \in This.files => disk[f] = run.package[f]
            /\ f \notin This.files => (run.package[f] # Absent => disk[f] = run.package[f])
        BY <1>2 DEF AsPackaged, PlanCovers
      <4>3. f \notin This.files => Standing[f] = disk[f]
        BY <1>2, UnresolvedStands, StandingIs DEF This
      <4> QED
        BY <4>1, <4>2, <4>3
    <3>2. Standing' = [f \in Files |-> Standing'[f]]
      BY StandingIs DEF StandsFor
    <3>3. Standing' = [f \in Files |-> IF switched(f) THEN run.package[f] ELSE Standing[f]]
      BY <3>1, <3>2
    <3>4. gone \in SUBSET Files
      BY <1>2
    <3> QED
      BY <1>2, <3>3, <3>4 DEF Whole!Switch, Runs
  <2>3. /\ RunInv' /\ RecoveringInv' /\ ResolvedInv' /\ StagingInv' /\ ApplyingInv'
        /\ RollingInv'
    <3>1. /\ run'.failed = {} /\ run'.at \in {"idle", "pruning"} /\ run'.todo = {}
      <4>1. CASE run' = Idle
        BY <4>1 DEF Idle
      <4>2. CASE run' = next
        <5> HIDE DEF next, back
        <5> QED
          BY <1>4, <4>2
      <4> QED
        BY <1>8, <4>1, <4>2
    <3> QED
      BY <3>1 DEF RunInv, RecoveringInv, ResolvedInv, StagingInv, ApplyingInv, RollingInv, At
  <2> QED
    BY <1>7, <2>2, <2>3 DEF IInv, WholeStep
<1>9. CASE Alike(r, tx[run.t]) /\ run' = back
  <2>1. Sole(tx', run.t)
    BY <1>2, <1>7, <1>9 DEF Alike, Sole, UnresolvedIn
  <2>2. Standing' = Standing
    <3>1. tx[run.t].files = tx'[run.t].files /\ tx[run.t].old = tx'[run.t].old
      BY <1>7 DEF This
    <3> QED
      BY <1>1, <1>2, <2>1, <3>1, UnresolvedTwice, StandingIs
  <2>3. RollingInv'
    <3>1. /\ This' = r /\ run'.t = run.t /\ run'.todo = This.files /\ run'.failed = {}
          /\ Unresolved' = {run.t}
      BY <1>4, <1>7, <1>9, <2>1 DEF This, Sole, Unresolved, UnresolvedIn
    <3> HIDE DEF next, back
    <3> QED
      BY <1>1, <1>2, <1>7, <3>1 DEF RollingInv, Working, AsBefore
  <2>4. RunInv' /\ RecoveringInv' /\ ResolvedInv' /\ StagingInv' /\ ApplyingInv'
    BY <1>2, <1>4, <1>9 DEF RunInv, RecoveringInv, ResolvedInv, StagingInv, ApplyingInv, At
  <2> QED
    BY <1>7, <2>2, <2>3, <2>4 DEF IInv, WholeStep
<1> QED
  BY <1>5, <1>8, <1>9

LEMMA RolledBackKeeps ==
  ASSUME IInv, RolledBack
  PROVE  IInv' /\ WholeStep
<1> DEFINE status == IF run.failed = {} THEN "rolled_back" ELSE "rollback_failed"
           next == IF run.failed = {} THEN [run EXCEPT !.at = "cleaning"] ELSE Idle
<1>1. /\ At("rolling") /\ run.todo = {} /\ WriteJournal(run.t, Status(status), next, Idle)
      /\ UNCHANGED <<disk, owned>>
  BY DEF RolledBack
<1>2. /\ UnresolvedIn(tx) \subseteq {run.t} /\ run \in Runs /\ run.t \in Transactions
      /\ run.failed # {} => Sole(tx, run.t)
      /\ run.failed = {} => AsBefore(This.files)
      /\ This \in Journals
  <2>1. /\ Unresolved \subseteq {run.t} /\ run.t \in Transactions
        /\ run.failed # {} => run.t \in Unresolved
        /\ run.failed = {} => AsBefore(This.files)
    BY <1>1 DEF IInv, RollingInv, Working
  <2> QED
    BY <2>1, UnresolvedIs DEF IInv, InstallTypeOK, This, Sole
<1>3. Status(status) \in Journals /\ next \in Runs /\ Idle \in Runs
  BY <1>2, InstallAssumption DEF Status, Journals, Statuses, Runs, Stages, Idle
<1>4. PICK r \in Journals :
        /\ tx' = [tx EXCEPT ![run.t] = r] /\ faults' \in 0..MaxFaults
        /\ \/ Alike(r, Status(status)) /\ run' \in {next, Idle}
           \/ Alike(r, tx[run.t]) /\ run' = Idle
  <2>1. InstallTypeOK
    BY DEF IInv
  <2> HIDE DEF next, status
  <2> QED
    BY <1>1, <1>2, <1>3, <2>1, JournalWritten
<1>5. /\ run' \in Runs /\ run'.todo = {} /\ run'.at \in {"cleaning", "idle"} /\ run'.failed = {}
  <2>1. CASE run' = Idle
    BY <1>3, <2>1 DEF Idle
  <2>2. CASE run' = next /\ run.failed = {}
    BY <1>1, <1>3, <1>2, <2>2 DEF Runs
  <2> QED
    BY <1>4, <2>1, <2>2
<1>6. /\ r.files = This.files /\ r.old = This.old
      /\ tx'[run.t] = r /\ InstallTypeOK'
      /\ UnresolvedIn(tx') = IF r.status \in {"applying", "rollback_failed"}
                               THEN {run.t} ELSE {}
  <2>1. r.files = This.files /\ r.old = This.old
    BY <1>2, <1>4 DEF Alike, Status, This, Journals
  <2>2. /\ tx'[run.t] = r
        /\ UnresolvedIn(tx') = IF r.status \in {"applying", "rollback_failed"}
                                 THEN UnresolvedIn(tx) \cup {run.t} ELSE UnresolvedIn(tx) \ {run.t}
        /\ (UnresolvedIn(tx') \subseteq {run.t}) => InstallTypeOK'
    <3>1. /\ run.t \in Transactions /\ tx' = [tx EXCEPT ![run.t] = r] /\ faults' \in 0..MaxFaults
          /\ UNCHANGED <<disk, owned>> /\ run' \in Runs
      BY <1>1, <1>2, <1>4, <1>5
    <3> QED
      BY <3>1, JournalEffect
  <2> QED
    BY <1>2, <2>1, <2>2
<1>7. Standing' = Standing
  <2>1. CASE NoneIn(tx)
    <3>1. NoneIn(tx')
      BY <1>2, <1>4, <1>6, <2>1 DEF Alike, Status, This, Journals, NoneIn, Sole, UnresolvedIn
    <3> QED
      BY <1>1, <2>1, <3>1, ResolvedTwice, StandingIs
  <2>2. CASE Sole(tx, run.t) /\ NoneIn(tx')
    <3>1. run.failed = {}
      BY <1>2, <1>4, <1>6, <2>2 DEF Alike, Status, This, Journals, NoneIn, Sole, UnresolvedIn
    <3>2. \A f \in Files : f \in tx[run.t].files => disk[f] = tx[run.t].old[f]
      BY <1>2, <3>1 DEF AsBefore, This
    <3> QED
      BY <1>1, <2>2, <3>2, SettledStands, StandingIs
  <2>3. CASE Sole(tx, run.t) /\ Sole(tx', run.t)
    <3>1. tx[run.t].files = tx'[run.t].files /\ tx[run.t].old = tx'[run.t].old
      BY <1>6 DEF This
    <3> QED
      BY <1>1, <2>3, <3>1, UnresolvedTwice, StandingIs
  <2> QED
    BY <1>2, <1>6, <2>1, <2>2, <2>3 DEF Sole, NoneIn
<1>8. RunInv' /\ RecoveringInv' /\ ResolvedInv' /\ StagingInv' /\ ApplyingInv' /\ RollingInv'
  BY <1>5 DEF RunInv, RecoveringInv, ResolvedInv, StagingInv, ApplyingInv, RollingInv, At
<1> QED
  BY <1>6, <1>7, <1>8 DEF IInv, WholeStep

\* Pruning touches no transaction that is unresolved.
LEMMA PruneKeeps ==
  ASSUME IInv, Prune("clearing", "planning") \/ Prune("pruning", "recording")
               \/ Prune("cleaning", "idle")
  PROVE  IInv' /\ WholeStep
<1>1. PICK locked \in SUBSET Completed :
        tx' = [t \in Transactions |-> IF t \in Completed \ locked THEN Unused ELSE tx[t]]
  BY DEF Prune
<1>2. UNCHANGED <<disk, owned, faults>>
  BY DEF Prune
<1>3. /\ run' \in Runs /\ run'.failed = {} /\ run'.t = NoTransaction /\ run'.todo = {}
      /\ run'.at \in {"planning", "recording", "idle"}
      /\ run'.at = "planning" => At("clearing")
  <2>1. CASE Prune("clearing", "planning")
    BY <2>1 DEF Prune, IInv, InstallTypeOK, RunInv, Runs, Stages, At
  <2>2. CASE Prune("pruning", "recording")
    BY <2>2 DEF Prune, IInv, InstallTypeOK, RunInv, Runs, Stages, At
  <2>3. CASE Prune("cleaning", "idle")
    BY <2>3, InstallAssumption DEF Prune, Idle, Runs, Stages
  <2> QED
    BY <2>1, <2>2, <2>3
<1>4. tx' \in [Transactions -> Journals] /\ UnresolvedIn(tx') = UnresolvedIn(tx)
      /\ \A t \in UnresolvedIn(tx) : tx'[t] = tx[t]
  <2>1. Unused \in Journals
    BY InstallAssumption DEF Unused, Journals, Statuses, Runtime
  <2>2. \A t \in Completed : t \notin UnresolvedIn(tx)
    BY DEF Completed, UnresolvedIn
  <2>3. Unused.status = "none"
    BY DEF Unused
  <2> QED
    BY <1>1, <2>1, <2>2, <2>3 DEF UnresolvedIn, IInv, InstallTypeOK
<1>5. Unresolved' = Unresolved
  BY <1>4 DEF Unresolved, UnresolvedIn
<1>6. Standing' = Standing
  <2>1. CASE NoneIn(tx)
    BY <1>2, <1>4, <2>1, ResolvedTwice, StandingIs DEF NoneIn
  <2>2. ASSUME NEW t \in UnresolvedIn(tx) PROVE Standing' = Standing
    <3>1. Sole(tx, t)
      BY UnresolvedIs DEF Sole, IInv, InstallTypeOK
    <3>2. Sole(tx', t) /\ tx'[t].files = tx[t].files /\ tx'[t].old = tx[t].old
      BY <1>4, <3>1 DEF Sole
    <3> QED
      BY <1>2, <3>1, <3>2, UnresolvedTwice, StandingIs
  <2> QED
    BY <2>1, <2>2 DEF NoneIn
<1>7. RunInv' /\ RecoveringInv' /\ ResolvedInv' /\ StagingInv' /\ ApplyingInv' /\ RollingInv'
  BY <1>3, <1>5
  DEF RunInv, RecoveringInv, ResolvedInv, StagingInv, ApplyingInv, RollingInv, At, IInv
<1>8. InstallTypeOK'
  BY <1>2, <1>3, <1>4, <1>5 DEF IInv, InstallTypeOK
<1> QED
  BY <1>6, <1>7, <1>8 DEF IInv, WholeStep

----------------------------------------------------------------------------
(* The theorems *)

LEMMA InitKeeps == Init => IInv /\ Whole!WholeInit
<1> SUFFICES ASSUME Init PROVE IInv /\ Whole!WholeInit
  OBVIOUS
<1>1. disk \in Packages /\ disk \in Runtime /\ Unused \in Journals /\ Idle \in Runs
  BY InstallAssumption DEF Init, Unused, Journals, Statuses, Runtime, Idle, Runs, Stages
<1>2. NoneIn(tx) /\ Unresolved = {}
  BY UnresolvedIs DEF Init, Unused, NoneIn, UnresolvedIn
<1>3. Standing = disk
  <2>1. \A f \in Files : Standing[f] = disk[f]
    BY <1>2, ResolvedStands, StandingIs
  <2>2. Standing = [f \in Files |-> Standing[f]]
    BY StandingIs DEF StandsFor
  <2> QED
    BY <1>1, <2>1, <2>2 DEF Runtime
<1>4. InstallTypeOK
  BY <1>1, <1>2, InstallAssumption DEF Init, InstallTypeOK
<1>5. RunInv /\ RecoveringInv /\ ResolvedInv /\ StagingInv /\ ApplyingInv /\ RollingInv
  BY DEF Init, Idle, RunInv, RecoveringInv, ResolvedInv, StagingInv, ApplyingInv, RollingInv, At
<1> QED
  BY <1>1, <1>3, <1>4, <1>5 DEF IInv, Whole!WholeInit

LEMMA NextKeeps == IInv /\ [Next]_vars => IInv' /\ WholeStep
<1> SUFFICES ASSUME IInv, [Next]_vars PROVE IInv' /\ WholeStep
  OBVIOUS
<1>1. CASE UNCHANGED vars
  BY <1>1
  DEF vars, IInv, InstallTypeOK, RunInv, RecoveringInv, ResolvedInv, StagingInv, ApplyingInv,
      RollingInv, At, Working, AsBefore, AsPackaged, PlanCovers, This, Unresolved, WholeStep,
      Standing
<1>2. CASE Crash \/ RecoveryFails \/ Record
  BY <1>2, CrashKeeps
<1>3. ASSUME NEW package \in Packages, Start(package) PROVE IInv' /\ WholeStep
  BY <1>3, StartKeeps
<1>4. ASSUME NEW t \in Transactions, Recover(t) \/ Prepare(t) PROVE IInv' /\ WholeStep
  BY <1>4, RecoverKeeps, PrepareKeeps
<1>5. ASSUME NEW f \in Files, Restore(f) \/ Apply(f) \/ Undo(f) \/ UndoFails(f)
      PROVE  IInv' /\ WholeStep
  BY <1>5, RestoreKeeps, ApplyKeeps, UndoKeeps
<1>6. ASSUME NEW f \in Files, NEW tried \in BOOLEAN, NEW done \in BOOLEAN,
             ApplyFails(f, tried, done)
      PROVE  IInv' /\ WholeStep
  BY <1>6, ApplyFailsKeeps
<1>7. CASE Recovered \/ AllRecovered \/ NothingToDo
  BY <1>7, RecoveredKeeps, AllRecoveredKeeps, NothingToDoKeeps
<1>8. CASE Stage \/ StageFails \/ Commit \/ RolledBack
  BY <1>8, StageKeeps, StageFailsKeeps, CommitKeeps, RolledBackKeeps
<1>9. CASE Prune("clearing", "planning") \/ Prune("pruning", "recording") \/ Prune("cleaning", "idle")
  BY <1>9, PruneKeeps
<1>10. CASE Next
  <2>1. CASE Setup
    BY <2>1, <1>2, <1>4, <1>5, <1>6, <1>7, <1>8, <1>9 DEF Setup
  <2> QED
    BY <1>2, <1>3, <1>10, <2>1 DEF Next
<1> QED
  BY <1>1, <1>10

LEMMA SpecKeeps == Spec => []IInv
BY InitKeeps, NextKeeps, PTL DEF Spec

\* Every variable keeps its shape and no two transactions are ever unresolved
\* at once, for any files, packages and faults: setup recovers before it installs.
THEOREM InstallTypeCorrect == Spec => []InstallTypeOK
<1>1. IInv => InstallTypeOK
  BY DEF IInv
<1> QED
  BY <1>1, SpecKeeps, PTL

\* The update, its rollback and its recovery implement the abstract runtime:
\* whatever fails and wherever a setup ends, the runtime that files and
\* snapshots stand for changes from package to package as a whole.
THEOREM InstallImplementsWholeRuntime == Spec => ImplementsWholeRuntime
<1>1. IInv /\ [Next]_vars => [\E package \in Packages : Whole!Switch(package)]_Standing
  BY NextKeeps DEF WholeStep
<1> QED
  BY <1>1, InitKeeps, SpecKeeps, PTL DEF Spec, ImplementsWholeRuntime, Whole!WholeSpec
=============================================================================
