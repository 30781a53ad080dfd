-------------------------- MODULE DispatchRuntime --------------------------
(***************************************************************************)
(* The workers that dispatch missions, over the store of DispatchLeases.   *)
(*                                                                         *)
(* A worker runs one serial cycle after another: list candidates, claim    *)
(* them, adopt every claimed instruction (check the fence, launch a        *)
(* process, make its handle durable, report the start), then one           *)
(* supervision pass over all it tracks (submit what finished, renew the    *)
(* rest).  Its first cycle begins with the recovery of whatever intents    *)
(* are outstanding, its own or not.  Each step below ends at an await, so  *)
(* the steps of other workers, the clock and the processes come between    *)
(* any two.  A call may fail, with nothing done or with its answer lost     *)
(* after its transaction committed, and a worker may crash at any point;   *)
(* its processes may outlive it.                                           *)
(***************************************************************************)
EXTENDS DispatchLeases

CONSTANTS
  NoJob,      \* a worker that handles no instruction
  MaxFaults   \* bound: crashes and failed calls

ASSUME RuntimeAssumption == NoJob \notin Jobs /\ MaxFaults \in Nat

VARIABLES
  stage,    \* where each worker is in its cycle
  seen,     \* slots each worker has selected from what it listed
  todo,     \* jobs left in the worker's current loop
  cur,      \* the job a worker handles
  age,      \* how long ago the worker read the clock it now passes on
  exec,     \* the instruction and execution record of each job
  proc,     \* the process of each job
  faults    \* crashes and failed calls so far

workerVars == <<stage, seen, todo, cur, age>>
vars == <<leaseVars, workerVars, exec, proc, faults>>

Stages == {"down", "recover", "revoke", "close", "idle", "listed", "adopt", "prepare",
           "launch", "attach", "starting", "deliver", "tick", "stop", "report", "submit",
           "release", "thrown"}

\* Stages that pass on a clock reading taken when the loop's step began.
Dated == {"listed", "prepare", "launch", "attach", "starting", "tick", "stop", "report",
          "submit", "release"}

NoExec == [state |-> "none", token |-> 0, owner |-> NoWorker]

Init ==
  /\ LeasesInit
  /\ stage = [w \in Workers |-> "down"]
  /\ seen = [w \in Workers |-> {}]
  /\ todo = [w \in Workers |-> {}]
  /\ cur = [w \in Workers |-> NoJob]
  /\ age = [w \in Workers |-> 0]
  /\ exec = [j \in Jobs |-> NoExec]
  /\ proc = [j \in Jobs |-> "none"]
  /\ faults = 0

\* Worker w goes to stage st with job c and loop set t.
Go(w, st, c, t) ==
  /\ stage' = [stage EXCEPT ![w] = st]
  /\ cur' = [cur EXCEPT ![w] = c]
  /\ todo' = [todo EXCEPT ![w] = t]
  /\ age' = IF st \in Dated THEN age ELSE [age EXCEPT ![w] = 0]
  /\ seen' = [seen EXCEPT ![w] = {}]

\* An exception ends the cycle and the loop that runs it.  During recovery
\* nothing is remembered yet, and the next cycle begins with it again.
Recovering(w) == stage[w] \in {"recover", "revoke", "close"}
Throw(w) == Go(w, IF Recovering(w) THEN "down" ELSE "thrown", NoJob, {})

Tracked(w) == {j \in Jobs : exec[j].owner = w /\ exec[j].state = "running"}

\* On to the rest of the loop's jobs; after the last one, past the loop: from
\* adopting to the supervision pass, which takes a snapshot of what is
\* tracked, and from recovery and supervision to the next cycle.
Past(w, st) == IF st = "adopt" /\ Tracked(w) # {} THEN "tick" ELSE "idle"
Loop(w, st, rest) ==
  IF rest # {} THEN Go(w, st, NoJob, rest)
    ELSE Go(w, Past(w, st), NoJob, IF st = "adopt" THEN Tracked(w) ELSE {})
Rest(w) == todo[w] \ {cur[w]}

Fault == faults < MaxFaults /\ faults' = faults + 1
NoFault == UNCHANGED faults

Holds(w, j) == FenceCurrent(lease[j[1]], j[2], exec[j].token)

----------------------------------------------------------------------------
(* Starting a worker, and recovery *)

\* A new process, or one whose recovery failed: it remembers nothing, and
\* before it claims it recovers every outstanding intent of the workspace,
\* also those of workers that are well.
Start(w) ==
  /\ stage[w] = "down"
  /\ Loop(w, "recover", outstanding)
  /\ UNCHANGED <<leaseVars, exec, proc>> /\ NoFault

\* start() again after a cycle threw: the tracked executions are still there,
\* and recovery has been done.
Resume(w) ==
  /\ stage[w] = "thrown"
  /\ Go(w, "idle", NoJob, {})
  /\ UNCHANGED <<leaseVars, exec, proc>> /\ NoFault

\* No handle, a reattached process, one whose end could not be confirmed, or
\* one of unknown status in a shared environment: lease and intent are kept.
RecoverKeeps(w, j) ==
  /\ stage[w] = "recover" /\ j \in todo[w]
  /\ Loop(w, "recover", todo[w] \ {j})
  /\ UNCHANGED <<leaseVars, exec, proc>> /\ NoFault

\* Confirmed dead, terminated, or of unknown status in a disposable
\* environment, which is quarantined: the slot is to be revoked.
RecoverFrees(w, j) ==
  /\ stage[w] = "recover" /\ j \in todo[w]
  /\ j \in attached
  /\ Go(w, "revoke", j, todo[w])
  /\ \/ UNCHANGED proc
     \/ proc[j] = "alive" /\ proc' = [proc EXCEPT ![j] = "exited"]
  /\ UNCHANGED <<leaseVars, exec>> /\ NoFault

RecoverRevokes(w) ==
  /\ stage[w] = "revoke"
  /\ RevokeLease(cur[w][1])
  /\ \/ Go(w, "close", cur[w], todo[w]) /\ NoFault
     \/ Throw(w) /\ Fault
  /\ UNCHANGED <<exec, proc>>
RecoverCloses(w) ==
  /\ stage[w] = "close"
  /\ MarkDelivered(cur[w])
  /\ \/ Loop(w, "recover", Rest(w)) /\ NoFault
     \/ Throw(w) /\ Fault
  /\ UNCHANGED <<exec, proc>>

----------------------------------------------------------------------------
(* Claiming *)

\* listCandidates and selectDispatchCandidates: even a live lease of one's
\* own is no candidate.  The clock the claim will pass on is read here.
ListCandidates(w) ==
  /\ stage[w] = "idle"
  /\ stage' = [stage EXCEPT ![w] = "listed"]
  /\ seen' = [seen EXCEPT ![w] = {s \in Slots : ~Live(lease[s], 0)}]
  /\ UNCHANGED <<leaseVars, todo, cur, age, exec, proc>> /\ NoFault

\* Slots of the batch the claim grants, within the bounds.
Granted(w) ==
  {s \in seen[w] :
     Claimable(lease[s], w, age[w]) /\ lease[s].gen < MaxGen /\ lease[s].token < MaxToken}

Claim(w) ==
  LET jobs == {<<s, lease[s].gen + 1>> : s \in Granted(w)} IN
  /\ stage[w] = "listed"
  /\ ClaimAll(w, Granted(w), age[w])
  /\ exec' = [j \in Jobs |-> IF j \in jobs
                THEN [state |-> "claimed", token |-> lease[j[1]].token + 1, owner |-> w]
                ELSE exec[j]]
  /\ \/ Loop(w, "adopt", jobs) /\ NoFault
     \/ jobs # {} /\ Throw(w) /\ Fault
  /\ UNCHANGED proc

----------------------------------------------------------------------------
(* Adopting *)

\* host.start begins: the first look at the fence.
BeginAdopt(w, j) ==
  /\ stage[w] = "adopt" /\ j \in todo[w]
  /\ IF Holds(w, j) THEN Go(w, "prepare", j, todo[w]) ELSE Throw(w)
  /\ UNCHANGED <<leaseVars, exec, proc>> /\ NoFault

\* The second look, after the environment and the invocation are prepared.
CheckBeforeLaunch(w) ==
  /\ stage[w] = "prepare"
  /\ IF Holds(w, cur[w]) THEN Go(w, "launch", cur[w], todo[w]) ELSE Throw(w)
  /\ UNCHANGED <<leaseVars, exec, proc>> /\ NoFault

Launch(w) ==
  /\ stage[w] = "launch"
  /\ proc' = [proc EXCEPT ![cur[w]] = "alive"]
  /\ Go(w, "attach", cur[w], todo[w])
  /\ UNCHANGED <<leaseVars, exec>> /\ NoFault

\* When the call fails, even if the handle was written, the process is
\* terminated.
Attach(w) ==
  /\ stage[w] = "attach"
  /\ \/ /\ AttachHandle(cur[w])
        /\ Go(w, "starting", cur[w], todo[w])
        /\ UNCHANGED proc /\ NoFault
     \/ /\ AttachHandle(cur[w]) \/ UNCHANGED leaseVars
        /\ proc' = [proc EXCEPT ![cur[w]] = "exited"]
        /\ Throw(w) /\ Fault
  /\ UNCHANGED exec

\* The record is tracked before the start is reported.  A refusal untracks it
\* and cancels the process; a lost answer throws and leaves both.
ReportStarted(w) ==
  LET j == cur[w] IN
  /\ stage[w] = "starting"
  /\ IF Acceptable(j, "started", exec[j].token, age[w])
       THEN /\ AcceptResult(j, "started", exec[j].token)
            /\ exec' = [exec EXCEPT ![j].state = "running"]
            /\ \/ Go(w, "deliver", j, todo[w]) /\ NoFault
               \/ Throw(w) /\ Fault
            /\ UNCHANGED proc
       ELSE /\ exec' = [exec EXCEPT ![j].state = "dropped"]
            /\ proc' = [proc EXCEPT ![j] = "exited"]
            /\ Throw(w) /\ NoFault
            /\ UNCHANGED leaseVars

Deliver(w) ==
  /\ stage[w] = "deliver"
  /\ MarkDelivered(cur[w])
  /\ \/ Loop(w, "adopt", Rest(w)) /\ NoFault
     \/ Throw(w) /\ Fault
  /\ UNCHANGED <<exec, proc>>

----------------------------------------------------------------------------
(* Supervising: tick *)

\* The process finished: its outcome counts only under a current fence.
Finish(w, j) ==
  /\ stage[w] = "tick" /\ j \in todo[w] /\ proc[j] = "exited"
  /\ IF Holds(w, j)
       THEN /\ exec' = [exec EXCEPT ![j].state = "completed"]
            /\ Go(w, "submit", j, todo[w])
       ELSE /\ exec' = [exec EXCEPT ![j].state = "lease_lost"]
            /\ Loop(w, "tick", todo[w] \ {j})
  /\ UNCHANGED <<leaseVars, proc>> /\ NoFault

\* Faulty variant: a result that was not accepted releases the slot as well
SubmitAnyway(w) ==
  LET j == cur[w] IN
  /\ stage[w] = "submit"
  /\ IF Acceptable(j, "finished", exec[j].token, age[w])
       THEN AcceptResult(j, "finished", exec[j].token) ELSE UNCHANGED leaseVars
  /\ Go(w, "release", j, todo[w])
  /\ UNCHANGED <<exec, proc>> /\ NoFault

\* A refused result, and one whose answer is lost, leave the lease as it is;
\* the record stays completed.
Submit(w) ==
  LET j == cur[w]
      ok == Acceptable(j, "finished", exec[j].token, age[w])
  IN
  /\ stage[w] = "submit"
  /\ IF ok THEN AcceptResult(j, "finished", exec[j].token) ELSE UNCHANGED leaseVars
  /\ \/ ok /\ Go(w, "release", j, todo[w]) /\ NoFault
     \/ ~ok /\ Loop(w, "tick", Rest(w)) /\ NoFault
     \/ ok /\ Loop(w, "tick", Rest(w)) /\ Fault
  /\ UNCHANGED <<exec, proc>>

Release(w) ==
  LET j == cur[w] IN
  /\ stage[w] = "release"
  /\ ReleaseLease(j[1], j[2], exec[j].token, w)
  /\ \/ Loop(w, "tick", Rest(w)) /\ NoFault
     \/ Throw(w) /\ Fault
  /\ UNCHANGED <<exec, proc>>


\* Still running: renew.  A lost answer throws, and the record keeps a token
\* that is no longer current.  A refusal, for whatever reason, stops it.
Renew(w, j) ==
  LET s == j[1] IN
  /\ stage[w] = "tick" /\ j \in todo[w] /\ proc[j] = "alive"
  /\ \/ /\ Renewable(lease[s], j[2], exec[j].token, w, age[w])
        /\ lease[s].token < MaxToken
        /\ RenewLease(s, age[w])
        /\ \/ /\ exec' = [exec EXCEPT ![j].token = lease[s].token + 1]
              /\ Loop(w, "tick", todo[w] \ {j}) /\ NoFault
           \/ Throw(w) /\ Fault /\ UNCHANGED exec
     \/ /\ ~Renewable(lease[s], j[2], exec[j].token, w, age[w])
        /\ Go(w, "stop", j, todo[w])
        /\ UNCHANGED <<leaseVars, exec>> /\ NoFault
  /\ UNCHANGED proc

Stop(w) ==
  /\ stage[w] = "stop"
  /\ proc' = [proc EXCEPT ![cur[w]] = "exited"]
  /\ exec' = [exec EXCEPT ![cur[w]].state = "lease_lost"]
  /\ Go(w, "report", cur[w], todo[w])
  /\ UNCHANGED leaseVars /\ NoFault

\* An error of this report is only counted.
ReportLost(w) ==
  LET j == cur[w] IN
  /\ stage[w] = "report"
  /\ IF Acceptable(j, "lease_lost", exec[j].token, age[w])
       THEN AcceptResult(j, "lease_lost", exec[j].token) ELSE UNCHANGED leaseVars
  /\ Loop(w, "tick", Rest(w))
  /\ UNCHANGED <<exec, proc>> /\ NoFault

----------------------------------------------------------------------------
(* The world *)

\* A call fails and nothing was done: a read, a write that did not commit, a
\* process that did not start or could not be cancelled.  It ends the cycle,
\* but for the report of an end, whose failure is caught.  A start that could
\* not be reported is tracked already.
CallFails(w) ==
  /\ stage[w] \notin {"down", "thrown", "attach"} /\ Fault
  /\ IF stage[w] \in {"submit", "report"} THEN Loop(w, "tick", Rest(w)) ELSE Throw(w)
  /\ exec' = IF stage[w] = "starting" THEN [exec EXCEPT ![cur[w]].state = "running"] ELSE exec
  /\ UNCHANGED <<leaseVars, proc>>

\* A crash takes the worker's memory; any of its processes may survive.
Crash(w) ==
  /\ stage[w] # "down"
  /\ Fault
  /\ Go(w, "down", NoJob, {})
  /\ exec' = [j \in Jobs |->
       IF exec[j].owner = w /\ exec[j].state \in {"claimed", "running"}
         THEN [exec[j] EXCEPT !.state = "dropped"] ELSE exec[j]]
  /\ \E gone \in SUBSET {j \in Jobs : exec[j].owner = w /\ proc[j] = "alive"} :
       proc' = [j \in Jobs |-> IF j \in gone THEN "exited" ELSE proc[j]]
  /\ UNCHANGED leaseVars

Exit(j) ==
  /\ proc[j] = "alive"
  /\ proc' = [proc EXCEPT ![j] = "exited"]
  /\ UNCHANGED <<leaseVars, workerVars, exec>> /\ NoFault

Clock ==
  /\ \A w \in Workers : stage[w] \in Dated => age[w] < MaxAge
  /\ Elapse
  /\ age' = [w \in Workers |-> IF stage[w] \in Dated THEN age[w] + 1 ELSE age[w]]
  /\ UNCHANGED <<stage, seen, todo, cur, exec, proc>> /\ NoFault

----------------------------------------------------------------------------

Recover(w) ==
  \/ RecoverRevokes(w) \/ RecoverCloses(w)
  \/ \E j \in Jobs : RecoverKeeps(w, j) \/ RecoverFrees(w, j)
Adopt(w) ==
  \/ CheckBeforeLaunch(w) \/ Launch(w) \/ Attach(w) \/ ReportStarted(w) \/ Deliver(w)
  \/ \E j \in Jobs : BeginAdopt(w, j)
Tick(w) ==
  \/ Submit(w) \/ Release(w) \/ Stop(w) \/ ReportLost(w)
  \/ \E j \in Jobs : Finish(w, j) \/ Renew(w, j)
Work(w) ==
  Start(w) \/ Resume(w) \/ Recover(w) \/ ListCandidates(w) \/ Claim(w) \/ Adopt(w) \/ Tick(w)

Next ==
  \/ \E w \in Workers : Work(w) \/ CallFails(w) \/ Crash(w)
  \/ \E j \in Jobs : Exit(j)
  \/ Clock

Spec == Init /\ [][Next]_vars

\* Workers are kept running and the clock runs.  A process may run for ever, except at the bound of its renewals.
FairSpec ==
  /\ Spec
  /\ \A w \in Workers : WF_vars(Work(w))
  /\ WF_vars(Clock)
  /\ \A j \in Jobs : WF_vars(lease[j[1]].token = MaxToken /\ Exit(j))

----------------------------------------------------------------------------
(* Properties *)

WorkersTypeOK ==
  /\ stage \in [Workers -> Stages]
  /\ seen \in [Workers -> SUBSET Slots]
  /\ todo \in [Workers -> SUBSET Jobs]
  /\ cur \in [Workers -> Jobs \cup {NoJob}]
  /\ age \in [Workers -> 0..MaxAge]
RecordsTypeOK ==
  /\ exec \in [Jobs -> [state : {"none", "claimed", "running", "completed", "lease_lost", "dropped"},
                        token : 0..MaxToken, owner : Workers \cup {NoWorker}]]
  /\ proc \in [Jobs -> {"none", "alive", "exited"}]
  /\ faults \in 0..MaxFaults

\* Every variable has its type; in particular an expired lease stays "leased"
\* on record until it is claimed, released or revoked.
RuntimeTypeOK == LeasesTypeOK /\ WorkersTypeOK /\ RecordsTypeOK

\* The type invariant and what it needs to be kept: the steps that handle an
\* instruction have one.
Handling == Stages \ {"down", "recover", "idle", "listed", "adopt", "tick", "thrown"}
HandlesJobs == \A w \in Workers : stage[w] \in Handling => cur[w] \in Jobs

\* The lease row of a slot is ahead of every record and result of the slot.
RecordsBehind ==
  \A j \in Jobs :
    LET l == lease[j[1]] IN
    /\ j[2] < l.gen => exec[j].token < l.token
    /\ j[2] = l.gen => exec[j].token <= l.token
    /\ j[2] > l.gen => exec[j].token = 0
InboxBehind ==
  \A r \in inbox :
    LET l == lease[r.job[1]] IN
    /\ r.job[2] <= l.gen /\ r.token <= l.token
    /\ r.job[2] < l.gen => r.token < l.token

\* Who is about to release a slot has made a result durable for it.
ReleasesWithResult ==
  \A w \in Workers :
    stage[w] = "release" => \E r \in inbox : r.job = cur[w] /\ r.kind = "finished"

\* A fencing token alone tells the generations of a slot apart, whatever
\* renewals, lost answers and restarts came between: no execution and no
\* accepted result of an earlier generation has a token as high as the lease
\* of a later one.
TokenTellsGenerations ==
  \A j \in Jobs :
    j[2] < lease[j[1]].gen =>
      /\ exec[j].token < lease[j[1]].token
      /\ \A r \in inbox : r.job = j => r.token < lease[j[1]].token

\* A slot is released only when the result of its generation is durable: a
\* result that was refused keeps the lease until it expires.
ReleasedAfterResult ==
  \A s \in Slots :
    lease[s].status = "released" =>
      \E r \in inbox : r.job = <<s, lease[s].gen>> /\ r.kind = "finished"

\* Recovery never meets an intent of a generation that was replaced when it
\* asked for the outstanding ones.
OutstandingIsCurrent == \A j \in outstanding : j[2] = lease[j[1]].gen

\* Results as the inbox promises them: for the generation that holds the
\* slot, one start and then one end.
Fenced == INSTANCE FencedSlot WITH
  generation <- [s \in Slots |-> lease[s].gen],
  started <- {j \in Jobs : StartedIn(inbox, j)},
  ended <- {j \in Jobs : EndedIn(inbox, j)}
ImplementsFencedSlot == Fenced!FencedSpec

\* The instructions another generation may follow within the bound.
Replaceable == {j \in Jobs : j[2] < MaxGen}


\* A slot does not stay with one generation: whatever crashed, was refused or
\* got lost, it gives a result, is settled, or is claimed anew.
SlotMovesOn ==
  \A j \in Replaceable :
    lease[j[1]].gen = j[2]
      ~> \/ lease[j[1]].gen > j[2] \/ EndedIn(inbox, j)
         \/ lease[j[1]].token = MaxToken
=============================================================================
