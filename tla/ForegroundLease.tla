-------------------------- MODULE ForegroundLease --------------------------
(***************************************************************************)
(* The lease on the one foreground input stream: in each process a queue   *)
(* of requests served in order, between processes a lock directory with    *)
(* an owner record in it.                                                  *)
(*                                                                         *)
(* JavaScript runs a process's own events only while it awaits something,  *)
(* but every file system call is a step of its own between those of other  *)
(* processes.  A process that crashes does not come back; one that is      *)
(* started later has another pid.                                          *)
(***************************************************************************)
EXTENDS Naturals, Sequences, SequencesExt

CONSTANTS
  Processes,  \* processes that share the lock path
  Requests,   \* calls of run
  HomeOf,     \* the process of each request
  Signalled,  \* requests that pass an AbortSignal
  Nobody,     \* no request
  StaleAge    \* staleMs

ASSUME ForegroundAssumption ==
  /\ HomeOf \in [Requests -> Processes]
  /\ Nobody \notin Requests
  /\ StaleAge \in Nat \ {0}

VARIABLES
  up,       \* processes that run
  queue,    \* pending: requests that wait in each process
  cur,      \* the request each process serves
  step,     \* where each process's drain loop is
  found,    \* the owner record the process has read
  state,    \* what became of each request
  aborted,  \* requests whose signal has fired
  lock      \* the lock directory, whose record is in it, and its age
vars == <<up, queue, cur, step, found, state, aborted, lock>>

NoLock == [made |-> FALSE, owner |-> Nobody, age |-> 0]
FreshLock(r) == [made |-> TRUE, owner |-> r, age |-> 0]

Init ==
  /\ up = Processes
  /\ queue = [p \in Processes |-> <<>>]
  /\ cur = [p \in Processes |-> Nobody]
  /\ step = [p \in Processes |-> "idle"]
  /\ found = [p \in Processes |-> Nobody]
  /\ state = [r \in Requests |-> "new"]
  /\ aborted = {}
  /\ lock = NoLock

At(p, st) == p \in up /\ step[p] = st
Go(p, st) == step' = [step EXCEPT ![p] = st]

\* The process is done with its request and looks at its queue again.
Settle(p, outcome) ==
  /\ state' = [state EXCEPT ![cur[p]] = outcome]
  /\ cur' = [cur EXCEPT ![p] = Nobody]
  /\ Go(p, "next")

----------------------------------------------------------------------------
(* Events of a process: calls and aborts *)

Awaiting(p) == p \in up /\ step[p] \in {"idle", "poll", "operate"}

\* run(): refused at once when the signal has fired, else queued; an idle
\* process begins to drain.
Ask(r) ==
  LET p == HomeOf[r] IN
  /\ state[r] = "new" /\ Awaiting(p)
  /\ IF r \in aborted
       THEN /\ state' = [state EXCEPT ![r] = "cancelled"]
            /\ UNCHANGED <<queue, step>>
       ELSE /\ state' = [state EXCEPT ![r] = "queued"]
            /\ queue' = [queue EXCEPT ![p] = Append(@, r)]
            /\ IF step[p] = "idle" THEN Go(p, "next") ELSE UNCHANGED step
  /\ UNCHANGED <<up, cur, found, aborted, lock>>

\* A queued request leaves the queue; one that polls for the lock gives up;
\* to one whose operation runs the lease does nothing.
Abort(r) ==
  LET p == HomeOf[r] IN
  /\ r \in Signalled \ aborted /\ Awaiting(p)
  /\ aborted' = aborted \cup {r}
  /\ \/ /\ state[r] = "queued"
        /\ state' = [state EXCEPT ![r] = "cancelled"]
        /\ \E i \in DOMAIN queue[p] :
             queue[p][i] = r /\ queue' = [queue EXCEPT ![p] = RemoveAt(@, i)]
        /\ UNCHANGED <<cur, step>>
     \/ /\ state[r] = "started" /\ step[p] = "poll"
        /\ Settle(p, "refused")
        /\ UNCHANGED queue
     \/ /\ state[r] = "new" \/ (state[r] = "started" /\ step[p] = "operate")
        /\ UNCHANGED <<state, queue, cur, step>>
  /\ UNCHANGED <<up, found, lock>>

----------------------------------------------------------------------------
(* drain and acquireSharedLease *)

Shift(p) ==
  /\ At(p, "next")
  /\ IF queue[p] = <<>>
       THEN Go(p, "idle") /\ UNCHANGED <<queue, cur, state>>
       ELSE /\ queue' = [queue EXCEPT ![p] = Tail(@)]
            /\ cur' = [cur EXCEPT ![p] = Head(queue[p])]
            /\ state' = [state EXCEPT ![Head(queue[p])] = "started"]
            /\ Go(p, "mkdir")
  /\ UNCHANGED <<up, found, aborted, lock>>

Mkdir(p) ==
  /\ At(p, "mkdir")
  /\ IF lock.made
       THEN Go(p, "read") /\ UNCHANGED lock
       ELSE Go(p, "write") /\ lock' = FreshLock(Nobody)
  /\ UNCHANGED <<up, queue, cur, found, state, aborted>>

\* The owner record goes into a directory that may meanwhile be gone, and the
\* request fails, or be another's: if that has its record, the directory is
\* removed, and EEXIST is taken for the answer of mkdir.
Write(p) ==
  /\ At(p, "write")
  /\ \/ /\ ~lock.made
        /\ Settle(p, "refused")
        /\ UNCHANGED lock
     \/ /\ lock.made /\ lock.owner = Nobody
        /\ lock' = FreshLock(cur[p])
        /\ Go(p, "operate")
        /\ UNCHANGED <<cur, state>>
     \/ /\ lock.made /\ lock.owner # Nobody
        /\ lock' = NoLock
        /\ Go(p, "read")
        /\ UNCHANGED <<cur, state>>
  /\ UNCHANGED <<up, queue, found, aborted>>

Read(p) ==
  /\ At(p, "read")
  /\ found' = [found EXCEPT ![p] = lock.owner]
  /\ Go(p, "judge")
  /\ UNCHANGED <<up, queue, cur, state, aborted, lock>>

\* Faulty variant: only the record of a dead process gives a lock up
JudgeRecords(p) ==
  /\ At(p, "judge")
  /\ Go(p, IF found[p] # Nobody /\ HomeOf[found[p]] \notin up THEN "inspect" ELSE "poll")
  /\ found' = [found EXCEPT ![p] = Nobody]
  /\ UNCHANGED <<up, queue, cur, state, aborted, lock>>

\* isAlive, then statSync: a directory that is gone counts as stale.
Reclaimable(p) ==
  IF found[p] # Nobody THEN HomeOf[found[p]] \notin up
    ELSE ~lock.made \/ lock.age >= StaleAge
Judge(p) ==
  /\ At(p, "judge")
  /\ Go(p, IF Reclaimable(p) THEN "inspect" ELSE "poll")
  /\ found' = [found EXCEPT ![p] = Nobody]
  /\ UNCHANGED <<up, queue, cur, state, aborted, lock>>

\* lstat and readdir of removeStaleSharedLock: they throw on a missing
\* directory, and the request fails.
Inspect(p) ==
  /\ At(p, "inspect")
  /\ IF lock.made THEN Go(p, "remove") /\ UNCHANGED <<cur, state>> ELSE Settle(p, "refused")
  /\ UNCHANGED <<up, queue, found, aborted, lock>>

\* Faulty variant: the record of a removed lock can still be read
RemoveKeepingRecord(p) ==
  /\ At(p, "remove")
  /\ lock' = [lock EXCEPT !.made = FALSE]
  /\ Go(p, "mkdir")
  /\ UNCHANGED <<up, queue, cur, found, state, aborted>>

\* Whatever is there by now.
RemoveStale(p) ==
  /\ At(p, "remove")
  /\ lock' = NoLock
  /\ Go(p, "mkdir")
  /\ UNCHANGED <<up, queue, cur, found, state, aborted>>

Poll(p) ==
  /\ At(p, "poll")
  /\ Go(p, "mkdir")
  /\ UNCHANGED <<up, queue, cur, found, state, aborted, lock>>

\* Faulty variant: an operation that was aborted does not get to the release
FinishOrLeave(p) ==
  /\ At(p, "operate")
  /\ state' = [state EXCEPT ![cur[p]] = "done"]
  /\ IF cur[p] \in aborted
       THEN Go(p, "next") /\ cur' = [cur EXCEPT ![p] = Nobody]
       ELSE Go(p, "release") /\ UNCHANGED cur
  /\ UNCHANGED <<up, queue, found, aborted, lock>>

\* The operation resolves or rejects; either way the lease is released next.
Finish(p) ==
  /\ At(p, "operate")
  /\ state' = [state EXCEPT ![cur[p]] = "done"]
  /\ Go(p, "release")
  /\ UNCHANGED <<up, queue, cur, found, aborted, lock>>

\* The release reads the record and removes the directory only under its own
\* token; these are two calls.
ReadOwn(p) ==
  /\ At(p, "release")
  /\ IF lock.owner = cur[p]
       THEN Go(p, "drop") /\ UNCHANGED cur
       ELSE Go(p, "next") /\ cur' = [cur EXCEPT ![p] = Nobody]
  /\ UNCHANGED <<up, queue, found, state, aborted, lock>>
Drop(p) ==
  /\ At(p, "drop")
  /\ lock' = NoLock
  /\ Go(p, "next")
  /\ cur' = [cur EXCEPT ![p] = Nobody]
  /\ UNCHANGED <<up, queue, found, state, aborted>>

----------------------------------------------------------------------------
(* The world *)

Crash(p) ==
  /\ p \in up
  /\ up' = up \ {p}
  /\ UNCHANGED <<queue, cur, step, found, state, aborted, lock>>

\* A process that runs writes its record well within staleMs.
Clock ==
  /\ lock.made /\ lock.age < StaleAge
  /\ ~\E p \in up : step[p] = "write"
  /\ lock' = [lock EXCEPT !.age = @ + 1]
  /\ UNCHANGED <<up, queue, cur, step, found, state, aborted>>

----------------------------------------------------------------------------

Acquire(p) ==
  Mkdir(p) \/ Write(p) \/ Read(p) \/ Judge(p) \/ Inspect(p) \/ RemoveStale(p) \/ Poll(p)
Serve(p) == Shift(p) \/ Acquire(p) \/ Finish(p) \/ ReadOwn(p) \/ Drop(p)

Next ==
  \/ \E r \in Requests : Ask(r) \/ Abort(r)
  \/ \E p \in Processes : Serve(p) \/ Crash(p)
  \/ Clock
Spec == Init /\ [][Next]_vars

\* Nothing takes long and nobody crashes: no lock ever counts as stale by age.
PromptSpec == Init /\ [][Next /\ lock'.age = 0 /\ UNCHANGED up]_vars

\* Processes that run go on, operations end, and the clock runs.
FairSpec ==
  /\ Spec
  /\ \A p \in Processes : WF_vars(Serve(p))
  /\ WF_vars(Clock)

----------------------------------------------------------------------------
(* Properties *)

Steps == {"idle", "next", "mkdir", "write", "read", "judge", "inspect", "remove", "poll",
          "operate", "release", "drop"}

\* Every variable has its type; a lock that is not there has no owner.
ForegroundTypeOK ==
  /\ up \subseteq Processes
  /\ queue \in [Processes -> Seq(Requests)]
  /\ cur \in [Processes -> Requests \cup {Nobody}]
  /\ step \in [Processes -> Steps]
  /\ found \in [Processes -> Requests \cup {Nobody}]
  /\ state \in [Requests -> {"new", "queued", "started", "done", "refused", "cancelled"}]
  /\ aborted \subseteq Requests
  /\ lock \in [made : BOOLEAN, owner : Requests \cup {Nobody}, age : 0..StaleAge]
  /\ lock.made \/ lock = NoLock

\* A lock that names a process that runs is in that process's hands: it
\* operates under it or is releasing it.  Nobody reclaims such a lock, so one
\* left behind would close the stream for good.
LiveOwnerHolds ==
  \A r \in Requests :
    lock.owner = r /\ HomeOf[r] \in up =>
      cur[HomeOf[r]] = r /\ step[HomeOf[r]] \in {"operate", "release", "drop"}

\* A request that was queued is answered, whoever crashed with the lock, even
\* between making the directory and writing its record.
EveryRequestSettles ==
  \A r \in Requests :
    state[r] \in {"queued", "started"}
      ~> state[r] \in {"done", "refused", "cancelled"} \/ HomeOf[r] \notin up

----------------------------------------------------------------------------
(* What the documentation says and the code does not do *)

\* "Keep the one real Windows foreground stream serialized": two processes do
\* not operate at once.
StreamSerialized ==
  \A p, q \in up : step[p] = "operate" /\ step[q] = "operate" => p = q
=============================================================================
