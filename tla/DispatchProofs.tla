--------------------------- MODULE DispatchProofs ---------------------------
(***************************************************************************)
(* The dispatch of missions for every value of the constants.              *)
(*                                                                         *)
(* The invariant has three parts: of the store (LeaseInv), of the          *)
(* execution records (RecordInv) and of the workers (CallerInv).  The      *)
(* first lemmas say what each transaction keeps, the next ones what moving *)
(* a worker on keeps; each action of Next is then a transaction, a change  *)
(* of records and a move.  At the end every step is mapped to one of       *)
(* FencedSlot.                                                             *)
(***************************************************************************)
EXTENDS DispatchRuntime, TLAPS

LeaseInv == LeasesTypeOK /\ InboxBehind /\ OutstandingIsCurrent /\ ReleasedAfterResult
RecordInv == RecordsTypeOK /\ RecordsBehind
CallerInv == WorkersTypeOK /\ HandlesJobs /\ ReleasesWithResult
IInv == LeaseInv /\ RecordInv /\ CallerInv

\* What every transaction but a claim does to the rows of the slots.
SlotsKept ==
  \A s \in Slots : lease'[s].gen = lease[s].gen /\ lease'[s].token >= lease[s].token

----------------------------------------------------------------------------
(* The transactions keep the store's part *)

LEMMA JobParts ==
  ASSUME NEW j \in Jobs
  PROVE  j = <<j[1], j[2]>> /\ j[1] \in Slots /\ j[2] \in Gens /\ j[2] \in Nat \ {0}
BY LeasesAssumption DEF Jobs, Gens

LEMMA LeaseTypes ==
  ASSUME LeasesTypeOK, NEW s \in Slots
  PROVE  /\ lease[s].gen \in 0..MaxGen /\ lease[s].token \in 0..MaxToken
         /\ lease[s].gen \in Nat /\ lease[s].token \in Nat
         /\ lease[s].status \in {"none", "leased", "released", "revoked"}
BY LeasesAssumption DEF LeasesTypeOK

LEMMA ClaimKeeps ==
  ASSUME LeaseInv, NEW w \in Workers, NEW chosen \in SUBSET Slots, NEW a \in Nat,
         ClaimAll(w, chosen, a),
         \A s \in chosen : lease[s].gen < MaxGen /\ lease[s].token < MaxToken
  PROVE  LeaseInv' /\ inbox' = inbox
<1> USE LeasesAssumption
<1>0. LeasesTypeOK
  BY DEF LeaseInv
<1>1. \A s \in Slots :
        IF s \in chosen
          THEN /\ lease'[s].gen = lease[s].gen + 1 /\ lease'[s].token = lease[s].token + 1
               /\ lease'[s].holder = w /\ lease'[s].status = "leased"
               /\ lease'[s].left = LeaseDuration - a
          ELSE lease'[s] = lease[s]
  BY DEF ClaimAll, Acquired
<1>2. LeasesTypeOK'
  <2>1. lease' \in [Slots -> [gen : 0..MaxGen, token : 0..MaxToken,
                              holder : Workers \cup {NoWorker},
                              status : {"none", "leased", "released", "revoked"}, left : Int]]
    BY <1>0, LeaseTypes DEF LeasesTypeOK, ClaimAll, Acquired
  <2>2. outstanding' \subseteq Jobs
    BY <1>0, LeaseTypes DEF LeasesTypeOK, ClaimAll, Jobs, Gens
  <2> QED
    BY <1>0, <2>1, <2>2 DEF LeasesTypeOK, ClaimAll
<1>3. inbox' = inbox
  BY DEF ClaimAll
<1>4. InboxBehind'
  <2> SUFFICES ASSUME NEW r \in inbox
               PROVE  LET l == lease'[r.job[1]] IN
                      /\ r.job[2] <= l.gen /\ r.token <= l.token
                      /\ r.job[2] < l.gen => r.token < l.token
    BY <1>3 DEF InboxBehind
  <2>1. r.job \in Jobs /\ r.token \in Nat
    BY <1>0 DEF LeasesTypeOK, Results
  <2> QED
    BY <1>0, <1>1, <2>1, JobParts, LeaseTypes DEF LeaseInv, InboxBehind
<1>5. OutstandingIsCurrent'
  <2> SUFFICES ASSUME NEW j \in outstanding' PROVE j[2] = lease'[j[1]].gen
    BY DEF OutstandingIsCurrent
  <2>1. CASE j \in outstanding /\ j[1] \notin chosen
    <3>1. j \in Jobs
      BY <1>0, <2>1 DEF LeasesTypeOK
    <3> QED
      BY <1>1, <2>1, <3>1, JobParts DEF LeaseInv, OutstandingIsCurrent
  <2>2. CASE \E s \in chosen : j = <<s, lease[s].gen + 1>>
    BY <1>1, <2>2
  <2> QED
    BY <2>1, <2>2 DEF ClaimAll
<1>6. ReleasedAfterResult'
  BY <1>1, <1>3 DEF LeaseInv, ReleasedAfterResult
<1> QED
  BY <1>2, <1>3, <1>4, <1>5, <1>6 DEF LeaseInv

\* A transaction that writes neither generations, intents nor results.
LEMMA RowsKeep ==
  ASSUME LeaseInv, SlotsKept, LeasesTypeOK', inbox' = inbox, outstanding' \subseteq outstanding,
         \A s \in Slots : lease'[s].status = "released" =>
           \/ lease[s].status = "released"
           \/ \E r \in inbox : r.job = <<s, lease[s].gen>> /\ r.kind = "finished"
  PROVE  LeaseInv'
<1>0. LeasesTypeOK
  BY DEF LeaseInv
<1>1. InboxBehind'
  <2> SUFFICES ASSUME NEW r \in inbox
               PROVE  LET l == lease'[r.job[1]] IN
                      /\ r.job[2] <= l.gen /\ r.token <= l.token
                      /\ r.job[2] < l.gen => r.token < l.token
    BY DEF InboxBehind
  <2>1. r.job \in Jobs /\ r.token \in Nat
    BY <1>0, LeasesAssumption DEF LeasesTypeOK, Results
  <2>2. lease'[r.job[1]].token \in Nat
    BY <2>1, JobParts, LeasesAssumption DEF LeasesTypeOK
  <2> QED
    BY <1>0, <2>1, <2>2, JobParts, LeaseTypes DEF LeaseInv, InboxBehind, SlotsKept
<1>2. OutstandingIsCurrent'
  BY <1>0, JobParts DEF LeaseInv, LeasesTypeOK, OutstandingIsCurrent, SlotsKept
<1>3. ReleasedAfterResult'
  BY DEF LeaseInv, ReleasedAfterResult, SlotsKept
<1> QED
  BY <1>1, <1>2, <1>3 DEF LeaseInv

LEMMA RenewKeeps ==
  ASSUME LeaseInv, NEW s \in Slots, NEW a \in Nat, RenewLease(s, a), lease[s].token < MaxToken
  PROVE  LeaseInv' /\ SlotsKept /\ inbox' = inbox /\ lease'[s].token = lease[s].token + 1
<1> USE LeasesAssumption
<1>0. LeasesTypeOK
  BY DEF LeaseInv
<1>1. /\ lease' = [lease EXCEPT ![s] = Renewed(@, a)]
      /\ outstanding' = outstanding /\ attached' = attached /\ inbox' = inbox
  BY DEF RenewLease
<1>2. \A t \in Slots :
        /\ lease'[t].gen = lease[t].gen /\ lease'[t].status = lease[t].status
        /\ lease'[t].token = IF t = s THEN lease[t].token + 1 ELSE lease[t].token
  BY <1>0, <1>1 DEF LeasesTypeOK, Renewed
<1>3. LeasesTypeOK'
  <2>1. Renewed(lease[s], a) \in [gen : 0..MaxGen, token : 0..MaxToken,
                                  holder : Workers \cup {NoWorker},
                                  status : {"none", "leased", "released", "revoked"}, left : Int]
    <3>1. lease[s].token + 1 \in 0..MaxToken /\ LeaseDuration - a \in Int
      BY <1>0, LeaseTypes
    <3> QED
      BY <1>0, <3>1 DEF LeasesTypeOK, Renewed
  <2> QED
    BY <1>0, <1>1, <2>1 DEF LeasesTypeOK
<1>4. SlotsKept
  BY <1>0, <1>2, LeaseTypes DEF SlotsKept
<1> QED
  BY <1>1, <1>2, <1>3, <1>4, RowsKeep DEF LeaseInv, ReleasedAfterResult

LEMMA ReleaseKeeps ==
  ASSUME LeaseInv, NEW s \in Slots, NEW g \in Gens, NEW token, NEW w \in Workers,
         ReleaseLease(s, g, token, w),
         \E r \in inbox : r.job = <<s, g>> /\ r.kind = "finished"
  PROVE  LeaseInv' /\ SlotsKept /\ inbox' = inbox
<1>0. LeasesTypeOK
  BY DEF LeaseInv
<1>1. LeasesTypeOK' /\ SlotsKept
  BY <1>0, LeaseTypes DEF ReleaseLease, LeasesTypeOK, SlotsKept
<1>2. ASSUME NEW t \in Slots, lease'[t].status = "released"
      PROVE  \/ lease[t].status = "released"
             \/ \E r \in inbox : r.job = <<t, lease[t].gen>> /\ r.kind = "finished"
  BY <1>0, <1>2 DEF ReleaseLease, Releasable, FenceCurrent, LeasesTypeOK
<1> QED
  BY <1>1, <1>2, RowsKeep DEF ReleaseLease

LEMMA RevokeKeeps ==
  ASSUME LeaseInv, NEW s \in Slots, RevokeLease(s)
  PROVE  LeaseInv' /\ SlotsKept /\ inbox' = inbox
<1>0. LeasesTypeOK
  BY DEF LeaseInv
<1>1. LeasesTypeOK' /\ SlotsKept
  BY <1>0, LeaseTypes DEF RevokeLease, LeasesTypeOK, SlotsKept
<1>2. \A t \in Slots : lease'[t].status = "released" => lease[t].status = "released"
  BY <1>0 DEF RevokeLease, LeasesTypeOK
<1> QED
  BY <1>1, <1>2, RowsKeep DEF RevokeLease

LEMMA ElapseKeeps ==
  ASSUME LeaseInv, Elapse
  PROVE  LeaseInv' /\ SlotsKept /\ inbox' = inbox
<1>0. LeasesTypeOK
  BY DEF LeaseInv
<1>1. \A t \in Slots :
        /\ lease'[t].gen = lease[t].gen /\ lease'[t].token = lease[t].token
        /\ lease'[t].status = lease[t].status
  BY <1>0 DEF Elapse, LeasesTypeOK
<1>2. LeasesTypeOK'
  BY <1>0, LeasesAssumption DEF Elapse, LeasesTypeOK
<1> QED
  BY <1>0, <1>1, <1>2, LeaseTypes, RowsKeep DEF Elapse, SlotsKept

\* Marking an intent, attaching a handle, or nothing.
LEMMA MarkKeeps ==
  ASSUME LeaseInv,
         \/ UNCHANGED leaseVars
         \/ \E j \in Jobs : MarkDelivered(j) \/ AttachHandle(j)
  PROVE  LeaseInv' /\ SlotsKept /\ inbox' = inbox
<1>0. LeasesTypeOK
  BY DEF LeaseInv
<1>1. /\ lease' = lease /\ inbox' = inbox /\ outstanding' \subseteq outstanding
      /\ LeasesTypeOK'
  BY <1>0 DEF leaseVars, MarkDelivered, AttachHandle, LeasesTypeOK
<1>2. SlotsKept
  BY <1>0, <1>1, LeaseTypes DEF SlotsKept
<1> QED
  BY <1>1, <1>2, RowsKeep

LEMMA AcceptKeeps ==
  ASSUME LeaseInv, NEW j \in Jobs, NEW kind \in Kinds, NEW token \in 0..MaxToken,
         AcceptResult(j, kind, token), lease[j[1]].gen = j[2], lease[j[1]].token = token
  PROVE  LeaseInv' /\ SlotsKept /\ inbox' = inbox \cup {Result(j, kind, token)}
<1>0. LeasesTypeOK
  BY DEF LeaseInv
<1>1. /\ lease' = lease /\ outstanding' = outstanding /\ attached' = attached
      /\ inbox' = inbox \cup {Result(j, kind, token)}
  BY DEF AcceptResult
<1>2. LeasesTypeOK'
  BY <1>0, <1>1 DEF LeasesTypeOK, Results, Result
<1>3. SlotsKept
  BY <1>0, <1>1, LeaseTypes DEF SlotsKept
<1>4. InboxBehind'
  BY <1>0, <1>1, JobParts, LeaseTypes DEF LeaseInv, InboxBehind, Result
<1>5. OutstandingIsCurrent' /\ ReleasedAfterResult'
  BY <1>1 DEF LeaseInv, OutstandingIsCurrent, ReleasedAfterResult
<1> QED
  BY <1>1, <1>2, <1>3, <1>4, <1>5 DEF LeaseInv

----------------------------------------------------------------------------
(* The records and the workers *)

\* Whatever moves in the store, and whatever becomes of an execution: its
\* record stays behind the lease while its token is the old one.
LEMMA RecordsKeep ==
  ASSUME LeaseInv, LeaseInv', RecordInv, SlotsKept, RecordsTypeOK',
         \A j \in Jobs : exec'[j].token = exec[j].token
  PROVE  RecordInv'
<1> SUFFICES ASSUME NEW j \in Jobs
             PROVE  LET l == lease'[j[1]] IN
                    /\ j[2] < l.gen => exec'[j].token < l.token
                    /\ j[2] = l.gen => exec'[j].token <= l.token
                    /\ j[2] > l.gen => exec'[j].token = 0
  BY DEF RecordInv, RecordsBehind
<1>1. exec[j].token \in Nat
  BY LeasesAssumption DEF RecordInv, RecordsTypeOK
<1>2. lease'[j[1]].token \in Nat
  BY JobParts, LeasesAssumption DEF LeaseInv, LeasesTypeOK
<1> QED
  BY <1>1, <1>2, JobParts, LeaseTypes DEF LeaseInv, RecordInv, RecordsBehind, SlotsKept

\* A worker moved on by Go.
LEMMA GoKeeps ==
  ASSUME CallerInv, inbox \subseteq inbox', NEW w \in Workers, NEW st \in Stages,
         NEW c \in Jobs \cup {NoJob}, NEW t \in SUBSET Jobs, Go(w, st, c, t),
         st \in Handling => c \in Jobs,
         st = "release" => \E r \in inbox' : r.job = c /\ r.kind = "finished"
  PROVE  CallerInv'
<1>0. WorkersTypeOK
  BY DEF CallerInv
<1>1. \A v \in Workers :
        /\ stage'[v] = IF v = w THEN st ELSE stage[v]
        /\ cur'[v] = IF v = w THEN c ELSE cur[v]
  BY <1>0 DEF Go, WorkersTypeOK
<1>2. WorkersTypeOK'
  BY <1>0, LeasesAssumption DEF Go, WorkersTypeOK
<1>3. HandlesJobs'
  BY <1>1 DEF CallerInv, HandlesJobs
<1>4. ReleasesWithResult'
  BY <1>1 DEF CallerInv, ReleasesWithResult
<1> QED
  BY <1>2, <1>3, <1>4 DEF CallerInv

LEMMA ThrowKeeps ==
  ASSUME CallerInv, inbox \subseteq inbox', NEW w \in Workers, Throw(w)
  PROVE  CallerInv'
BY GoKeeps, "thrown" \in Stages, "down" \in Stages DEF Throw, Stages, Handling

LEMMA LoopKeeps ==
  ASSUME CallerInv, inbox \subseteq inbox', NEW w \in Workers,
         NEW st \in {"recover", "adopt", "tick"}, NEW rest \in SUBSET Jobs, Loop(w, st, rest)
  PROVE  CallerInv'
<1>1. CASE rest # {}
  <2>1. Go(w, st, NoJob, rest)
    BY <1>1 DEF Loop
  <2> QED
    BY <2>1, GoKeeps DEF Stages, Handling
<1>2. CASE rest = {}
  <2>1. Go(w, Past(w, st), NoJob, IF st = "adopt" THEN Tracked(w) ELSE {})
    BY <1>2 DEF Loop
  <2>2. Past(w, st) \in {"tick", "idle"}
    BY DEF Past
  <2>3. (IF st = "adopt" THEN Tracked(w) ELSE {}) \in SUBSET Jobs
    BY DEF Tracked
  <2> QED
    BY <2>1, <2>2, <2>3, GoKeeps DEF Stages, Handling
<1> QED
  BY <1>1, <1>2

\* What a worker that handles a job may count on.
LEMMA HandledJob ==
  ASSUME CallerInv, NEW w \in Workers, stage[w] \in Handling
  PROVE  cur[w] \in Jobs /\ Rest(w) \in SUBSET Jobs /\ todo[w] \in SUBSET Jobs
BY DEF CallerInv, HandlesJobs, WorkersTypeOK, Rest

----------------------------------------------------------------------------
(* Every step keeps the invariant *)

LEMMA InitHolds == Init => IInv
<1> SUFFICES ASSUME Init PROVE IInv
  OBVIOUS
<1> USE LeasesAssumption, RuntimeAssumption
<1>1. LeaseInv
  BY DEF Init, LeasesInit, NoLease, LeaseInv, LeasesTypeOK, InboxBehind, OutstandingIsCurrent,
         ReleasedAfterResult
<1>2. RecordInv
  BY DEF Init, LeasesInit, NoLease, NoExec, RecordInv, RecordsTypeOK, RecordsBehind, Jobs, Gens
<1>3. CallerInv
  BY DEF Init, CallerInv, WorkersTypeOK, HandlesJobs, ReleasesWithResult, Stages, Handling
<1> QED
  BY <1>1, <1>2, <1>3 DEF IInv

\* A step of the store and of a worker that leaves the tokens alone.
LEMMA PlainStep ==
  ASSUME IInv, LeaseInv', SlotsKept, CallerInv', RecordsTypeOK',
         \A j \in Jobs : exec'[j].token = exec[j].token
  PROVE  IInv'
BY RecordsKeep DEF IInv

LEMMA StartStep ==
  ASSUME IInv, NEW w \in Workers, Start(w) \/ Resume(w) \/ ListCandidates(w)
  PROVE  IInv'
<1> USE DEF IInv
<1>1. UNCHANGED <<leaseVars, exec, proc, faults>>
  BY DEF Start, Resume, ListCandidates, NoFault
<1>2. LeaseInv' /\ SlotsKept /\ inbox' = inbox
  BY <1>1, MarkKeeps
<1>3. RecordsTypeOK' /\ \A j \in Jobs : exec'[j].token = exec[j].token
  BY <1>1 DEF RecordInv, RecordsTypeOK
<1>4. CallerInv'
  <2>1. CASE Start(w)
    BY <1>2, <2>1, LoopKeeps DEF Start, LeaseInv, LeasesTypeOK
  <2>2. CASE Resume(w)
    BY <1>2, <2>2, GoKeeps DEF Resume, Stages, Handling
  <2>3. CASE ListCandidates(w)
    BY <1>2, <2>3 DEF ListCandidates, CallerInv, WorkersTypeOK, HandlesJobs, ReleasesWithResult,
                      Stages, Handling
  <2> QED
    BY <2>1, <2>2, <2>3
<1> QED
  BY <1>2, <1>3, <1>4, PlainStep

LEMMA RecoverStep ==
  ASSUME IInv, NEW w \in Workers, Recover(w)
  PROVE  IInv'
<1> USE DEF IInv
<1>1. ASSUME NEW j \in Jobs, RecoverKeeps(w, j) PROVE IInv'
  <2>1. LeaseInv' /\ SlotsKept /\ inbox' = inbox
    BY <1>1, MarkKeeps DEF RecoverKeeps
  <2>2. RecordsTypeOK' /\ \A k \in Jobs : exec'[k].token = exec[k].token
    BY <1>1 DEF RecoverKeeps, NoFault, RecordInv, RecordsTypeOK
  <2>3. todo[w] \ {j} \in SUBSET Jobs
    BY DEF CallerInv, WorkersTypeOK
  <2>4. CallerInv'
    BY <1>1, <2>1, <2>3, LoopKeeps DEF RecoverKeeps
  <2> QED
    BY <2>1, <2>2, <2>4, PlainStep
<1>2. ASSUME NEW j \in Jobs, RecoverFrees(w, j) PROVE IInv'
  <2>1. LeaseInv' /\ SlotsKept /\ inbox' = inbox
    BY <1>2, MarkKeeps DEF RecoverFrees
  <2>2. RecordsTypeOK' /\ \A k \in Jobs : exec'[k].token = exec[k].token
    BY <1>2 DEF RecoverFrees, NoFault, RecordInv, RecordsTypeOK
  <2>3. todo[w] \in SUBSET Jobs
    BY DEF CallerInv, WorkersTypeOK
  <2>4. CallerInv'
    BY <1>2, <2>1, <2>3, GoKeeps DEF RecoverFrees, Stages
  <2> QED
    BY <2>1, <2>2, <2>4, PlainStep
<1>3. CASE RecoverRevokes(w)
  <2>0. cur[w] \in Jobs /\ todo[w] \in SUBSET Jobs
    BY <1>3, HandledJob DEF RecoverRevokes, Stages, Handling
  <2>1. LeaseInv' /\ SlotsKept /\ inbox' = inbox
    BY <1>3, <2>0, JobParts, RevokeKeeps DEF RecoverRevokes
  <2>2. RecordsTypeOK' /\ \A k \in Jobs : exec'[k].token = exec[k].token
    BY <1>3, RuntimeAssumption DEF RecoverRevokes, Fault, NoFault, RecordInv, RecordsTypeOK
  <2>3. CallerInv'
    BY <1>3, <2>0, <2>1, GoKeeps, ThrowKeeps DEF RecoverRevokes, Stages
  <2> QED
    BY <2>1, <2>2, <2>3, PlainStep
<1>4. CASE RecoverCloses(w)
  <2>0. cur[w] \in Jobs /\ Rest(w) \in SUBSET Jobs
    BY <1>4, HandledJob DEF RecoverCloses, Stages, Handling
  <2>1. LeaseInv' /\ SlotsKept /\ inbox' = inbox
    BY <1>4, <2>0, MarkKeeps DEF RecoverCloses
  <2>2. RecordsTypeOK' /\ \A k \in Jobs : exec'[k].token = exec[k].token
    BY <1>4, RuntimeAssumption DEF RecoverCloses, Fault, NoFault, RecordInv, RecordsTypeOK
  <2>3. CallerInv'
    BY <1>4, <2>0, <2>1, LoopKeeps, ThrowKeeps DEF RecoverCloses
  <2> QED
    BY <2>1, <2>2, <2>3, PlainStep
<1> QED
  BY <1>1, <1>2, <1>3, <1>4 DEF Recover

\* A claim gives the new records the tokens of the new rows.
LEMMA ClaimStep ==
  ASSUME IInv, NEW w \in Workers, Claim(w)
  PROVE  IInv'
<1> USE LeasesAssumption DEF IInv
<1> DEFINE chosen == Granted(w)
           jobs == {<<s, lease[s].gen + 1>> : s \in chosen}
<1>0. LeasesTypeOK /\ chosen \in SUBSET Slots /\ age[w] \in Nat
  BY DEF LeaseInv, CallerInv, WorkersTypeOK, Granted
<1>1. \A s \in chosen : lease[s].gen < MaxGen /\ lease[s].token < MaxToken
  BY DEF Granted
<1>2. ClaimAll(w, chosen, age[w])
  BY DEF Claim
<1>3. LeaseInv' /\ inbox' = inbox
  BY <1>0, <1>1, <1>2, ClaimKeeps
<1>4. jobs \in SUBSET Jobs
  BY <1>0, <1>1, LeaseTypes DEF Jobs, Gens
<1>5. \A j \in Jobs :
        /\ j \in jobs <=> j[1] \in chosen /\ j[2] = lease[j[1]].gen + 1
        /\ exec'[j] = IF j \in jobs
                        THEN [state |-> "claimed", token |-> lease[j[1]].token + 1, owner |-> w]
                        ELSE exec[j]
  BY JobParts DEF Claim
<1>6. RecordsTypeOK'
  <2>1. exec' \in [Jobs -> [state : {"none", "claimed", "running", "completed", "lease_lost",
                                     "dropped"},
                           token : 0..MaxToken, owner : Workers \cup {NoWorker}]]
    <3>1. \A j \in jobs : lease[j[1]].token + 1 \in 0..MaxToken
      BY <1>0, <1>1, LeaseTypes
    <3> QED
      BY <3>1, <1>4 DEF Claim, RecordInv, RecordsTypeOK
  <2> QED
    BY <2>1, RuntimeAssumption DEF Claim, Fault, NoFault, RecordInv, RecordsTypeOK
<1>7. RecordsBehind'
  <2> SUFFICES ASSUME NEW j \in Jobs
               PROVE  LET l == lease'[j[1]] IN
                      /\ j[2] < l.gen => exec'[j].token < l.token
                      /\ j[2] = l.gen => exec'[j].token <= l.token
                      /\ j[2] > l.gen => exec'[j].token = 0
    BY DEF RecordsBehind
  <2>1. j[1] \in Slots /\ j[2] \in Nat /\ exec[j].token \in Nat
    BY JobParts DEF RecordInv, RecordsTypeOK
  <2>2. lease[j[1]].gen \in Nat /\ lease[j[1]].token \in Nat
    BY <1>0, <2>1, LeaseTypes
  <2>3. IF j[1] \in chosen
          THEN /\ lease'[j[1]].gen = lease[j[1]].gen + 1
               /\ lease'[j[1]].token = lease[j[1]].token + 1
          ELSE lease'[j[1]] = lease[j[1]]
    BY <1>2, <2>1 DEF ClaimAll, Acquired
  <2>4. /\ j[2] < lease[j[1]].gen => exec[j].token < lease[j[1]].token
        /\ j[2] = lease[j[1]].gen => exec[j].token <= lease[j[1]].token
        /\ j[2] > lease[j[1]].gen => exec[j].token = 0
    BY DEF RecordInv, RecordsBehind
  <2>5. CASE j[1] \notin chosen
    BY <1>5, <2>3, <2>4, <2>5
  <2>6. CASE j \in jobs
    <3> HIDE DEF jobs, chosen
    <3>1. j[1] \in chosen /\ j[2] = lease[j[1]].gen + 1
      BY <1>5, <2>6
    <3>2. exec'[j] = [state |-> "claimed", token |-> lease[j[1]].token + 1, owner |-> w]
      BY <1>5, <2>6
    <3>3. exec'[j].token = lease'[j[1]].token /\ j[2] = lease'[j[1]].gen
      BY <2>3, <3>1, <3>2
    <3> QED
      BY <2>1, <2>2, <2>3, <3>1, <3>3
  <2>7. CASE j[1] \in chosen /\ j \notin jobs
    <3>1. exec'[j].token = exec[j].token /\ j[2] # lease[j[1]].gen + 1
      BY <1>5, <2>7
    <3> QED
      BY <2>1, <2>2, <2>3, <2>4, <2>7, <3>1
  <2> QED
    BY <2>5, <2>6, <2>7
<1>8. CallerInv'
  <2>1. CASE Loop(w, "adopt", jobs)
    BY <1>3, <1>4, <2>1, LoopKeeps
  <2>2. CASE Throw(w)
    BY <1>3, <2>2, ThrowKeeps
  <2> QED
    BY <2>1, <2>2 DEF Claim
<1> QED
  BY <1>3, <1>6, <1>7, <1>8 DEF RecordInv

\* Reporting a result under the record's token, if it is acceptable.
LEMMA ReportKeeps ==
  ASSUME IInv, NEW j \in Jobs, NEW kind \in Kinds, NEW a,
         IF Acceptable(j, kind, exec[j].token, a)
           THEN AcceptResult(j, kind, exec[j].token) ELSE UNCHANGED leaseVars
  PROVE  /\ LeaseInv' /\ SlotsKept /\ inbox \subseteq inbox'
         /\ Acceptable(j, kind, exec[j].token, a) => Result(j, kind, exec[j].token) \in inbox'
<1>1. CASE Acceptable(j, kind, exec[j].token, a)
  <2>1. exec[j].token \in 0..MaxToken
    BY DEF IInv, RecordInv, RecordsTypeOK
  <2>2. lease[j[1]].gen = j[2] /\ lease[j[1]].token = exec[j].token
    BY <1>1 DEF Acceptable
  <2> QED
    BY <1>1, <2>1, <2>2, AcceptKeeps DEF IInv
<1>2. CASE ~Acceptable(j, kind, exec[j].token, a)
  BY <1>2, MarkKeeps DEF IInv
<1> QED
  BY <1>1, <1>2

LEMMA AdoptStep ==
  ASSUME IInv, NEW w \in Workers, Adopt(w)
  PROVE  IInv'
<1> USE DEF IInv
<1>1. ASSUME NEW j \in Jobs, BeginAdopt(w, j) PROVE IInv'
  <2>1. LeaseInv' /\ SlotsKept /\ inbox' = inbox
    BY <1>1, MarkKeeps DEF BeginAdopt
  <2>2. RecordsTypeOK' /\ \A k \in Jobs : exec'[k].token = exec[k].token
    BY <1>1 DEF BeginAdopt, NoFault, RecordInv, RecordsTypeOK
  <2>3. todo[w] \in SUBSET Jobs
    BY DEF CallerInv, WorkersTypeOK
  <2>4. CallerInv'
    BY <1>1, <2>1, <2>3, GoKeeps, ThrowKeeps DEF BeginAdopt, Stages
  <2> QED
    BY <2>1, <2>2, <2>4, PlainStep
<1>2. CASE CheckBeforeLaunch(w)
  <2>0. cur[w] \in Jobs /\ todo[w] \in SUBSET Jobs
    BY <1>2, HandledJob DEF CheckBeforeLaunch, Stages, Handling
  <2>1. LeaseInv' /\ SlotsKept /\ inbox' = inbox
    BY <1>2, MarkKeeps DEF CheckBeforeLaunch
  <2>2. RecordsTypeOK' /\ \A k \in Jobs : exec'[k].token = exec[k].token
    BY <1>2 DEF CheckBeforeLaunch, NoFault, RecordInv, RecordsTypeOK
  <2>3. CallerInv'
    BY <1>2, <2>0, <2>1, GoKeeps, ThrowKeeps DEF CheckBeforeLaunch, Stages
  <2> QED
    BY <2>1, <2>2, <2>3, PlainStep
<1>3. CASE Launch(w)
  <2>0. cur[w] \in Jobs /\ todo[w] \in SUBSET Jobs
    BY <1>3, HandledJob DEF Launch, Stages, Handling
  <2>1. LeaseInv' /\ SlotsKept /\ inbox' = inbox
    BY <1>3, MarkKeeps DEF Launch
  <2>2. RecordsTypeOK' /\ \A k \in Jobs : exec'[k].token = exec[k].token
    BY <1>3 DEF Launch, NoFault, RecordInv, RecordsTypeOK
  <2>3. CallerInv'
    BY <1>3, <2>0, <2>1, GoKeeps DEF Launch, Stages
  <2> QED
    BY <2>1, <2>2, <2>3, PlainStep
<1>4. CASE Attach(w)
  <2>0. cur[w] \in Jobs /\ todo[w] \in SUBSET Jobs
    BY <1>4, HandledJob DEF Attach, Stages, Handling
  <2>1. LeaseInv' /\ SlotsKept /\ inbox' = inbox
    BY <1>4, <2>0, MarkKeeps DEF Attach
  <2>2. RecordsTypeOK' /\ \A k \in Jobs : exec'[k].token = exec[k].token
    BY <1>4, RuntimeAssumption DEF Attach, Fault, NoFault, RecordInv, RecordsTypeOK
  <2>3. CallerInv'
    BY <1>4, <2>0, <2>1, GoKeeps, ThrowKeeps DEF Attach, Stages
  <2> QED
    BY <2>1, <2>2, <2>3, PlainStep
<1>5. CASE ReportStarted(w)
  <2>0. cur[w] \in Jobs /\ todo[w] \in SUBSET Jobs
    BY <1>5, HandledJob DEF ReportStarted, Stages, Handling
  <2>1. LeaseInv' /\ SlotsKept /\ inbox \subseteq inbox'
    BY <1>5, <2>0, ReportKeeps DEF ReportStarted, Kinds
  <2>2. RecordsTypeOK' /\ \A k \in Jobs : exec'[k].token = exec[k].token
    BY <1>5, <2>0, RuntimeAssumption DEF ReportStarted, Fault, NoFault, RecordInv, RecordsTypeOK
  <2>3. CallerInv'
    BY <1>5, <2>0, <2>1, GoKeeps, ThrowKeeps DEF ReportStarted, Stages
  <2> QED
    BY <2>1, <2>2, <2>3, PlainStep
<1>6. CASE Deliver(w)
  <2>0. cur[w] \in Jobs /\ Rest(w) \in SUBSET Jobs
    BY <1>6, HandledJob DEF Deliver, Stages, Handling
  <2>1. LeaseInv' /\ SlotsKept /\ inbox' = inbox
    BY <1>6, <2>0, MarkKeeps DEF Deliver
  <2>2. RecordsTypeOK' /\ \A k \in Jobs : exec'[k].token = exec[k].token
    BY <1>6, RuntimeAssumption DEF Deliver, Fault, NoFault, RecordInv, RecordsTypeOK
  <2>3. CallerInv'
    BY <1>6, <2>0, <2>1, LoopKeeps, ThrowKeeps DEF Deliver
  <2> QED
    BY <2>1, <2>2, <2>3, PlainStep
<1> QED
  BY <1>1, <1>2, <1>3, <1>4, <1>5, <1>6 DEF Adopt

\* The one step besides a claim that writes a token: the record takes over the
\* one the renewal returned.
LEMMA RenewStep ==
  ASSUME IInv, NEW w \in Workers, NEW j \in Jobs, Renew(w, j)
  PROVE  IInv'
<1> USE DEF IInv
<1>0. /\ todo[w] \in SUBSET Jobs /\ todo[w] \ {j} \in SUBSET Jobs /\ age[w] \in Nat
      /\ LeasesTypeOK /\ RecordsTypeOK
  BY LeasesAssumption DEF CallerInv, WorkersTypeOK, LeaseInv, RecordInv
<1>1. CASE RenewLease(j[1], age[w]) /\ lease[j[1]].token < MaxToken
  <2>1. /\ LeaseInv' /\ SlotsKept /\ inbox' = inbox
        /\ lease'[j[1]].token = lease[j[1]].token + 1
    BY <1>0, <1>1, JobParts, RenewKeeps
  <2>2. CallerInv'
    BY <1>0, <2>1, LoopKeeps, ThrowKeeps, GoKeeps DEF Renew, Stages
  <2>3. CASE exec' = [exec EXCEPT ![j].token = lease[j[1]].token + 1] /\ NoFault
    <3>1. Renewable(lease[j[1]], j[2], exec[j].token, w, age[w]) => lease[j[1]].gen = j[2]
      BY DEF Renewable, FenceCurrent
    <3>2. lease[j[1]].gen = j[2]
      <4>1. lease[j[1]].token + 1 # lease[j[1]].token
        BY <1>0, JobParts, LeaseTypes
      <4>2. Renewable(lease[j[1]], j[2], exec[j].token, w, age[w])
        BY <1>0, <2>1, <4>1, JobParts DEF Renew, leaseVars
      <4> QED
        BY <3>1, <4>2
    <3>3. lease[j[1]].token + 1 \in 0..MaxToken
      BY <1>0, <1>1, JobParts, LeaseTypes, LeasesAssumption
    <3>4. RecordsTypeOK'
      BY <1>0, <2>3, <3>3 DEF Renew, NoFault, RecordsTypeOK
    <3>5. \A k \in Jobs : exec'[k].token = IF k = j THEN lease[j[1]].token + 1 ELSE exec[k].token
      BY <1>0, <2>3 DEF RecordsTypeOK
    <3>6. ASSUME NEW k \in Jobs
          PROVE  LET l == lease'[k[1]] IN
                 /\ k[2] < l.gen => exec'[k].token < l.token
                 /\ k[2] = l.gen => exec'[k].token <= l.token
                 /\ k[2] > l.gen => exec'[k].token = 0
      <4>1. exec[k].token \in Nat /\ lease'[k[1]].token \in Nat
        BY <1>0, <2>1, JobParts, LeasesAssumption DEF RecordsTypeOK, LeaseInv, LeasesTypeOK
      <4>2. CASE k = j
        BY <1>0, <2>1, <3>2, <3>5, <4>1, <4>2, JobParts, LeaseTypes DEF SlotsKept
      <4>3. CASE k # j
        BY <1>0, <2>1, <3>5, <4>1, <4>3, JobParts, LeaseTypes
        DEF RecordInv, RecordsBehind, SlotsKept
      <4> QED
        BY <4>2, <4>3
    <3> QED
      BY <2>1, <2>2, <3>4, <3>6 DEF RecordInv, RecordsBehind
  <2>4. CASE UNCHANGED exec
    <3>1. RecordsTypeOK' /\ \A k \in Jobs : exec'[k].token = exec[k].token
      BY <1>0, <2>4, RuntimeAssumption DEF Renew, Fault, NoFault, RecordsTypeOK
    <3> QED
      BY <2>1, <2>2, <3>1, PlainStep
  <2> QED
    BY <2>3, <2>4 DEF Renew
<1>2. CASE UNCHANGED <<leaseVars, exec>> /\ Go(w, "stop", j, todo[w]) /\ NoFault
  <2>1. LeaseInv' /\ SlotsKept /\ inbox' = inbox
    BY <1>2, MarkKeeps
  <2>2. RecordsTypeOK' /\ \A k \in Jobs : exec'[k].token = exec[k].token
    BY <1>0, <1>2 DEF Renew, NoFault, RecordsTypeOK
  <2>3. CallerInv'
    BY <1>0, <1>2, <2>1, GoKeeps DEF Stages
  <2> QED
    BY <2>1, <2>2, <2>3, PlainStep
<1> QED
  BY <1>1, <1>2 DEF Renew

LEMMA TickStep ==
  ASSUME IInv, NEW w \in Workers, Tick(w)
  PROVE  IInv'
<1> USE DEF IInv
<1>1. ASSUME NEW j \in Jobs, Finish(w, j) PROVE IInv'
  <2>1. LeaseInv' /\ SlotsKept /\ inbox' = inbox
    BY <1>1, MarkKeeps DEF Finish
  <2>2. RecordsTypeOK' /\ \A k \in Jobs : exec'[k].token = exec[k].token
    BY <1>1 DEF Finish, NoFault, RecordInv, RecordsTypeOK
  <2>3. todo[w] \in SUBSET Jobs /\ todo[w] \ {j} \in SUBSET Jobs
    BY DEF CallerInv, WorkersTypeOK
  <2>4. CallerInv'
    BY <1>1, <2>1, <2>3, GoKeeps, LoopKeeps DEF Finish, Stages
  <2> QED
    BY <2>1, <2>2, <2>4, PlainStep
<1>2. ASSUME NEW j \in Jobs, Renew(w, j) PROVE IInv'
  BY <1>2, RenewStep
<1>3. CASE Submit(w)
  <2>0. cur[w] \in Jobs /\ Rest(w) \in SUBSET Jobs /\ todo[w] \in SUBSET Jobs
    BY <1>3, HandledJob DEF Submit, Stages, Handling
  <2> DEFINE ok == Acceptable(cur[w], "finished", exec[cur[w]].token, age[w])
  <2>1. /\ LeaseInv' /\ SlotsKept /\ inbox \subseteq inbox'
        /\ ok => Result(cur[w], "finished", exec[cur[w]].token) \in inbox'
    BY <1>3, <2>0, ReportKeeps DEF Submit, Kinds
  <2>2. RecordsTypeOK' /\ \A k \in Jobs : exec'[k].token = exec[k].token
    BY <1>3, RuntimeAssumption DEF Submit, Fault, NoFault, RecordInv, RecordsTypeOK
  <2>3. CASE ok /\ Go(w, "release", cur[w], todo[w])
    <3>1. \E r \in inbox' : r.job = cur[w] /\ r.kind = "finished"
      BY <2>1, <2>3 DEF Result
    <3>2. CallerInv'
      BY <2>0, <2>1, <2>3, <3>1, GoKeeps DEF Stages
    <3> QED
      BY <2>1, <2>2, <3>2, PlainStep
  <2>4. CASE Loop(w, "tick", Rest(w))
    <3>1. CallerInv'
      BY <2>0, <2>1, <2>4, LoopKeeps
    <3> QED
      BY <2>1, <2>2, <3>1, PlainStep
  <2> QED
    BY <1>3, <2>3, <2>4 DEF Submit
<1>4. CASE Release(w)
  <2>0. cur[w] \in Jobs /\ Rest(w) \in SUBSET Jobs
    BY <1>4, HandledJob DEF Release, Stages, Handling
  <2>1. \E r \in inbox : r.job = <<cur[w][1], cur[w][2]>> /\ r.kind = "finished"
    <3>1. \E r \in inbox : r.job = cur[w] /\ r.kind = "finished"
      BY <1>4 DEF Release, CallerInv, ReleasesWithResult
    <3> QED
      BY <2>0, <3>1, JobParts
  <2>2. LeaseInv' /\ SlotsKept /\ inbox' = inbox
    BY <1>4, <2>0, <2>1, JobParts, ReleaseKeeps DEF Release
  <2>3. RecordsTypeOK' /\ \A k \in Jobs : exec'[k].token = exec[k].token
    BY <1>4, RuntimeAssumption DEF Release, Fault, NoFault, RecordInv, RecordsTypeOK
  <2>4. CallerInv'
    BY <1>4, <2>0, <2>2, LoopKeeps, ThrowKeeps DEF Release
  <2> QED
    BY <2>2, <2>3, <2>4, PlainStep
<1>5. CASE Stop(w)
  <2>0. cur[w] \in Jobs /\ todo[w] \in SUBSET Jobs
    BY <1>5, HandledJob DEF Stop, Stages, Handling
  <2>1. LeaseInv' /\ SlotsKept /\ inbox' = inbox
    BY <1>5, MarkKeeps DEF Stop
  <2>2. RecordsTypeOK' /\ \A k \in Jobs : exec'[k].token = exec[k].token
    BY <1>5, <2>0 DEF Stop, NoFault, RecordInv, RecordsTypeOK
  <2>3. CallerInv'
    BY <1>5, <2>0, <2>1, GoKeeps DEF Stop, Stages
  <2> QED
    BY <2>1, <2>2, <2>3, PlainStep
<1>6. CASE ReportLost(w)
  <2>0. cur[w] \in Jobs /\ Rest(w) \in SUBSET Jobs
    BY <1>6, HandledJob DEF ReportLost, Stages, Handling
  <2>1. LeaseInv' /\ SlotsKept /\ inbox \subseteq inbox'
    BY <1>6, <2>0, ReportKeeps DEF ReportLost, Kinds
  <2>2. RecordsTypeOK' /\ \A k \in Jobs : exec'[k].token = exec[k].token
    BY <1>6 DEF ReportLost, NoFault, RecordInv, RecordsTypeOK
  <2>3. CallerInv'
    BY <1>6, <2>0, <2>1, LoopKeeps DEF ReportLost
  <2> QED
    BY <2>1, <2>2, <2>3, PlainStep
<1> QED
  BY <1>1, <1>2, <1>3, <1>4, <1>5, <1>6 DEF Tick

\* Calls that fail, crashes, processes that end, and the clock.
LEMMA WorldStep ==
  ASSUME IInv,
         Clock \/ (\E w \in Workers : CallFails(w) \/ Crash(w)) \/ (\E j \in Jobs : Exit(j))
  PROVE  IInv'
<1> USE DEF IInv
<1>1. ASSUME NEW w \in Workers, Crash(w) PROVE IInv'
  <2>1. LeaseInv' /\ SlotsKept /\ inbox' = inbox
    BY <1>1, MarkKeeps DEF Crash
  <2>2. RecordsTypeOK' /\ \A k \in Jobs : exec'[k].token = exec[k].token
    BY <1>1, RuntimeAssumption DEF Crash, Fault, RecordInv, RecordsTypeOK
  <2>3. CallerInv'
    BY <1>1, <2>1, GoKeeps DEF Crash, Stages, Handling
  <2> QED
    BY <2>1, <2>2, <2>3, PlainStep
<1>2. ASSUME NEW j \in Jobs, Exit(j) PROVE IInv'
  <2>1. LeaseInv' /\ SlotsKept /\ inbox' = inbox
    BY <1>2, MarkKeeps DEF Exit
  <2>2. RecordsTypeOK' /\ \A k \in Jobs : exec'[k].token = exec[k].token
    BY <1>2 DEF Exit, NoFault, RecordInv, RecordsTypeOK
  <2>3. CallerInv'
    BY <1>2, <2>1 DEF Exit, workerVars, CallerInv, WorkersTypeOK, HandlesJobs, ReleasesWithResult
  <2> QED
    BY <2>1, <2>2, <2>3, PlainStep
<1>3. CASE Clock
  <2>1. LeaseInv' /\ SlotsKept /\ inbox' = inbox
    BY <1>3, ElapseKeeps DEF Clock
  <2>2. RecordsTypeOK' /\ \A k \in Jobs : exec'[k].token = exec[k].token
    BY <1>3 DEF Clock, NoFault, RecordInv, RecordsTypeOK
  <2>3. CallerInv'
    BY <1>3, <2>1, LeasesAssumption
    DEF Clock, CallerInv, WorkersTypeOK, HandlesJobs, ReleasesWithResult
  <2> QED
    BY <2>1, <2>2, <2>3, PlainStep
<1>4. ASSUME NEW w \in Workers, CallFails(w) PROVE IInv'
  <2>1. LeaseInv' /\ SlotsKept /\ inbox' = inbox
    BY <1>4, MarkKeeps DEF CallFails
  <2>2. RecordsTypeOK' /\ \A k \in Jobs : exec'[k].token = exec[k].token
    <3>1. stage[w] = "starting" => cur[w] \in Jobs
      BY HandledJob DEF Stages, Handling
    <3> QED
      BY <1>4, <3>1, RuntimeAssumption DEF CallFails, Fault, RecordInv, RecordsTypeOK
  <2>3. Rest(w) \in SUBSET Jobs
    BY DEF Rest, CallerInv, WorkersTypeOK
  <2>4. CallerInv'
    BY <1>4, <2>1, <2>3, LoopKeeps, ThrowKeeps DEF CallFails
  <2> QED
    BY <2>1, <2>2, <2>4, PlainStep
<1> QED
  BY <1>1, <1>2, <1>3, <1>4

LEMMA StutterStep == IInv /\ UNCHANGED vars => IInv'
<1> SUFFICES ASSUME IInv, UNCHANGED vars PROVE IInv'
  OBVIOUS
<1>1. LeaseInv' /\ SlotsKept /\ inbox' = inbox
  BY MarkKeeps DEF IInv, vars
<1>2. RecordsTypeOK' /\ \A k \in Jobs : exec'[k].token = exec[k].token
  BY DEF vars, IInv, RecordInv, RecordsTypeOK
<1>3. CallerInv'
  BY <1>1 DEF vars, workerVars, IInv, CallerInv, WorkersTypeOK, HandlesJobs, ReleasesWithResult
<1> QED
  BY <1>1, <1>2, <1>3, PlainStep

LEMMA NextKeeps == IInv /\ [Next]_vars => IInv'
<1> SUFFICES ASSUME IInv, [Next]_vars PROVE IInv'
  OBVIOUS
<1>1. ASSUME NEW w \in Workers, Work(w) PROVE IInv'
  BY <1>1, StartStep, RecoverStep, ClaimStep, AdoptStep, TickStep DEF Work
<1>2. CASE Clock \/ (\E w \in Workers : CallFails(w) \/ Crash(w)) \/ (\E j \in Jobs : Exit(j))
  BY <1>2, WorldStep
<1> QED
  BY <1>1, <1>2, StutterStep DEF Next

LEMMA SpecKeeps == Spec => []IInv
<1>1. Init => IInv
  BY InitHolds
<1>2. IInv /\ [Next]_vars => IInv'
  BY NextKeeps
<1> QED
  BY <1>1, <1>2, PTL DEF Spec

----------------------------------------------------------------------------
(* What the invariant implies *)

\* Every variable keeps its type, through every crash and lost answer.
THEOREM RuntimeTypeCorrect == Spec => []RuntimeTypeOK
<1>1. IInv => RuntimeTypeOK
  BY DEF IInv, LeaseInv, RecordInv, CallerInv, RuntimeTypeOK
<1> QED
  BY <1>1, SpecKeeps, PTL

\* The fencing token of a slot alone tells its generations apart.
THEOREM TokensSeparateGenerations == Spec => []TokenTellsGenerations
<1>1. IInv => TokenTellsGenerations
  BY DEF IInv, LeaseInv, RecordInv, RecordsBehind, InboxBehind, TokenTellsGenerations
<1> QED
  BY <1>1, SpecKeeps, PTL

\* A slot is released only after its result is durable.
THEOREM ReleaseFollowsResult == Spec => []ReleasedAfterResult
<1>1. IInv => ReleasedAfterResult
  BY DEF IInv, LeaseInv
<1> QED
  BY <1>1, SpecKeeps, PTL

\* Outstanding intents are of the slots' current generations.
THEOREM OutstandingStaysCurrent == Spec => []OutstandingIsCurrent
<1>1. IInv => OutstandingIsCurrent
  BY DEF IInv, LeaseInv
<1> QED
  BY <1>1, SpecKeeps, PTL

----------------------------------------------------------------------------
(* The workers and the store implement FencedSlot *)

\* A step that neither claims nor reports.
Quiet == (\A s \in Slots : lease'[s].gen = lease[s].gen) /\ inbox' = inbox

\* One result, accepted for the generation the slot is in.
Reports ==
  \E j \in Jobs, kind \in Kinds, token \in 0..MaxToken, a \in 0..MaxAge :
    Acceptable(j, kind, token, a) /\ AcceptResult(j, kind, token)

Claims == \E w \in Workers, chosen \in SUBSET Slots, a \in Nat : ClaimAll(w, chosen, a)

LEMMA PlainIsQuiet ==
  ASSUME LeaseInv,
         \/ UNCHANGED leaseVars
         \/ \E j \in Jobs : MarkDelivered(j) \/ AttachHandle(j)
  PROVE  Quiet
BY MarkKeeps DEF Quiet, SlotsKept

LEMMA ReportOrQuiet ==
  ASSUME IInv, NEW w \in Workers, NEW kind \in Kinds, stage[w] \in Handling,
         IF Acceptable(cur[w], kind, exec[cur[w]].token, age[w])
           THEN AcceptResult(cur[w], kind, exec[cur[w]].token) ELSE UNCHANGED leaseVars
  PROVE  Reports \/ Quiet
<1>1. cur[w] \in Jobs
  BY HandledJob DEF IInv
<1>2. exec[cur[w]].token \in 0..MaxToken /\ age[w] \in 0..MaxAge
  BY <1>1 DEF IInv, RecordInv, RecordsTypeOK, CallerInv, WorkersTypeOK
<1>3. CASE Acceptable(cur[w], kind, exec[cur[w]].token, age[w])
  BY <1>1, <1>2, <1>3 DEF Reports
<1>4. CASE ~Acceptable(cur[w], kind, exec[cur[w]].token, age[w])
  BY <1>4, PlainIsQuiet DEF IInv
<1> QED
  BY <1>3, <1>4

LEMMA StepsClassified ==
  ASSUME IInv, [Next]_vars
  PROVE  Claims \/ Reports \/ Quiet
<1> USE DEF IInv
<1>1. ASSUME NEW w \in Workers, Work(w) PROVE Claims \/ Reports \/ Quiet
  <2>1. CASE Start(w) \/ Resume(w) \/ ListCandidates(w)
    BY <2>1, PlainIsQuiet DEF Start, Resume, ListCandidates
  <2>2. CASE Recover(w)
    <3>1. CASE RecoverRevokes(w)
      <4>1. cur[w] \in Jobs
        BY <3>1, HandledJob DEF RecoverRevokes, Stages, Handling
      <4> QED
        BY <3>1, <4>1, JobParts, RevokeKeeps DEF RecoverRevokes, Quiet, SlotsKept
    <3>2. CASE RecoverCloses(w)
      <4>1. cur[w] \in Jobs
        BY <3>2, HandledJob DEF RecoverCloses, Stages, Handling
      <4> QED
        BY <3>2, <4>1, PlainIsQuiet DEF RecoverCloses
    <3>3. ASSUME NEW j \in Jobs, RecoverKeeps(w, j) \/ RecoverFrees(w, j) PROVE Quiet
      BY <3>3, PlainIsQuiet DEF RecoverKeeps, RecoverFrees
    <3> QED
      BY <2>2, <3>1, <3>2, <3>3 DEF Recover
  <2>3. CASE Claim(w)
    <3>1. Granted(w) \in SUBSET Slots /\ age[w] \in Nat
      BY LeasesAssumption DEF CallerInv, WorkersTypeOK, Granted
    <3> QED
      BY <2>3, <3>1 DEF Claim, Claims
  <2>4. CASE Adopt(w)
    <3>1. CASE CheckBeforeLaunch(w) \/ Launch(w)
      BY <3>1, PlainIsQuiet DEF CheckBeforeLaunch, Launch
    <3>2. CASE Attach(w) \/ Deliver(w)
      <4>1. cur[w] \in Jobs
        BY <3>2, HandledJob DEF Attach, Deliver, Stages, Handling
      <4> QED
        BY <3>2, <4>1, PlainIsQuiet DEF Attach, Deliver
    <3>3. CASE ReportStarted(w)
      BY <3>3, ReportOrQuiet DEF ReportStarted, Kinds, Stages, Handling
    <3>4. ASSUME NEW j \in Jobs, BeginAdopt(w, j) PROVE Quiet
      BY <3>4, PlainIsQuiet DEF BeginAdopt
    <3> QED
      BY <2>4, <3>1, <3>2, <3>3, <3>4 DEF Adopt
  <2>5. CASE Tick(w)
    <3>1. CASE Submit(w)
      BY <3>1, ReportOrQuiet DEF Submit, Kinds, Stages, Handling
    <3>2. CASE ReportLost(w)
      BY <3>2, ReportOrQuiet DEF ReportLost, Kinds, Stages, Handling
    <3>3. CASE Release(w)
      <4>1. cur[w] \in Jobs /\ LeasesTypeOK
        BY <3>3, HandledJob DEF Release, Stages, Handling, LeaseInv
      <4> QED
        BY <3>3, <4>1, JobParts DEF Release, ReleaseLease, LeasesTypeOK, Quiet
    <3>4. CASE Stop(w)
      BY <3>4, PlainIsQuiet DEF Stop
    <3>5. ASSUME NEW j \in Jobs, Finish(w, j) PROVE Quiet
      BY <3>5, PlainIsQuiet DEF Finish
    <3>6. ASSUME NEW j \in Jobs, Renew(w, j) PROVE Quiet
      <4>1. CASE UNCHANGED leaseVars
        BY <4>1, PlainIsQuiet
      <4>2. CASE RenewLease(j[1], age[w])
        BY <4>2, JobParts DEF RenewLease, Renewed, LeaseInv, LeasesTypeOK, Quiet
      <4> QED
        BY <3>6, <4>1, <4>2 DEF Renew
    <3> QED
      BY <2>5, <3>1, <3>2, <3>3, <3>4, <3>5, <3>6 DEF Tick
  <2> QED
    BY <1>1, <2>1, <2>2, <2>3, <2>4, <2>5 DEF Work
<1>2. ASSUME NEW w \in Workers, CallFails(w) \/ Crash(w) PROVE Quiet
  BY <1>2, PlainIsQuiet DEF CallFails, Crash
<1>3. ASSUME NEW j \in Jobs, Exit(j) PROVE Quiet
  BY <1>3, PlainIsQuiet DEF Exit
<1>4. CASE Clock
  BY <1>4, ElapseKeeps DEF Clock, Quiet, SlotsKept
<1>5. CASE UNCHANGED vars
  BY <1>5, PlainIsQuiet DEF vars
<1> QED
  BY <1>1, <1>2, <1>3, <1>4, <1>5 DEF Next

LEMMA ClaimsGrant ==
  ASSUME LeasesTypeOK, Claims
  PROVE  Fenced!Grant
<1>1. PICK w \in Workers, chosen \in SUBSET Slots, a \in Nat : ClaimAll(w, chosen, a)
  BY DEF Claims
<1>2. [s \in Slots |-> lease'[s].gen]
        = [s \in Slots |-> [t \in Slots |-> lease[t].gen][s] + IF s \in chosen THEN 1 ELSE 0]
  <2>1. \A s \in Slots : lease'[s].gen = lease[s].gen + IF s \in chosen THEN 1 ELSE 0
    BY <1>1, LeaseTypes DEF ClaimAll, Acquired
  <2> QED
    BY <2>1
<1>3. inbox' = inbox
  BY <1>1 DEF ClaimAll
<1> QED
  BY <1>2, <1>3 DEF Fenced!Grant, StartedIn, EndedIn

LEMMA ReportsMap ==
  ASSUME LeasesTypeOK, Reports
  PROVE  \E s \in Slots : Fenced!ReportStart(s) \/ Fenced!ReportEnd(s)
<1>1. PICK j \in Jobs, kind \in Kinds, token \in 0..MaxToken, a \in 0..MaxAge :
        Acceptable(j, kind, token, a) /\ AcceptResult(j, kind, token)
  BY DEF Reports
<1>2. /\ lease' = lease /\ inbox' = inbox \cup {Result(j, kind, token)}
      /\ lease[j[1]].gen = j[2] /\ j[1] \in Slots /\ j[2] \in Nat \ {0}
      /\ j = <<j[1], lease[j[1]].gen>>
  BY <1>1, JobParts DEF Acceptable, AcceptResult
<1>3. CASE kind = "started"
  <2>1. /\ {k \in Jobs : StartedIn(inbox', k)} = {k \in Jobs : StartedIn(inbox, k)} \cup {j}
        /\ {k \in Jobs : EndedIn(inbox', k)} = {k \in Jobs : EndedIn(inbox, k)}
    <3>1. Result(j, kind, token).job = j /\ Result(j, kind, token).kind = kind
      BY DEF Result
    <3>2. \A k \in Jobs : StartedIn(inbox', k) <=> StartedIn(inbox, k) \/ k = j
      BY <1>2, <1>3, <3>1 DEF StartedIn
    <3>3. \A k \in Jobs : EndedIn(inbox', k) <=> EndedIn(inbox, k)
      BY <1>2, <1>3, <3>1 DEF EndedIn
    <3> QED
      BY <3>2, <3>3
  <2>2. ~StartedIn(inbox, j)
    BY <1>1, <1>3 DEF Acceptable
  <2>3. Fenced!ReportStart(j[1])
    BY <1>2, <2>1, <2>2 DEF Fenced!ReportStart
  <2> QED
    BY <1>2, <2>3
<1>4. CASE kind # "started"
  <2>1. /\ {k \in Jobs : EndedIn(inbox', k)} = {k \in Jobs : EndedIn(inbox, k)} \cup {j}
        /\ {k \in Jobs : StartedIn(inbox', k)} = {k \in Jobs : StartedIn(inbox, k)}
    <3>1. Result(j, kind, token).job = j /\ Result(j, kind, token).kind = kind
      BY DEF Result
    <3>2. \A k \in Jobs : StartedIn(inbox', k) <=> StartedIn(inbox, k)
      BY <1>2, <1>4, <3>1 DEF StartedIn
    <3>3. \A k \in Jobs : EndedIn(inbox', k) <=> EndedIn(inbox, k) \/ k = j
      BY <1>2, <1>4, <3>1 DEF EndedIn
    <3> QED
      BY <3>2, <3>3
  <2>2. StartedIn(inbox, j) /\ ~EndedIn(inbox, j)
    BY <1>1, <1>4 DEF Acceptable
  <2>3. Fenced!ReportEnd(j[1])
    BY <1>2, <2>1, <2>2 DEF Fenced!ReportEnd
  <2> QED
    BY <1>2, <2>3
<1> QED
  BY <1>3, <1>4

LEMMA QuietMaps ==
  ASSUME Quiet
  PROVE  UNCHANGED Fenced!fencedVars
BY DEF Quiet, Fenced!fencedVars, StartedIn, EndedIn

\* Every behaviour of workers, store and clock is, seen through the leases and
\* the inbox, a behaviour of FencedSlot.
THEOREM DispatchImplementsFencedSlot == Spec => ImplementsFencedSlot
<1>1. Init => Fenced!FencedInit
  BY DEF Init, LeasesInit, NoLease, Fenced!FencedInit, StartedIn, EndedIn
<1>2. IInv /\ [Next]_vars => [Fenced!FencedNext]_(Fenced!fencedVars)
  <2> SUFFICES ASSUME IInv, [Next]_vars PROVE [Fenced!FencedNext]_(Fenced!fencedVars)
    OBVIOUS
  <2>1. LeasesTypeOK
    BY DEF IInv, LeaseInv
  <2> QED
    BY <2>1, StepsClassified, ClaimsGrant, ReportsMap, QuietMaps DEF Fenced!FencedNext
<1> QED
  BY <1>1, <1>2, SpecKeeps, PTL DEF Spec, ImplementsFencedSlot, Fenced!FencedSpec
=============================================================================
