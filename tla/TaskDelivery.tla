---------------------------- MODULE TaskDelivery ----------------------------
(***************************************************************************)
(* How the tasks of one recipient reach its sessions: the inbox that every *)
(* session reads, and the transport of the recipient's provider, which is  *)
(* the queue command of Codex, the plugin in each OpenCode session, or the *)
(* broker's managed connection of Claude.                                  *)
(*                                                                         *)
(* The store's methods are transactions; between two of them anything may  *)
(* happen.  Tasks are numbered by their seq in the recipient's inbox, and  *)
(* all sessions work in the folder the tasks were sent from.               *)
(***************************************************************************)
EXTENDS TaskReceipts, FiniteSets

CONSTANTS
  MaxTasks,   \* tasks sent in a behaviour
  MaxFaults,  \* crashes, restarts, stops and lapses in a behaviour
  Reads,      \* the cursors under which each session reads its inbox
  Targets,    \* where the sender of each task may aim it
  Managed,    \* the session of the managed connection
  Providers   \* the recipients considered

ASSUME DeliveryAssumption ==
  /\ MaxTasks \in Nat /\ MaxFaults \in Nat /\ Managed \in Sessions
  /\ Reads \in [Sessions -> SUBSET {"folder", "session"}]
  /\ Targets \in [1..MaxTasks -> SUBSET MaybeSession]
  /\ Providers \subseteq {"codex", "opencode", "claude"}

Tasks == 1..MaxTasks
NoTask == 0
Scopes == {"folder", "session"}  \* cursorKey with and without a folder

VARIABLES
  to,       \* the recipient's provider
  sent,     \* tasks sent so far
  task,     \* their records
  cursor,   \* cursors: how far each session has read, in each scope
  preview,  \* what each session is about to claim from the inbox
  runner,   \* Codex: the process that delivers each task
  plugin,   \* OpenCode: what each session's poller is doing
  watched,  \* OpenCode: M9R_ACTIVE_TASKS
  turn,     \* Claude: the turn of the managed connection
  waiting,  \* Claude: queuedOwnerPrompts
  late,     \* Claude: the tasks whose delivery timer outlives their turn
  handed,   \* how often each session may have been given each task
  faults    \* faults so far
transports == <<runner, plugin, watched, turn, waiting, late>>
vars == <<to, sent, task, cursor, preview, transports, handed, faults>>

NoPreview == [scope |-> "folder", ids |-> {}]
NoRunner == [at |-> "idle", session |-> NoSession, took |-> FALSE]
Ready == [at |-> "ready", id |-> NoTask, outcome |-> "none"]
NoTurn == [id |-> NoTask, at |-> "idle", took |-> FALSE, timed |-> FALSE,
           fenced |-> FALSE]

Init ==
  /\ to \in Providers
  /\ sent = 0
  /\ task = [t \in Tasks |-> NewTask(FALSE, "pending", NoSession)]
  /\ cursor = [s \in Sessions |-> [c \in Scopes |-> 0]]
  /\ preview = [s \in Sessions |-> NoPreview]
  /\ runner = [t \in Tasks |-> NoRunner]
  /\ plugin = [s \in Sessions |-> Ready]
  /\ watched = [s \in Sessions |-> NoTask]
  /\ turn = NoTurn
  /\ waiting = {} /\ late = {}
  /\ handed = [t \in Tasks |-> [s \in Sessions |-> 0]]
  /\ faults = 0

Sent == 1..sent
First(t, ids) == t \in ids /\ \A u \in ids : t <= u
Last(t, ids) == t \in ids /\ \A u \in ids : u <= t

Fault == faults < MaxFaults /\ faults' = faults + 1
Write(t, r) == task' = [task EXCEPT ![t] = r]
Report(t, st, s) == Write(t, SetDelivery(task[t], st, s))
Hand(ids, s) ==
  handed' = [t \in Tasks |->
               [handed[t] EXCEPT ![s] = @ + IF t \in ids THEN 1 ELSE 0]]

----------------------------------------------------------------------------
(* Senders, the person, and time *)

\* addTask.  The person's own tasks and those a standing rule covers need no
\* approval.
Send(owner, approval, target) ==
  /\ sent < MaxTasks /\ target \in Targets[sent + 1]
  /\ owner => to = "claude" /\ approval = "granted"
  /\ sent' = sent + 1
  /\ Write(sent + 1, NewTask(owner, approval, target))
  /\ UNCHANGED <<to, cursor, preview, transports, handed, faults>>

\* The sender's second transaction marks the task for a resident transport.
Defer(t) ==
  /\ t \in Sent \ waiting /\ CanQueue(task[t]) /\ task[t].delivery = "none"
  /\ Report(t, "deferred", NoSession)
  /\ UNCHANGED <<to, sent, cursor, preview, transports, handed, faults>>

Decide(t, yes) ==
  /\ t \in Sent /\ task[t].approval = "pending"
  /\ Write(t, IF yes THEN Approved(task[t], to = "claude")
                     ELSE [task[t] EXCEPT !.approval = "refused"])
  /\ UNCHANGED <<to, sent, cursor, preview, transports, handed, faults>>

\* A task is handed to nobody when it is older than inboxMaxAgeMs.
GrowStale(t) ==
  /\ Fault
  /\ t \in Sent /\ task[t].age = "fresh"
  /\ Write(t, [task[t] EXCEPT !.age = "stale"])
  /\ UNCHANGED <<to, sent, cursor, preview, transports, handed>>

\* The stop of a desktop stage pauses the task of the session that works there.
PauseStage(t) ==
  /\ Fault
  /\ t \in Sent /\ task[t].session # NoSession
  /\ Write(t, Ended(task[t], "paused"))
  /\ UNCHANGED <<to, sent, cursor, preview, transports, handed>>

----------------------------------------------------------------------------
(* The inbox *)

\* Faulty variant: an unapproved task is passed over.
VisibleAll(s, scope) ==
  {t \in Sent : t > cursor[s][scope] /\ Listed(task[t], s)}

\* Unapproved work at the frontier hides what comes after it.
Visible(s, scope) ==
  LET listed == {t \in Sent : t > cursor[s][scope] /\ Listed(task[t], s)}
  IN {t \in listed : \A u \in listed : task[u].approval = "pending" => t < u}

\* The hooks show one item and read under the folder's cursor, m9r_inbox shows
\* all and reads under the session's.  OpenCode's hooks show none.
Look(s, scope) ==
  /\ scope \in Reads[s] /\ preview[s] = NoPreview /\ Visible(s, scope) # {}
  /\ scope = "folder" => to # "opencode"
  /\ \E ids \in SUBSET Visible(s, scope) :
       /\ IF scope = "session"
            THEN ids = Visible(s, scope)
            ELSE \E t \in ids : ids = {t} /\ First(t, Visible(s, scope))
       /\ preview' = [preview EXCEPT ![s] = [scope |-> scope, ids |-> ids]]
  /\ UNCHANGED <<to, sent, task, cursor, transports, handed, faults>>

\* claimInboxTasks, and the session reads what it claimed.
Read(s) ==
  LET ids == preview[s].ids
      scope == preview[s].scope
      Moves(t) == t > cursor[s][scope]
                  /\ (Takes(task[t], s) \/ Passes(task[t], s))
      moved == {t \in ids : Moves(t)}
      taken == {t \in moved : Takes(task[t], s)} IN
  /\ ids # {}
  /\ preview' = [preview EXCEPT ![s] = NoPreview]
  /\ task' = [t \in Tasks |-> IF t \in taken THEN Taken(task[t], s)
                                             ELSE task[t]]
  /\ IF moved = {}
       THEN UNCHANGED cursor
       ELSE \E t \in moved :
              /\ Last(t, moved)
              /\ cursor' = [cursor EXCEPT ![s][scope] = t]
  /\ Hand(taken, s)
  /\ UNCHANGED <<to, sent, transports, faults>>

\* m9r_result.
ReportResult(t, s) ==
  /\ t \in Sent /\ ResultFits(task[t], s)
  /\ Write(t, Completed(task[t], s))
  /\ UNCHANGED <<to, sent, cursor, preview, transports, handed, faults>>

\* The hook at the end of a turn takes its last message for the answer to the
\* task that the turn names, or else to the one task that the session was shown
\* and has not answered.
EndTurn(s, named) ==
  LET awaiting == {t \in Sent : /\ task[t].delivered /\ ~Answered(task[t])
                                /\ Owner(task[t]) \in {NoSession, s}} IN
  \E t \in awaiting :
    /\ named \/ awaiting = {t}
    /\ task[t].receipt \notin {"completed", "canceled", "paused"}
    /\ ~Broken(task[t])
    /\ Write(t, Completed(task[t], s))
    /\ UNCHANGED <<to, sent, cursor, preview, transports, handed, faults>>

----------------------------------------------------------------------------
(* Codex: deliverToCodex, in a process of its own for each call *)

Running(t, at) == to = "codex" /\ runner[t].at = at
Run(t, state) == runner' = [runner EXCEPT ![t] = state]

CodexClaim(t) ==
  /\ Running(t, "idle") /\ t \in Sent /\ CodexClaimable(task[t])
  /\ Write(t, CodexClaimed(task[t]))
  /\ Run(t, [NoRunner EXCEPT !.at = "claimed"])
  /\ UNCHANGED <<to, sent, cursor, preview, plugin, watched, turn, waiting,
                 late, handed, faults>>

\* The chosen session is bound to the task.
CodexBind(t, s) ==
  /\ Running(t, "claimed") /\ task[t].target \in {NoSession, s}
  /\ Bindable(task[t], s)
  /\ Write(t, Bound(task[t], s))
  /\ Run(t, [NoRunner EXCEPT !.at = "binding", !.session = s])
  /\ UNCHANGED <<to, sent, cursor, preview, plugin, watched, turn, waiting,
                 late, handed, faults>>

\* The session is recorded with the claim.
CodexRecord(t) ==
  /\ Running(t, "binding")
  /\ Report(t, "sending", runner[t].session)
  /\ Run(t, [runner[t] EXCEPT !.at = "bound"])
  /\ UNCHANGED <<to, sent, cursor, preview, plugin, watched, turn, waiting,
                 late, handed, faults>>

\* The session is busy with the same text: a later call may deliver it.
CodexDefer(t, s) ==
  /\ Running(t, "claimed") /\ task[t].target \in {NoSession, s}
  /\ \E u \in Sent \ {t} : Occupies(task[u], s)
  /\ Report(t, "deferred", s)
  /\ Run(t, NoRunner)
  /\ UNCHANGED <<to, sent, cursor, preview, plugin, watched, turn, waiting,
                 late, handed, faults>>

\* No session, an ambiguous one, a refused binding, no command.
CodexFail(t) ==
  /\ Running(t, "claimed") \/ Running(t, "bound")
  /\ Report(t, "failed", NoSession)
  /\ Run(t, NoRunner)
  /\ UNCHANGED <<to, sent, cursor, preview, plugin, watched, turn, waiting,
                 late, handed, faults>>

\* codex queue: from here on Codex may have the task.
CodexSpawn(t, took) ==
  LET s == runner[t].session IN
  /\ Running(t, "bound")
  /\ Report(t, "sending", s)
  /\ Run(t, [at |-> "spawned", session |-> s, took |-> took])
  /\ Hand(IF took THEN {t} ELSE {}, s)
  /\ UNCHANGED <<to, sent, cursor, preview, plugin, watched, turn, waiting,
                 late, faults>>

CodexReturn(t, ok) ==
  /\ Running(t, "spawned") /\ (ok => runner[t].took)
  /\ Report(t, IF ok THEN "queued" ELSE "uncertain",
            IF ok THEN runner[t].session ELSE NoSession)
  /\ Run(t, NoRunner)
  /\ UNCHANGED <<to, sent, cursor, preview, plugin, watched, turn, waiting,
                 late, handed, faults>>

RunnerCrash(t) ==
  /\ Fault
  /\ runner[t].at # "idle" /\ Run(t, NoRunner)
  /\ UNCHANGED <<to, sent, task, cursor, preview, plugin, watched, turn,
                 waiting, late, handed>>

----------------------------------------------------------------------------
(* OpenCode: the plugin's poller in each session *)

Polls(s, at) == to = "opencode" /\ plugin[s].at = at
Phase(s, state) == plugin' = [plugin EXCEPT ![s] = state]

\* The first task the poll would give the session; an untargeted one only
\* when no other session of the folder was seen lately.
Pollable(s, alone) ==
  {t \in Sent :
     /\ t > cursor[s]["folder"] /\ CanQueue(task[t]) /\ ~Answered(task[t])
     /\ Owner(task[t]) \in {NoSession, s}
     /\ task[t].delivery \in {"none", "deferred"} /\ task[t].age = "fresh"
     /\ task[t].target = s \/ (task[t].target = NoSession /\ alone)}

Poll(s, t, alone) ==
  /\ Polls(s, "ready") /\ First(t, Pollable(s, alone))
  /\ Phase(s, [Ready EXCEPT !.at = "listed", !.id = t])
  /\ UNCHANGED <<to, sent, task, cursor, preview, runner, watched, turn,
                 waiting, late, handed, faults>>

\* The tests of claimOpenCodeTask.
Claims(s, t) == t > cursor[s]["folder"] /\ OpenCodeClaimable(task[t], s)

\* The claim moves the session's cursor; its answer may be lost.
PollClaim(s, arrives) ==
  LET t == plugin[s].id IN
  /\ Polls(s, "listed") /\ Claims(s, t)
  /\ Write(t, SessionClaimed(task[t], s))
  /\ cursor' = [cursor EXCEPT ![s]["folder"] = t]
  /\ Phase(s, IF arrives THEN [Ready EXCEPT !.at = "prompt", !.id = t]
                         ELSE Ready)
  /\ watched' = [watched EXCEPT ![s] = IF arrives THEN t ELSE @]
  /\ UNCHANGED <<to, sent, preview, runner, turn, waiting, late, handed,
                 faults>>

\* What was listed can no longer be claimed.
PollRefused(s) ==
  /\ Polls(s, "listed") /\ ~Claims(s, plugin[s].id)
  /\ Phase(s, Ready)
  /\ UNCHANGED <<to, sent, task, cursor, preview, runner, watched, turn,
                 waiting, late, handed, faults>>

\* The session's API accepts, rejects, or fails with the prompt in doubt.
Prompt(s, outcome, took) ==
  LET t == plugin[s].id IN
  /\ Polls(s, "prompt")
  /\ (outcome = "queued" => took) /\ (outcome = "failed" => ~took)
  /\ Phase(s, [at |-> "settle", id |-> t, outcome |-> outcome])
  /\ watched' = [watched EXCEPT ![s] = IF outcome = "queued" THEN @
                                                            ELSE NoTask]
  /\ Hand(IF took THEN {t} ELSE {}, s)
  /\ UNCHANGED <<to, sent, task, cursor, preview, runner, turn, waiting, late,
                 faults>>

\* The settlement is repeated until its acknowledgement arrives.
Settle(s, alone, acked) ==
  LET t == plugin[s].id
      st == plugin[s].outcome IN
  /\ Polls(s, "settle") /\ Settles(task[t], s, st)
  /\ st = "queued" => /\ task[t].age = "fresh"
                      /\ task[t].target = s \/ alone
  /\ Write(t, Settled(task[t], st))
  /\ Phase(s, IF acked THEN Ready ELSE plugin[s])
  /\ UNCHANGED <<to, sent, cursor, preview, runner, watched, turn, waiting,
                 late, handed, faults>>

\* A session.error while the plugin watches the task, and session.idle.
ExecutionFails(s, acked) ==
  LET t == watched[s] IN
  /\ to = "opencode" /\ t # NoTask /\ Settles(task[t], s, "failed")
  /\ Write(t, Settled(task[t], "failed"))
  /\ watched' = [watched EXCEPT ![s] = IF acked THEN NoTask ELSE @]
  /\ UNCHANGED <<to, sent, cursor, preview, runner, plugin, turn, waiting,
                 late, handed, faults>>

GoesIdle(s) ==
  /\ watched[s] # NoTask /\ watched' = [watched EXCEPT ![s] = NoTask]
  /\ UNCHANGED <<to, sent, task, cursor, preview, runner, plugin, turn,
                 waiting, late, handed, faults>>

PluginCrash(s) ==
  /\ Fault
  /\ plugin[s] # Ready \/ watched[s] # NoTask
  /\ Phase(s, Ready) /\ watched' = [watched EXCEPT ![s] = NoTask]
  /\ UNCHANGED <<to, sent, task, cursor, preview, runner, turn, waiting, late,
                 handed>>

----------------------------------------------------------------------------
(* Claude: the managed connection in the owner broker *)

Turn(at) == to = "claude" /\ turn.at = at

\* deliver: the owner's prompt becomes a task; one that arrives during a turn
\* pauses it.
Interrupted(t) ==
  IF t = turn.id /\ ~turn.fenced THEN Ended(task[t], "paused") ELSE task[t]
Fence ==
  turn' = IF turn = NoTurn THEN turn
          ELSE [turn EXCEPT !.fenced = TRUE, !.timed = FALSE]
OwnerPrompt ==
  /\ to = "claude" /\ sent < MaxTasks
  /\ sent' = sent + 1
  /\ waiting' = waiting \cup {sent + 1}
  /\ task' = [t \in Tasks |->
       IF t = sent + 1
         THEN SetDelivery(NewTask(TRUE, "granted", NoSession), "deferred",
                          NoSession)
         ELSE Interrupted(t)]
  /\ Fence
  /\ UNCHANGED <<to, cursor, preview, runner, plugin, watched, late, handed,
                 faults>>

Begin(t, timed) ==
  /\ Write(t, SessionClaimed(task[t], Managed))
  /\ turn' = [NoTurn EXCEPT !.id = t, !.at = "connecting", !.timed = timed]

\* startOwnerTask: a prompt whose claim is refused has failed.
StartNext(t) ==
  /\ Turn("idle") /\ First(t, waiting)
  /\ waiting' = waiting \ {t}
  /\ IF ProviderClaimable(task[t])
       THEN Begin(t, FALSE)
       ELSE Report(t, "failed", NoSession) /\ UNCHANGED turn
  /\ UNCHANGED <<to, sent, cursor, preview, runner, plugin, watched, late,
                 handed, faults>>

\* deliverOwnerTask: any task of the owner's that was deferred, under a timer.
DeliverOwnerTask(t) ==
  /\ Turn("idle") /\ t \in Sent \ waiting /\ ProviderClaimable(task[t])
  /\ Begin(t, TRUE)
  /\ UNCHANGED <<to, sent, cursor, preview, runner, plugin, watched, waiting,
                 late, handed, faults>>

\* The connection is there and the prompt goes out.
Dispatch(took) ==
  /\ Turn("connecting") /\ ~turn.fenced
  /\ turn' = [turn EXCEPT !.at = "prompted", !.took = took]
  /\ Hand(IF took THEN {turn.id} ELSE {}, Managed)
  /\ UNCHANGED <<to, sent, task, cursor, preview, runner, plugin, watched,
                 waiting, late, faults>>

\* The provider says that it has the task; a receipt that the store refuses
\* ends the turn, as uncertain if the store will have that, as failed if not.
Queued(r) == r.delivery \in {"queued", "done"} \/ Answered(r)
Unconfirmed(r) ==
  LET u == SetDelivery(r, "uncertain", Managed)
  IN IF u.delivery = "uncertain" THEN u ELSE Failed(u)
Accept ==
  LET r == SetDelivery(task[turn.id], "queued", Managed) IN
  /\ Turn("prompted") /\ turn.took /\ ~turn.fenced
  /\ Write(turn.id, IF Queued(r) THEN r ELSE Unconfirmed(r))
  /\ turn' = IF Queued(r)
               THEN [turn EXCEPT !.at = "accepted", !.timed = FALSE]
               ELSE NoTurn
  /\ UNCHANGED <<to, sent, cursor, preview, runner, plugin, watched, waiting,
                 late, handed, faults>>

\* The turn's result.
TurnResult ==
  LET r == task[turn.id] IN
  /\ Turn("accepted") /\ ~turn.fenced
  /\ Write(turn.id, IF ResultFits(r, Managed) THEN Completed(r, Managed)
                                              ELSE r)
  /\ turn' = NoTurn
  /\ UNCHANGED <<to, sent, cursor, preview, runner, plugin, watched, waiting,
                 late, handed, faults>>

\* No connection, or an error of the provider's.
TurnError ==
  /\ to = "claude" /\ turn # NoTurn /\ ~turn.fenced
  /\ Write(turn.id, Failed(task[turn.id]))
  /\ turn' = NoTurn
  /\ UNCHANGED <<to, sent, cursor, preview, runner, plugin, watched, waiting,
                 late, handed, faults>>

\* A stream that ends without a word, which leaves the timer running, and any
\* end of a fenced turn.
TurnEnds ==
  /\ to = "claude" /\ turn # NoTurn /\ (turn.at = "connecting" => turn.fenced)
  /\ turn' = NoTurn
  /\ late' = IF turn.timed THEN late \cup {turn.id} ELSE late
  /\ UNCHANGED <<to, sent, task, cursor, preview, runner, plugin, watched,
                 waiting, handed, faults>>

\* ownerDeliveryTimeoutMs without an acceptance.
TurnTimeout ==
  /\ to = "claude" /\ turn.timed
  /\ turn' = [turn EXCEPT !.fenced = TRUE, !.timed = FALSE]
  /\ Report(turn.id, "uncertain", Managed)
  /\ UNCHANGED <<to, sent, cursor, preview, runner, plugin, watched, waiting,
                 late, handed, faults>>

\* The timer of a turn that ended without a word.
LateTimeout(t) ==
  /\ to = "claude" /\ t \in late /\ late' = late \ {t}
  /\ Report(t, "uncertain", Managed)
  /\ UNCHANGED <<to, sent, cursor, preview, runner, plugin, watched, turn,
                 waiting, handed, faults>>

\* stop: what waits is cancelled, what runs is paused.
Stop ==
  /\ to = "claude" /\ (waiting # {} \/ turn # NoTurn)
  /\ task' = [t \in Tasks |->
       IF t \in waiting THEN Ended(task[t], "canceled") ELSE Interrupted(t)]
  /\ waiting' = {}
  /\ Fence
  /\ UNCHANGED <<to, sent, cursor, preview, runner, plugin, watched, late,
                 handed, faults>>

\* The broker ends, in order and cancelling what runs or suddenly, and starts
\* again: what was claimed long ago is fenced as uncertain.
Restart(orderly) ==
  /\ Fault
  /\ orderly => turn # NoTurn
  /\ \E old \in SUBSET {t \in Sent : task[t].delivery = "sending"} :
       task' = [t \in Tasks |->
         LET r == IF orderly /\ t = turn.id THEN Ended(task[t], "canceled")
                                            ELSE task[t]
         IN Reconciled(Retired(r), t \in old)]
  /\ turn' = NoTurn /\ waiting' = {} /\ late' = {}
  /\ UNCHANGED <<to, sent, cursor, preview, runner, plugin, watched, handed>>

----------------------------------------------------------------------------
Codex(t) ==
  \/ CodexClaim(t) \/ CodexRecord(t) \/ CodexFail(t) \/ RunnerCrash(t)
  \/ \E s \in Sessions : CodexBind(t, s) \/ CodexDefer(t, s)
  \/ \E b \in BOOLEAN : CodexSpawn(t, b) \/ CodexReturn(t, b)

OpenCode(s) ==
  \/ \E alone \in BOOLEAN, t \in Tasks : Poll(s, t, alone)
  \/ \E alone, b \in BOOLEAN : Settle(s, alone, b) \/ PollClaim(s, b)
  \/ PollRefused(s)
  \/ \E outcome \in {"queued", "failed", "uncertain"}, took \in BOOLEAN :
       Prompt(s, outcome, took)
  \/ \E acked \in BOOLEAN : ExecutionFails(s, acked)
  \/ GoesIdle(s) \/ PluginCrash(s)

Claude ==
  \/ OwnerPrompt \/ \E t \in Tasks : StartNext(t) \/ DeliverOwnerTask(t)
  \/ \E took \in BOOLEAN : Dispatch(took)
  \/ Accept \/ TurnResult \/ TurnError \/ TurnEnds \/ TurnTimeout \/ Stop
  \/ \E t \in Tasks : LateTimeout(t)

Senders ==
  \/ \E owner \in BOOLEAN, approval \in {"pending", "granted"},
        target \in MaybeSession : Send(owner, approval, target)
  \/ \E t \in Tasks :
       \/ Defer(t) \/ GrowStale(t) \/ PauseStage(t)
       \/ \E yes \in BOOLEAN : Decide(t, yes)

Readers ==
  \E s \in Sessions :
    \/ Read(s) \/ \E named \in BOOLEAN : EndTurn(s, named)
    \/ \E scope \in Scopes : Look(s, scope)
    \/ \E t \in Tasks : ReportResult(t, s)

Next ==
  \/ Senders \/ Readers \/ Claude
  \/ \E t \in Tasks : Codex(t)
  \/ \E s \in Sessions : OpenCode(s)
  \/ \E orderly \in BOOLEAN : Restart(orderly)

Spec == Init /\ [][Next]_vars

----------------------------------------------------------------------------
(* Properties *)

\* Every variable keeps its shape.
DeliveryTypeOK ==
  /\ to \in Providers /\ sent \in 0..MaxTasks
  /\ task \in [Tasks -> TaskRecord]
  /\ cursor \in [Sessions -> [Scopes -> 0..MaxTasks]]
  /\ preview \in [Sessions -> [scope : Scopes, ids : SUBSET Tasks]]
  /\ runner \in [Tasks ->
       [at : {"idle", "claimed", "binding", "bound", "spawned"},
        session : MaybeSession, took : BOOLEAN]]
  /\ plugin \in [Sessions ->
       [at : {"ready", "listed", "prompt", "settle"}, id : Tasks \cup {NoTask},
        outcome : {"none", "queued", "failed", "uncertain"}]]
  /\ watched \in [Sessions -> Tasks \cup {NoTask}]
  /\ turn \in [id : Tasks \cup {NoTask},
               at : {"idle", "connecting", "prompted", "accepted"},
               took : BOOLEAN, timed : BOOLEAN, fenced : BOOLEAN]
  /\ waiting \subseteq Tasks /\ late \subseteq Tasks
  /\ handed \in [Tasks -> [Sessions -> Nat]]
  /\ faults \in 0..MaxFaults

Holders(t) == {s \in Sessions : handed[t][s] > 0}

\* A task is given to one session only, whichever transports and inbox reads
\* compete for it, fail, crash or time out; and the answer is that session's.
OneHolder ==
  \A t \in Tasks :
    /\ Cardinality(Holders(t)) <= 1
    /\ Answered(task[t]) => Holders(t) = {task[t].result}

\* A task is given to it once, unless its delivery has failed: then each of
\* the session's cursors may show it once more.
HandedOnce ==
  \A t \in Tasks, s \in Sessions :
    handed[t][s] <= IF task[t].delivery = "failed"
                      THEN 1 + Cardinality(Scopes) ELSE 1

\* The cursor of a session stays before a task that waits for approval and
\* that the session may still be given, so that the approved task is seen.
\* (OpenCode's poll moves the cursor by another rule.)
KeepsItsPlace(t, s, scope) ==
  task[t].approval = "pending" /\ Listed(task[t], s) => cursor[s][scope] < t
PendingKeepsItsPlace ==
  \A t \in Sent, s \in Sessions, scope \in Scopes :
    to # "opencode" => KeepsItsPlace(t, s, scope)

----------------------------------------------------------------------------
(* What the comments say and the code does not do *)

\* "If an unapproved task is at the frontier, do not skip over it and advance
\* the cursor past it: approval later must still make that exact task
\* deliverable."
NothingSkipped ==
  \A t \in Sent, s \in Sessions, scope \in Scopes : KeepsItsPlace(t, s, scope)

\* "a failed push still shows at Codex's next prompt", whatever other tasks
\* the session read while the push was under way.
FailedPushStillShows ==
  \A t \in Sent, s \in Sessions :
    /\ to = "codex" /\ task[t].delivery = "failed" /\ ~task[t].delivered
    /\ CanQueue(task[t]) /\ Listed(task[t], s)
    => cursor[s]["folder"] < t
=============================================================================
