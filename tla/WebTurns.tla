----------------------------- MODULE WebTurns -----------------------------
(***************************************************************************)
(* Claims, turn lanes and approvals of the web broker (web-broker-core.ts) *)
(* on one shared tab.                                                      *)
(*                                                                         *)
(* A command claims its scope for its agent.  A command that meets another *)
(* agent's live claim is queued in the lane of that claim, and the lane's  *)
(* scheduler (TurnScheduler) says who may dispatch next; a queued command  *)
(* is dispatched again from the top, and may be queued in another lane.    *)
(* A lane is released by the answer, or the timeout, of what it sent.      *)
(*                                                                         *)
(* Requests are mutating commands with a scope; reads take no claim and no *)
(* lane, and an owner's own open goes to a fresh tab instead of waiting.   *)
(* One JavaScript turn is several steps here: rest is what the current     *)
(* call still has to do (always a tail call), micro the promise callbacks  *)
(* that run before the next event.  Events wait for both (TurnFree).       *)
(***************************************************************************)
EXTENDS TurnScheduler, FiniteSets

CONSTANTS
  Requests,
  SessionOf,      \* per request, its participant
  AgentOf,        \* per participant, its agent: claims belong to agents
  ScopeOf,        \* per request, [kind, key, form]
  SharedBy,       \* per request, the agents it shares its claim with
  Risky,          \* requests held for the owner's approval
  OneWriter,      \* oneWriterPerTab: every command takes the whole tab
  Fenced,         \* the broker has a mutation fence
  ClaimTtl,       \* clock steps a claim lives
  CommandTimeout, \* clock steps until a command times out
  None

ASSUME TurnsAssumption ==
  /\ SessionOf \in [Requests -> Participants]
  /\ Risky \subseteq Requests
  /\ {OneWriter, Fenced} \subseteq BOOLEAN
  /\ ClaimTtl \in Nat \ {0} /\ CommandTimeout \in Nat
  /\ ClaimTtl < CommandTimeout    \* 8 s and 15 s
  /\ None \notin Participants

VARIABLES
  fresh,      \* requests not submitted yet
  approvals,  \* requests waiting for the owner
  answered,   \* requests whose caller has its answer
  claims,     \* the claims of the tab, oldest first
  lanes,      \* the turn lanes of the tab, oldest first
  pending,    \* commands given to the transport: a function on their requests
  stopped,    \* stopState
  connected,  \* a browser is connected
  rest,       \* what the running call has still to do
  micro       \* promise callbacks queued by this turn

vars == <<fresh, approvals, answered, claims, lanes, pending, stopped, connected,
          rest, micro>>

WholeTab == [kind |-> "tab", key |-> None, form |-> None]

Scope(r) == IF OneWriter THEN WholeTab ELSE ScopeOf[r]

Agent(r) == AgentOf[SessionOf[r]]

Overlap(a, b) ==
  \/ "tab" \in {a.kind, b.kind}
  \/ a.kind = b.kind /\ a.key = b.key
  \/ a.kind = "form" /\ b.kind = "field" /\ b.form = a.key
  \/ a.kind = "field" /\ b.kind = "form" /\ a.form = b.key

\* The key of a claim and of its lane leaves the form of a field out.
Key(scope) == <<scope.kind, scope.key>>

ASSUME KeyAssumption == \A r \in Requests : Key(Scope(r)) # None

----------------------------------------------------------------------------
(* Claims *)

\* The elements of s at the places of I, in their order.
Pick(s, I) ==
  LET Nth(k) == CHOOSE i \in I : Cardinality({j \in I : j <= i}) = k
  IN  [k \in 1 .. Cardinality(I) |-> s[Nth(k)]]

\* activeClaims forgets what has lapsed; other readers see it still.
Live(cs) == Pick(cs, {i \in DOMAIN cs : cs[i].left > 0})

HasClaim(cs, key) == \E i \in DOMAIN cs : Key(cs[i].scope) = key

ClaimAt(cs, key) == cs[CHOOSE i \in DOMAIN cs : Key(cs[i].scope) = key]

\* Other agents' claims that keep r out, and the oldest one.
Conflicts(r) ==
  {i \in DOMAIN Live(claims) :
    LET c == Live(claims)[i] IN
    /\ Overlap(c.scope, Scope(r))
    /\ c.agent # Agent(r)
    /\ Agent(r) \notin c.shared}

Conflicting(r) == Live(claims)[Min(Conflicts(r))]

\* The claim r leaves behind when it is dispatched: its own, or the one that
\* another agent shares with it, renewed.
ClaimOf(r) ==
  LET found == ClaimAt(Live(claims), Key(Scope(r)))
      mine == [scope |-> Scope(r), agent |-> Agent(r), session |-> SessionOf[r],
               shared |-> SharedBy[r], left |-> ClaimTtl]
  IN  IF ~HasClaim(Live(claims), Key(Scope(r))) THEN mine
      ELSE IF found.agent # Agent(r) THEN [found EXCEPT !.left = ClaimTtl]
      ELSE [mine EXCEPT !.shared = @ \cup found.shared]

\* Faulty variant: a renewed claim becomes one more claim.
WithClaimAppended(cs, c) == Append(cs, c)

\* Setting a key of a Map keeps its place in the order.
WithClaim(cs, c) ==
  IF ~HasClaim(cs, Key(c.scope)) THEN Append(cs, c)
  ELSE [i \in DOMAIN cs |-> IF Key(cs[i].scope) = Key(c.scope) THEN c ELSE cs[i]]

----------------------------------------------------------------------------
(* Lanes *)

IndexOf(ls, key) == CHOOSE i \in DOMAIN ls : ls[i].key = key

HasLane(ls, key) == \E i \in DOMAIN ls : ls[i].key = key

WithLane(ls, lane) == [ls EXCEPT ![IndexOf(ls, lane.key)] = lane]

Queued(lane) == {p \in Participants : lane.queues[p] # <<>>}

Busy(lane) == lane.tokens # {} \/ Queued(lane) # {}

\* Commands in flight under the key of a claim.
InFlightUnder(key, commands) == {r \in DOMAIN commands : Key(Scope(r)) = key}

\* The lane that the first contention for a claim creates: what is in flight
\* under it is its first turn.
NewLane(c, commands) ==
  LET flight == InFlightUnder(Key(c.scope), commands)
      idle == Register(EmptyLane, c.session)
  IN  [key |-> Key(c.scope), scope |-> c.scope, tokens |-> flight,
       sched |-> IF flight = {} THEN idle
                 ELSE RequestTurn(SetPending(idle, c.session, TRUE), c.session),
       active |-> IF flight = {} THEN None ELSE c.session,
       queued |-> None,
       queues |-> [p \in Participants |-> <<>>]]

\* turnLaneForClaim: the lanes, and the commands that a new lane adopts.
LanesWith(c, commands) ==
  IF HasLane(lanes, Key(c.scope)) THEN lanes ELSE Append(lanes, NewLane(c, commands))

Adopted(c, commands) ==
  IF HasLane(lanes, Key(c.scope)) THEN commands
  ELSE [r \in DOMAIN commands |->
         IF r \in InFlightUnder(Key(c.scope), commands)
           THEN [commands[r] EXCEPT !.lane = Key(c.scope)] ELSE commands[r]]

\* The lanes, but the one whose turn r has, that are busy in r's way, and the
\* oldest one.
BusyLanes(r, path) ==
  {i \in DOMAIN lanes :
    /\ path # <<>> => lanes[i].key # Head(path)
    /\ Busy(lanes[i])
    /\ Overlap(lanes[i].scope, Scope(r))}

BusyLane(r, path) == lanes[Min(BusyLanes(r, path))]

MayShare(r, lane) ==
  /\ ~OneWriter
  /\ HasClaim(claims, lane.key)
  /\ ClaimAt(claims, lane.key).agent # Agent(r)
  /\ Agent(r) \in ClaimAt(claims, lane.key).shared

MustQueue(r, path) == BusyLanes(r, path) # {} /\ ~MayShare(r, BusyLane(r, path))

----------------------------------------------------------------------------
(* The steps of one JavaScript turn *)

\* path: the lanes whose turns wait for this request, innermost first; the
\* caller, or the owner's approval, waits behind the last one.
Dispatching(r, path) == [op |-> "dispatch", request |-> r, path |-> path]
Pumping(key) == [op |-> "pump", lane |-> key]
Nothing == [op |-> "none"]
Completing(key, r) ==
  IF key = None THEN Nothing ELSE [op |-> "complete", lane |-> key, request |-> r]

TurnFree == rest.op = "none" /\ micro = <<>>

\* A promise settles: the caller is answered, or the turn that dispatched
\* the request goes on in a callback.
Resolves(r, path, callbacks) ==
  IF path = <<>>
    THEN answered' = answered \cup {r} /\ micro' = callbacks
    ELSE /\ micro' = Append(callbacks, [request |-> r, path |-> path])
         /\ UNCHANGED answered

\* queueTurnRequest in a lane of ls.
Enqueue(ls, key, r, path) ==
  LET lane == ls[IndexOf(ls, key)]
      p == SessionOf[r]
  IN  /\ lanes' = WithLane(ls,
           [lane EXCEPT !.queues[p] = Append(@, [request |-> r, path |-> path]),
                        !.sched = EnsureHolder(SetPending(Register(@, p), p, TRUE))])
      /\ rest' = Pumping(key)

\* An early return: the stop, a validation, the loop guard, the authority.
DispatchRefused(r, path) ==
  /\ Resolves(r, path, micro)
  /\ rest' = Nothing
  /\ UNCHANGED <<claims, lanes, pending>>

DispatchJoinsLane(r, path) ==
  /\ ~stopped
  /\ MustQueue(r, path)
  /\ Enqueue(lanes, BusyLane(r, path).key, r, path)
  /\ UNCHANGED <<answered, claims, pending, micro>>

DispatchJoinsClaim(r, path) ==
  /\ ~stopped
  /\ ~MustQueue(r, path)
  /\ Conflicts(r) # {}
  /\ LET c == Conflicting(r) IN
     /\ Enqueue(LanesWith(c, pending), Key(c.scope), r, path)
     /\ pending' = Adopted(c, pending)
  /\ claims' = Live(claims)
  /\ UNCHANGED <<answered, micro>>

Free(r, path) == ~stopped /\ ~MustQueue(r, path) /\ Conflicts(r) = {}

\* The fence knows regions by claim key: the same one, or the whole tab.
FenceExcludes(r) ==
  /\ Fenced
  /\ \E q \in DOMAIN pending :
       \/ "tab" \in {Scope(q).kind, Scope(r).kind}
       \/ Key(Scope(q)) = Key(Scope(r))

\* begin refuses for this, or for what it remembers of the surface.
DispatchFenced(r, path) ==
  /\ Free(r, path) /\ Fenced
  /\ claims' = Live(claims)
  /\ Resolves(r, path, micro)
  /\ rest' = Nothing
  /\ UNCHANGED <<lanes, pending>>

\* What dispatch has recorded when it calls the transport.
Commands(r, path) ==
  [q \in DOMAIN pending \cup {r} |->
    IF q # r THEN pending[q]
    ELSE [path |-> path, lane |-> IF path = <<>> THEN None ELSE Head(path),
          left |-> CommandTimeout, timer |-> TRUE, open |-> TRUE]]

TakesLane(path) == OneWriter /\ path = <<>>

LanesAtSend(r, path) ==
  IF TakesLane(path) THEN LanesWith(ClaimOf(r), Commands(r, path)) ELSE lanes

CommandsAtSend(r, path) ==
  IF TakesLane(path) THEN Adopted(ClaimOf(r), Commands(r, path)) ELSE Commands(r, path)

Claims(r, path) ==
  /\ Free(r, path)
  /\ ~FenceExcludes(r)
  /\ claims' = WithClaim(Live(claims), ClaimOf(r))
  /\ lanes' = LanesAtSend(r, path)

DispatchSent(r, path) ==
  /\ connected
  /\ Claims(r, path)
  /\ pending' = CommandsAtSend(r, path)
  /\ rest' = Nothing
  /\ UNCHANGED <<answered, micro>>

\* No transport, or one that throws under a broker without a fence.
DispatchUnsent(r, path) ==
  /\ connected => ~Fenced
  /\ Claims(r, path)
  /\ pending' = [q \in DOMAIN pending |-> CommandsAtSend(r, path)[q]]
  /\ Resolves(r, path, micro)
  /\ rest' = Completing(CommandsAtSend(r, path)[r].lane, r)

\* A transport that throws under a fence: the command may have arrived.
DispatchThrows(r, path) ==
  /\ connected /\ Fenced
  /\ Claims(r, path)
  /\ pending' = [CommandsAtSend(r, path) EXCEPT ![r].open = FALSE]
  /\ Resolves(r, path, micro)
  /\ rest' = Nothing

Dispatch ==
  /\ rest.op = "dispatch"
  /\ LET r == rest.request
         path == rest.path
     IN  \/ DispatchRefused(r, path)
         \/ DispatchJoinsLane(r, path)
         \/ DispatchJoinsClaim(r, path)
         \/ DispatchFenced(r, path)
         \/ DispatchSent(r, path)
         \/ DispatchUnsent(r, path)
         \/ DispatchThrows(r, path)
  /\ UNCHANGED <<fresh, approvals, stopped, connected>>

Turn(key) == lanes[IndexOf(lanes, key)]

\* Faulty variant: a lane whose turn is complete leaves the next one queued.
AfterTurnNothing(key) == Nothing

AfterTurn(key) == Pumping(key)

\* completeTurnLane of a token the lane does not wait for, or not for it alone.
CompleteEarly ==
  /\ rest.op = "complete"
  /\ IF HasLane(lanes, rest.lane) /\ rest.request \in Turn(rest.lane).tokens
       THEN /\ Turn(rest.lane).tokens # {rest.request}
            /\ lanes' = WithLane(lanes,
                 [Turn(rest.lane) EXCEPT !.tokens = @ \ {rest.request}])
       ELSE UNCHANGED lanes
  /\ rest' = Nothing
  /\ UNCHANGED <<fresh, approvals, answered, claims, pending, stopped, connected, micro>>

CompleteTurn ==
  /\ rest.op = "complete"
  /\ HasLane(lanes, rest.lane)
  /\ LET lane == Turn(rest.lane)
         last == lane.active
     IN  /\ lane.tokens = {rest.request}
         /\ lanes' = WithLane(lanes,
              [lane EXCEPT !.tokens = {}, !.active = None, !.queued = None,
                 !.sched = EnsureHolder(RecordAction(
                             SetPending(@, last, last \in Queued(lane)), last))])
         /\ rest' = AfterTurn(lane.key)
  /\ UNCHANGED <<fresh, approvals, answered, claims, pending, stopped, connected, micro>>

\* pumpTurnLane with a turn under way, or nobody to give it to.
PumpNobody ==
  /\ rest.op = "pump"
  /\ LET lane == Turn(rest.lane)
         sched == EnsureHolder(lane.sched)
     IN  \/ lane.tokens # {} /\ UNCHANGED lanes
         \/ /\ lane.tokens = {} /\ sched.holder = Nobody
            /\ lanes' = WithLane(lanes, [lane EXCEPT !.sched = sched])
  /\ rest' = Nothing
  /\ UNCHANGED <<fresh, approvals, answered, claims, pending, stopped, connected, micro>>

\* updateTurnClaim: the claim of the lane, lapsed or not, goes to p.
Handed(lane, p) ==
  [i \in DOMAIN claims |->
    IF Key(claims[i].scope) = lane.key
      THEN [claims[i] EXCEPT !.agent = AgentOf[p], !.session = p, !.left = ClaimTtl]
      ELSE claims[i]]

\* The code takes the turn from a holder with an empty queue; TurnsTypeOK says
\* there is none when the lane is free.
PumpDispatches ==
  /\ rest.op = "pump"
  /\ LET lane == Turn(rest.lane)
         sched == EnsureHolder(lane.sched)
         p == sched.holder
     IN  /\ lane.tokens = {} /\ p \in Queued(lane)
         /\ LET next == Head(lane.queues[p]) IN
            /\ lanes' = WithLane(lanes,
                 [lane EXCEPT !.sched = sched, !.queues[p] = Tail(@), !.active = p,
                              !.queued = next, !.tokens = {next.request}])
            /\ rest' = Dispatching(next.request, <<lane.key>> \o next.path)
         /\ claims' = Handed(lane, p)
  /\ UNCHANGED <<fresh, approvals, answered, pending, stopped, connected, micro>>

\* The callback of a pumped dispatch: answer the queued request, release.
Callback ==
  /\ rest.op = "none" /\ micro # <<>>
  /\ LET m == Head(micro) IN
     /\ Resolves(m.request, Tail(m.path), Tail(micro))
     /\ rest' = Completing(Head(m.path), m.request)
  /\ UNCHANGED <<fresh, approvals, claims, lanes, pending, stopped, connected>>

RunTurn ==
  \/ Dispatch
  \/ CompleteEarly \/ CompleteTurn
  \/ PumpNobody \/ PumpDispatches
  \/ Callback

----------------------------------------------------------------------------
(* Events *)

\* submit of a request that needs no approval, or holds it for the owner.
Submit(r) ==
  /\ TurnFree /\ r \in fresh
  /\ fresh' = fresh \ {r}
  /\ \/ stopped /\ answered' = answered \cup {r} /\ UNCHANGED <<approvals, rest>>
     \/ /\ ~stopped /\ r \notin Risky
        /\ rest' = Dispatching(r, <<>>)
        /\ UNCHANGED <<approvals, answered>>
     \/ /\ ~stopped /\ r \in Risky
        /\ approvals' = approvals \cup {r}
        /\ UNCHANGED <<answered, rest>>
  /\ UNCHANGED <<claims, lanes, pending, stopped, connected, micro>>

Approve(r) ==
  /\ TurnFree /\ r \in approvals
  /\ approvals' = approvals \ {r}
  /\ rest' = Dispatching(r, <<>>)
  /\ UNCHANGED <<fresh, answered, claims, lanes, pending, stopped, connected, micro>>

\* The owner denies, the approval times out, or its audit fails.
Refuse(r) ==
  /\ TurnFree /\ r \in approvals
  /\ approvals' = approvals \ {r}
  /\ answered' = answered \cup {r}
  /\ UNCHANGED <<fresh, claims, lanes, pending, stopped, connected, rest, micro>>

\* Faulty variant: the caller is answered, the lane is not released.
EndsUnreleased(r) ==
  /\ IF pending[r].open THEN Resolves(r, pending[r].path, micro)
     ELSE UNCHANGED <<answered, micro>>
  /\ rest' = Nothing

\* What an entry does when it ends: answer whoever still waits, release.
Ends(r) ==
  /\ IF pending[r].open THEN Resolves(r, pending[r].path, micro)
     ELSE UNCHANGED <<answered, micro>>
  /\ rest' = Completing(pending[r].lane, r)

Without(r) == [q \in DOMAIN pending \ {r} |-> pending[q]]

\* Only the ready transport is heard.
Result(r) ==
  /\ TurnFree /\ connected /\ r \in DOMAIN pending
  /\ Ends(r)
  /\ pending' = Without(r)
  /\ UNCHANGED <<fresh, approvals, claims, lanes, stopped, connected>>

\* A mutation under the fence stays pending for a late result.
TimedOut(r) ==
  IF Fenced THEN [pending EXCEPT ![r].open = FALSE, ![r].timer = FALSE] ELSE Without(r)

Timeout(r) ==
  /\ TurnFree /\ r \in DOMAIN pending
  /\ pending[r].timer /\ pending[r].left = 0
  /\ Ends(r)
  /\ pending' = TimedOut(r)
  /\ UNCHANGED <<fresh, approvals, claims, lanes, stopped, connected>>

\* Requests whose dispatch from a lane is not over.
InLanesDispatched ==
  {lanes[i].queued.request : i \in {k \in DOMAIN lanes : lanes[k].queued # None}}

\* Requests that sit in a lane: dispatched from it, or in its queues.
InLanes ==
  InLanesDispatched \cup
    UNION {{lanes[i].queues[p][k].request : k \in DOMAIN lanes[i].queues[p]} :
             i \in DOMAIN lanes, p \in Participants}

Open == {r \in DOMAIN pending : pending[r].open}

\* cancelTurnLane, for every lane.  The callbacks of what it resolves find
\* their lane gone, so all they still do is answer the caller.
CancelLanes(also) ==
  /\ lanes' = <<>>
  /\ answered' = answered \cup InLanes \cup also

\* The tab is closed, or the browser disconnects and takes the tab with it.
TabClosed ==
  /\ TurnFree
  /\ CancelLanes(Open)
  /\ pending' = <<>>
  /\ claims' = <<>>
  /\ connected' \in {connected, FALSE}
  /\ UNCHANGED <<fresh, approvals, stopped, rest, micro>>

\* Another extension connects: the old socket is closed, nothing it carried is
\* settled, and nothing can be sent before the new one says it is ready.
Displaced ==
  /\ TurnFree /\ connected /\ ~OneWriter
  /\ connected' = FALSE
  /\ UNCHANGED <<fresh, approvals, answered, claims, lanes, pending, stopped, rest, micro>>

Reconnect ==
  /\ TurnFree /\ ~connected
  /\ connected' = TRUE
  /\ UNCHANGED <<fresh, approvals, answered, claims, lanes, pending, stopped, rest, micro>>

StopAll ==
  /\ TurnFree /\ ~stopped
  /\ stopped' = TRUE
  /\ CancelLanes(Open \cup approvals)
  /\ approvals' = {}
  /\ claims' = <<>>
  /\ pending' = IF Fenced
                  THEN [r \in DOMAIN pending |->
                         [pending[r] EXCEPT !.open = FALSE, !.timer = FALSE]]
                  ELSE <<>>
  /\ UNCHANGED <<fresh, connected, rest, micro>>

Down(n) == IF n = 0 THEN 0 ELSE n - 1

Clock ==
  /\ TurnFree
  /\ claims' = [i \in DOMAIN claims |-> [claims[i] EXCEPT !.left = Down(@)]]
  /\ pending' = [r \in DOMAIN pending |-> [pending[r] EXCEPT !.left = Down(@)]]
  /\ UNCHANGED <<fresh, approvals, answered, lanes, stopped, connected, rest, micro>>

Init ==
  /\ fresh = Requests
  /\ approvals = {} /\ answered = {}
  /\ claims = <<>> /\ lanes = <<>> /\ pending = <<>>
  /\ stopped = FALSE /\ connected = TRUE
  /\ rest = Nothing /\ micro = <<>>

Next ==
  \/ RunTurn
  \/ \E r \in Requests :
       Submit(r) \/ Approve(r) \/ Refuse(r) \/ Result(r) \/ Timeout(r)
  \/ TabClosed \/ Displaced \/ Reconnect \/ StopAll \/ Clock

Spec == Init /\ [][Next]_vars

\* The JavaScript engine runs a turn to its end, timers fire.  Nothing is
\* assumed of the browser, the owner or the agents.
Fairness ==
  /\ WF_vars(RunTurn)
  /\ WF_vars(Clock)
  /\ \A r \in Requests : WF_vars(Timeout(r)) /\ WF_vars(Refuse(r))

FairSpec == Spec /\ Fairness

----------------------------------------------------------------------------
(* Properties *)

\* Type invariant: claims and lanes have one entry per key, a lane has a turn
\* exactly when it waits for a command, its scheduler knows who has work, and
\* commands carry their timers.
TurnsTypeOK ==
  /\ fresh \cup approvals \cup answered \subseteq Requests
  /\ fresh \cap (approvals \cup answered) = {}
  /\ IsInjective([i \in DOMAIN claims |-> Key(claims[i].scope)])
  /\ \A i \in DOMAIN claims :
       /\ claims[i].left \in 0 .. ClaimTtl
       /\ claims[i].agent = AgentOf[claims[i].session]
  /\ IsInjective([i \in DOMAIN lanes |-> lanes[i].key])
  /\ \A i \in DOMAIN lanes :
       /\ lanes[i].tokens \subseteq Requests
       /\ (lanes[i].tokens = {}) <=> (lanes[i].active = None)
       /\ Queued(lanes[i]) \subseteq lanes[i].sched.pending
       /\ lanes[i].tokens = {} => Queued(lanes[i]) = lanes[i].sched.pending
  /\ DOMAIN pending \subseteq Requests
  /\ \A r \in DOMAIN pending :
       pending[r].left \in 0 .. CommandTimeout /\ {pending[r].open, pending[r].timer} \subseteq BOOLEAN
  /\ {stopped, connected} \subseteq BOOLEAN

Waiting == Requests \ (fresh \cup approvals \cup answered)

\* No request is lost: between turns, an accepted request that has no answer
\* yet is queued in a lane or pending with its promise open, whatever was
\* handed from lane to lane, cancelled, refused or timed out meanwhile.
NoRequestLost ==
  TurnFree => \A r \in Waiting :
    r \in Open \/ \E i \in DOMAIN lanes, p \in Participants :
                    \E k \in DOMAIN lanes[i].queues[p] :
                      lanes[i].queues[p][k].request = r

\* Somebody will complete the turn that key waits for: the result or the
\* timer of the command, or the callback of a dispatch that waits elsewhere.
Owed(key, r) ==
  \/ r \in DOMAIN pending /\ pending[r].lane = key /\ pending[r].timer
  \/ r \in Open /\ key \in ToSet(pending[r].path)
  \/ \E i \in DOMAIN lanes, p \in Participants :
       \E k \in DOMAIN lanes[i].queues[p] :
         /\ lanes[i].queues[p][k].request = r
         /\ key \in ToSet(lanes[i].queues[p][k].path)

\* A lane keeps moving: between turns, a lane with queued requests has a turn
\* under way, and no lane waits for a command whose answer and timer are both
\* behind it.
LaneKeepsMoving ==
  TurnFree => \A i \in DOMAIN lanes :
    /\ Queued(lanes[i]) # {} => lanes[i].tokens # {}
    /\ \A r \in lanes[i].tokens : Owed(lanes[i].key, r)

\* The kill switch reaches everybody: once work is stopped no caller waits.
StopAnswersAll == stopped /\ TurnFree => approvals = {} /\ Waiting = {}

\* Every request is answered in the end, though the browser and the owner
\* may never say a word: lanes pass on and timers end what hangs.
EveryRequestAnswered == \A r \in Requests : r \notin fresh ~> r \in answered

\* With oneWriterPerTab, commands of different writers are never in flight
\* together, whatever their scopes.
OneWriterAtATime ==
  OneWriter /\ TurnFree =>
    Cardinality({SessionOf[r] : r \in DOMAIN pending}) <= 1
=============================================================================
