\* Fields, a form and the whole tab under the fence: the extension broker.
SPECIFICATION Spec
CONSTANTS
  r1 = r1
  r2 = r2
  r3 = r3
  r4 = r4
  r5 = r5
  ana = ana
  ben = ben
  codex = codex
  name = name
  city = city
  form = form
  None = None
  Nobody = Nobody
  ClaimTtl = 1
  CommandTimeout = 2
  AgentOf <- Agents
  Burst <- Bursts
  Requests = {r1, r2, r3, r4}
  Participants = {ana, ben, codex}
  SessionOf <- FormWriters
  ScopeOf <- FormScopes
  SharedBy <- Shared
  Risky = {}
  OneWriter = FALSE
  Fenced = TRUE
INVARIANTS
  TurnsTypeOK
  NoRequestLost
  LaneKeepsMoving
  StopAnswersAll
