\* One writer per tab, no fence: the dedicated Chrome broker.
SPECIFICATION FairSpec
CONSTANTS
  r1 = r1
  r2 = r2
  r3 = r3
  r4 = r4
  r5 = r5
  ana = ana
  ben = ben
  codex = codex
  name = name
  city = city
  form = form
  None = None
  Nobody = Nobody
  ClaimTtl = 1
  CommandTimeout = 2
  AgentOf <- Agents
  Burst <- Bursts
  Requests = {r1, r2, r3, r4, r5}
  Participants = {ana, ben, codex}
  SessionOf <- Writers
  ScopeOf <- WholeTabs
  SharedBy <- Alone
  Risky = {r3}
  OneWriter = TRUE
  Fenced = FALSE
PROPERTIES
  EveryRequestAnswered
