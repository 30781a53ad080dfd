\* A window with two desktop operations: the driver is awaited between begin
\* and send; store faults and restarts.
SPECIFICATION Spec
CONSTANTS
  w1 = w1
  w2 = w2
  w3 = w3
  d1 = d1
  d2 = d2
  d3 = d3
  tab = tab
  win = win
  r1 = r1
  r2 = r2
  a1 = a1
  a2 = a2
  Agents = {a1, a2}
  AgentOf <- Sessions
  Whole = Whole
  NoAgent = NoAgent
  NoPlan = NoPlan
  SurfaceOf <- MixedSurface
  Ops = {d1, d2}
  WebOps = {}
  Surfaces = {win}
  Regions = {r1}
  RegionOf <- MixedRegion
  LeaseTtl = 1
  MaxReceipts = 2
  MaxRevision = 2
  StoreFaults = {FALSE, TRUE}
INVARIANTS
  UnknownOutcomeStaysFenced
  WaitingCallIsGuarded
  EpochCoversReceipts
  DistinctCommittedEpochs
PROPERTIES
  ImplementsSurfaceInput
