\* One tab: two surface-wide operations and one in a region, and a store with
\* room for two receipts that may fail at any call; restarts at any time.
SPECIFICATION Spec
CONSTANTS
  w1 = w1
  w2 = w2
  w3 = w3
  d1 = d1
  d2 = d2
  d3 = d3
  tab = tab
  win = win
  r1 = r1
  r2 = r2
  a1 = a1
  a2 = a2
  Agents = {a1, a2}
  AgentOf <- Sessions
  Whole = Whole
  NoAgent = NoAgent
  NoPlan = NoPlan
  SurfaceOf <- MixedSurface
  Ops = {w1, w2, w3}
  WebOps = {w1, w2, w3}
  Surfaces = {tab}
  Regions = {r1}
  RegionOf <- MixedRegion
  LeaseTtl = 1
  MaxReceipts = 2
  MaxRevision = 2
  StoreFaults = {FALSE, TRUE}
INVARIANTS
  DispatchTypeOK
  SentAtMostOnce
PROPERTIES
  ImplementsSurfaceInput
