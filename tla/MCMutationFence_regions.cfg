\* One surface: a surface-wide operation and one operation in each of two
\* regions; the store may fail at any call and the broker may restart.
SPECIFICATION FenceSpec
CONSTANTS
  o1 = o1
  o2 = o2
  o3 = o3
  s1 = s1
  s2 = s2
  r1 = r1
  r2 = r2
  a1 = a1
  a2 = a2
  Whole = Whole
  NoAgent = NoAgent
  Ops = {o1, o2, o3}
  Agents = {a1, a2}
  AgentOf <- Sessions
  Surfaces = {s1}
  SurfaceOf <- OneSurface
  Regions = {r1, r2}
  RegionOf <- WholeAndRegions
  LeaseTtl = 2
  MaxReceipts = 3
  MaxRevision = 2
  StoreFaults = {FALSE, TRUE}
INVARIANTS
  TypeOK
  ExclusiveInFlight
  LeasePinsRevisions
  NoOrphanedTarget
PROPERTIES
  SettledIsFinal
