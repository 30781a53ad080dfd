\* Three processes with a request each; crashes and aborts at any time.
SPECIFICATION FairSpec
CONSTANTS
  p1 = p1
  p2 = p2
  p3 = p3
  r1 = r1
  r2 = r2
  r3 = r3
  r4 = r4
  Processes = {p1, p2, p3}
  Requests = {r1, r2, r3, r4}
  HomeOf <- Homes
  Signalled = {r2}
  Nobody = Nobody
  StaleAge = 1
INVARIANTS
  ForegroundTypeOK
  LiveOwnerHolds
PROPERTIES
  EveryRequestSettles
CHECK_DEADLOCK FALSE
