\* Two workers contend for one slot; one crash or failed call.
SPECIFICATION FairSpec
CONSTANTS
  m1 = m1
  w1 = w1
  w2 = w2
  Slots = {m1}
  Workers = {w1, w2}
  NoWorker = NoWorker
  NoJob = NoJob
  LeaseDuration = 1
  RenewalWindow = 1
  MaxAge = 1
  MaxGen = 2
  MaxToken = 3
  MaxFaults = 1
INVARIANTS
  RuntimeTypeOK
  TokenTellsGenerations
  ReleasedAfterResult
  OutstandingIsCurrent
PROPERTIES
  ImplementsFencedSlot
  
  SlotMovesOn
CHECK_DEADLOCK FALSE
