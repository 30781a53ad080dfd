\* One execution of one slot, renewed at most once; nothing fails.
SPECIFICATION AppFairSpec
CONSTANTS
  m1 = m1
  w1 = w1
  Slots = {m1}
  Workers = {w1}
  NoWorker = NoWorker
  NoJob = NoJob
  LeaseDuration = 2
  RenewalWindow = 1
  MaxAge = 1
  MaxGen = 1
  MaxToken = 2
  MaxFaults = 0
PROPERTIES
  AcceptedResultsApply
CHECK_DEADLOCK FALSE
