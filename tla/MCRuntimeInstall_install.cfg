\* Two packages over three files, up and down; two faults.
SPECIFICATION FairSpec
CONSTANTS
  engine = engine
  overlay = overlay
  driver = driver
  Files = {engine, overlay, driver}
  Contents = {1, 2}
  Absent = Absent
  Packages <- TwoPackages
  Current <- After
  Transactions = {1, 2, 3}
  NoTransaction = NoTransaction
  MaxFaults = 2
INVARIANT InstallTypeOK
PROPERTIES
  ImplementsWholeRuntime
  PendingResolved
CHECK_DEADLOCK FALSE
