\* Two tasks, two sessions, each of the three transports; one fault.
SPECIFICATION Spec
CONSTANTS
  s1 = s1
  s2 = s2
  Sessions = {s1, s2}
  NoSession = NoSession
  Managed = s1
  MaxTasks = 2
  MaxFaults = 1
  Targets <- Aimed
  Reads <- Habits
  Providers = {"codex", "opencode", "claude"}
INVARIANTS
  DeliveryTypeOK
  OneHolder
  HandedOnce
  PendingKeepsItsPlace
CHECK_DEADLOCK FALSE
