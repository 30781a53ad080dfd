\* Every sequence of the scheduler's methods over three sessions.
SPECIFICATION RotationSpec
CONSTANTS
  p1 = p1
  p2 = p2
  p3 = p3
  Participants = {p1, p2, p3}
  Burst <- Bursts
  Nobody = Nobody
  MaxRounds = 4
INVARIANTS
  RotationTypeOK
  BoundedOvertaking
