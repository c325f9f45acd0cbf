SPECIFICATION Spec
CONSTANTS
  a = a
  b = b
  s = s
  NReleases = 2
  Admins = {a, b}
  StreamOwners = {s}
  MaxTasks = 2
  MaxBusy = 2
  MaxFaults = 1
SYMMETRY OneLike
INVARIANTS
  DoubleOnlyByRace
  StuckOnlyByStop
  CandidateOwnsSlot
CHECK_DEADLOCK FALSE
