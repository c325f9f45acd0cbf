SPECIFICATION Spec
CONSTANTS
  External = {"x"}
  Instances = {"i"}
  MaxExecutors = 1
  NStreams = 3
  MaxFaults = 2
  MaxWanted = 4
INVARIANTS
  AdminsWordStands
  HubMatchesStreams
PROPERTIES
  SessionsEnd
  ComesBack
  UnwantedStops
  RunIsDone
CHECK_DEADLOCK FALSE
