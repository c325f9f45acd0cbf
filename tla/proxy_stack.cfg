SPECIFICATION Spec
CONSTANTS
    Services = {"web", "db", "mq"}
    Releases = {"r1", "r2"}
    Pooled = {"web"}
    Dedicated = {"db", "mq"}
    Occupied = {"mq"}
    MaxFaults = 1
    MaxChanges = 2
INVARIANTS ReadyMeansApplied
PROPERTIES SwitchesAtOnce EventuallyApplied WorkloadLostOnlyWhenOutdated
