SPECIFICATION Spec
CONSTANTS
    s1 = s1
    s2 = s2
    a1 = a1
    Services = {s1, s2}
    Agents = {a1}
    AgentOf <- TwoServices
    Images = {"v1"}
    MaxReleases = 2
    MaxTasks = 2
    Percents = {50}
INVARIANTS WaitsForLiveTask PublishedTrafficIsCurrent
PROPERTIES EndedStaysEnded
