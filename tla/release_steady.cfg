SPECIFICATION Spec
CONSTANTS
    s1 = s1
    s2 = s2
    a1 = a1
    Services = {s1}
    Agents = {a1}
    AgentOf <- OneService
    Images = {"v1", "v2"}
    MaxReleases = 3
    MaxTasks = 3
    Percents = {50}
INVARIANTS OneInProgress CandidateIsOwnInstance LiveIsConfirmed
PROPERTY RefinesBlueGreen
CONSTRAINT SteadyAgent
