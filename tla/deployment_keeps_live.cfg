SPECIFICATION DeploymentSpec
CONSTANTS
    s1 = s1
    a1 = a1
    i1 = i1
    i2 = i2
    Services = {s1}
    Agents = {a1}
    agent = a1
    AgentOf <- MCAgentOf
    Images = {i1, i2}
    MaxReleases = 2
    MaxTasks = 2
    Percents = {}
    MaxFaults = 0
CHECK_DEADLOCK FALSE
PROPERTY CleanupKeepsLive
