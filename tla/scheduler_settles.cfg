SPECIFICATION FairSpec
CONSTANTS
    j1 = j1
    j2 = j2
    Jobs = {j1, j2}
    Cron = {j2}
    Gaps <- LeapDays
    Fixed = {j1}
    NumExecutors = 2
    GroupOf <- EveryExecutor
    SlotOf <- OneSlotEach
    Instances = {1}
    MaxRetries = 1
    BatchSize = 1
    LeaseTicks = 2
    MaxTime = 1
    MaxRuns = 1
INVARIANTS AttemptsBounded HolderWhileLeased HolderWasSent
PROPERTIES RunsEnd EndedRunsStay
CONSTRAINT OneJobUnedited
