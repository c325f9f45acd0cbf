SPECIFICATION Spec
CONSTANTS
    j1 = j1
    j2 = j2
    Jobs = {j1}
    Cron = {j1}
    Fixed = {}
    Gaps = {}
    NumExecutors = 1
    GroupOf <- NoExecutor
    SlotOf <- OneSlotEach
    Instances = {}
    MaxRetries = 0
    BatchSize = 2
    LeaseTicks = 1
    MaxTime = 3
    MaxRuns = 3
    MinutesPerHour = 2
    HoursPerDay = 2
    DaysPerWeek = 2
    Calendar <- MCCalendar
    CommonYear <- MCCommonYear
    NumMonths = 2
    MaxDay = 3
    SearchedDays = 6
INVARIANTS ScheduleGoesOn OneRunPerMoment
PROPERTIES NoMomentLost
