SPECIFICATION Spec
CONSTANTS
    j1 = j1
    j2 = j2
    j3 = j3
    JobList <- MCJobList
    Setups <- MCSetups
    MAX_BATCH = 3
    Budget = 1
    MIN_PROFIT = 0
    MAX_COST_PER_JOB = 3
    TICKS = 2
INVARIANTS
    GoodJobsRun
PROPERTIES
    ImplementsPass
