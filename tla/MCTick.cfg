SPECIFICATION Spec
CONSTANTS
    j1 = j1
    j2 = j2
    j3 = j3
    JobList <- MCJobList
    None = None
    Setups <- TickSetups
    MaxRestoreFee = 1
    FeeIsNative = TRUE
    MinProfit = 0
    MaxCostPerJob = 0
    QuarantineLength = 2
    TopLevel = 1
INVARIANTS
    ChannelsExclusive
    OnlyCulpritsSetAside
    PayingJobsRun
PROPERTIES
    ImplementsPass
    SetAsideReturns
