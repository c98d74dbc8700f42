SPECIFICATION Spec
CONSTANTS
    None = None
    Fees = {1, 2}
    Deposit = 2
    MaxJobs = 2
    MaxEvents = 3
    MaxLedger = 4
    PAGE = 1
    EventLimit = 2
    ResyncEvery = 3
    MaxFailures = 1
INVARIANTS
    IndexSound
PROPERTIES
    IndexHeals
