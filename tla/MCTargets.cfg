CONSTANTS
    None = None
    U64Max = 7
    DcaPlans <- MCDcaPlans
    PRICE_SCALE = 2
    Deposits = {0, 2}
    Outs = {1, 2}
    Supply = 3
    Orders <- MCOrders
    Quotes = {1, 2}
    Subscribers = {s1}
    SubscriptionPlans <- MCSubscriptionPlans
    Jobs = {1}
    Allowances = {0, 3}
    FirstWallet = 3
    Beneficiaries = {b1, b2}
    Schedules <- MCSchedules
    I128Max = 100
    TimelockSettings <- MCTimelockSettings
    Etas = {1, 2, 6}
    MAX_PER_RUN = 1
    MaxCalls = 2
    Proposals = {p1, p2}
    Windows = {0, 2}
    Conditions <- MCConditions
    Triggers <- MCTriggers
    Thresholds = {0, 1, 2}
    RebalanceTargets <- MCRebalanceTargets
    Reserves <- MCReserves
    RATIO_SCALE = 10
    BPS = 20
    Composites = {"c1", "c2"}
    Lists <- MCLists
    MAX_RESOLVERS = 3
    Prices = {1}
    Skew = 1
    MaxChanges = 2
    Keys = {"k1", "k2"}
    Contracts = {"a", "b"}
    THRESHOLD = 3
    EXTEND_TO = 5
    MAX_KEYS = 2
    MAX_EXTEND_MANY = 2
    Guards <- MCGuards
    MaxTtl = 4
    MIN_TTL = 3
    Gap = 2
SPECIFICATION Spec
INVARIANTS
    TranchesKeepThePlan
    OneChargePerPeriod
    CallsRunInTheirWindow
    StaleFeedsStaySilent
    NothingArchived
PROPERTIES
    WindowClosesForGood
    RunsOnlyWhenDue
    MoneyStaysWithItsOwner
    VestingPaysOut
    QueueDrains
