SPECIFICATION SpecLive
CONSTANTS
    alice = alice
    bob = bob
    k1 = k1
    k2 = k2
    k3 = k3
    registry = registry
    xlm = xlm
    usd = usd
    executor = executor
    target = target
    oracle = oracle
    hash1 = hash1
    hash2 = hash2
    None = None
    Contracts <- MCContracts
    Resolvers = {oracle}
    WasmHashes = {hash1, hash2}
    FirstCode = hash1
    Self = registry
    FirstAdmin = alice
    Digest <- MCDigest
    U32Max = 20
    U64Max = 100
    I128Max = 2
    MINUTE = 1
    HOUR_MINUTES = 2
    DAY_HOURS = 2
    WEEK_DAYS = 2
    FIRST_MONDAY_OFFSET_DAYS = 1
    BPS_SCALE = 2
    MAX_BATCH = 2
    MAX_JOB_KEEPERS = 2
    MAX_ACTIVE_KEEPERS = 2
    MAX_BPS = 1
    MAX_GRACE_PERIOD = 2
    MAX_UNBONDING_EPOCH = 4
    DEFAULT_MAX_FAILURES = 3
    TEMPORARY_TTL = 2
    MaxJobs = 1
    MaxTime = 4
    Accounts = {alice}
    Keepers = {k1, k2}
    FirstMinStake = 1
    UnbondingPeriod = 1
    FeeToken = xlm
    StakeToken = usd
    Worlds <- LivenessWorlds
    Diligent = k2
PROPERTIES
    DueJobsGetRun
