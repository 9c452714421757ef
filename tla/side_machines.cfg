SPECIFICATION FairMachinesSpec
CONSTANTS
    MaxTime = 5
    ClearDelay = 2
    PauseScopeArgs = {"all", "claims"}
    PauseDurationArgs = {0, 1}
    PauseRateArgs <- RateArgs
    Addresses = {a, b, c}
    Nobody = nobody
    FirstAdmin = a
    Windows = {0, 2}
    Fees = {f1, f2}
    NoSchedule = NoSchedule
    StoredNone = StoredNone
    LastActivation = 6
    Origins = {o1, o2}
    Phases = {1, 2}
    MaxNonce = 2
    Digests = {d1, d2}
    NoDigest = nodigest
    LogCapacity = 3
    RevokeBatch = 2
    ReadPage = 2
    ReadLimits = {1, 3}
    Assets = {x1, x2}
    EmptyAsset = empty
    PledgeAmounts = {0, 1, 2}
    CollateralBatch = 2
    Instances = {e1, e2}
    Hosts = {e1, e9}
    Maturities = {0, 2}
    SettleBatch = 2
    RentInvestors = {i1}
    StorageLimits = {1, 4}
    BumpBatch = 4
    MinExtension = 2
    FreshTtl = 3
    MaxTiers = 3
    TierLocks = {1, 2, 4}
    TierYields = {0, 1, 2}
    Commitments = {0, 1, 2, 3, 4}
    MaxInt = 200000000
    DepositAmounts = {333, 4999}
    Targets = {3, 9000, 20000}
    Yields = {0, 7, 10000}
INVARIANTS
    BurstBounded
    ViewsFollowTimeline
    CallbackRunsOnce
    RevocationsAudited
    ReaderMissesNothing
    PledgeEventsChain
    BatchSettlesTogether
    KeeperKeepsAlive
    BestTierGranted
    PayoutExactWithinRoot
PROPERTIES
    TimelockServed
    HandoverByConsent
    PauseCanBeLifted
