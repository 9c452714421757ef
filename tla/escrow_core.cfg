SPECIFICATION PartiesSpec
CONSTANTS
    MaxTime = 1
    ClearDelay = 0
    PauseScopeArgs = {}
    PauseDurationArgs = {}
    PauseRateArgs = {}
    Investors = {i1, i2}
    AllowlistInitially = FALSE
    MaxListed = 2
    Terms <- PlainTerms
    YieldTiers <- NoTiers
    NoSnapshot = NoSnapshot
    Amounts = {1, 2}
    Targets = {3}
    Caps = {}
    Times = {}
    Yields = {0}
    MaxDustSweep = 2
    MaxBalance = 6
    Families = {"transfer", "terms"}
    Smes = {s1, s2}
    Payers = {p1, p2}
    Registries = {r1}
    NoRegistry = NoRegistry
SYMMETRY Symmetry
INVARIANTS
    TypeOK
    SnapshotTracksStatus
    PrincipalBacked
    DistributionAccounted
    FunderCountExact
    InvestorIndexSound
    PaidExactlyOnce
    NoRefundAndPayout
    PrincipalIsSum
    ReconciliationMatchesSweep
    OneCounterparty
PROPERTIES
    EntitlementFrozen
    ImplementsFundingRound
