SPECIFICATION Spec
CONSTANTS
    MaxTime = 1
    ClearDelay = 1
    PauseScopeArgs = {"all", "funding", "settlement", "withdrawal", "claims"}
    PauseDurationArgs = {1}
    PauseRateArgs = {}
    Investors = {i1}
    AllowlistInitially = FALSE
    MaxListed = 2
    Terms <- PlainTerms
    YieldTiers <- NoTiers
    NoSnapshot = NoSnapshot
    Amounts = {1}
    Targets = {}
    Caps = {}
    Times = {}
    Yields = {}
    MaxDustSweep = 1
    MaxBalance = 2
    Families = {"hold", "dispute", "pause", "transfer"}
PROPERTIES
    StandsInForEscrow
    HoldFreezesFunds
    DisputeFreezesExits
    PauseStopsEntries
