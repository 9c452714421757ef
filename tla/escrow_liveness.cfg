SPECIFICATION FairSpec
CONSTANTS
    MaxTime = 1
    ClearDelay = 0
    PauseScopeArgs = {"all"}
    PauseDurationArgs = {1}
    PauseRateArgs = {}
    Investors = {i1, i2}
    AllowlistInitially = FALSE
    MaxListed = 2
    Terms <- MaturityTerms
    YieldTiers <- NoTiers
    NoSnapshot = NoSnapshot
    Amounts = {1}
    Targets = {}
    Caps = {}
    Times = {}
    Yields = {}
    MaxDustSweep = 1
    MaxBalance = 2
    Families = {"dispute", "pause", "transfer"}
PROPERTIES
    RefundsComplete
    FundedEventuallyLeaves
