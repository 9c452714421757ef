SPECIFICATION Spec
CONSTANTS
    MaxTime = 1
    ClearDelay = 0
    PauseScopeArgs = {}
    PauseDurationArgs = {}
    PauseRateArgs = {}
    Investors = {i1, i2}
    AllowlistInitially = FALSE
    MaxListed = 2
    Terms <- QuickTerms
    YieldTiers <- NoTiers
    NoSnapshot = NoSnapshot
    Amounts = {1}
    Targets = {}
    Caps = {}
    Times = {}
    Yields = {}
    MaxDustSweep = 2
    MaxBalance = 8
    Families = {"dispute"}
PROPERTIES
    DisputeFreezesAllTokens
