SPECIFICATION FairSpec
CONSTANTS
    MaxTime = 2
    ClearDelay = 0
    PauseScopeArgs = {"claims"}
    PauseDurationArgs = {}
    PauseRateArgs = {}
    Investors = {i1, i2}
    AllowlistInitially = FALSE
    MaxListed = 2
    Terms <- TieredTerms
    YieldTiers <- OneTier
    NoSnapshot = NoSnapshot
    Amounts = {1}
    Targets = {}
    Caps = {}
    Times = {1}
    Yields = {}
    MaxDustSweep = 1
    MaxBalance = 4
    Families = {"transfer", "pause"}
INVARIANTS
    PayoutsWithinPool
PROPERTIES
    ClaimPaysTheView
    ClaimsComplete
