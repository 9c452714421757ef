SPECIFICATION Spec
CONSTANTS
    MaxTime = 3
    ClearDelay = 0
    PauseScopeArgs = {}
    PauseDurationArgs = {}
    PauseRateArgs = {}
    Investors = {i1}
    AllowlistInitially = TRUE
    MaxListed = 1
    Terms <- WindowTerms
    YieldTiers <- TwoTiers
    NoSnapshot = NoSnapshot
    Amounts = {1}
    Targets = {}
    Caps = {}
    Times = {0, 1, 2}
    Yields = {5000}
    MaxDustSweep = 1
    MaxBalance = 3
    Families = {"terms", "allowlist"}
PROPERTIES
    LapsedStaysLapsed
    CommitmentKept
    AllowlistGatesDeposits
