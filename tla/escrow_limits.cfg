SPECIFICATION Spec
CONSTANTS
    MaxTime = 1
    ClearDelay = 0
    PauseScopeArgs = {}
    PauseDurationArgs = {}
    PauseRateArgs = {}
    Investors = {i1, i2}
    AllowlistInitially = FALSE
    MaxListed = 2
    Terms <- CappedTerms
    YieldTiers <- NoTiers
    NoSnapshot = NoSnapshot
    Amounts = {1, 2}
    Targets = {4}
    Caps = {1, 2, 3}
    Times = {}
    Yields = {5000}
    MaxDustSweep = 1
    MaxBalance = 8
    Families = {"terms"}
INVARIANTS
    CapsRespected
    SnapshotPinsFunding
