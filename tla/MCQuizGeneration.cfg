SPECIFICATION Spec
CONSTANTS
    ChunkCount = 2
    Keys = {k1, k2}
    Concurrencies = {1, 2}
    ChunkEstimate = 2
    Costs = {1, 3}
    Grant = 6
    MaxRetries = 1
    MaxAttempts = 2
    MaxMishaps = 1
SYMMETRY KeySymmetry
INVARIANTS WalletMatchesLedger SettledUsageIsFinal UncertainIsHeld EndedRunsAreSettled CompletedBudgetIsOwn
CHECK_DEADLOCK FALSE
