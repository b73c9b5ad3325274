SPECIFICATION QueueSpec
CONSTANTS
    Documents = {d1, d2}
    Workers = {w1, w2}
    NoDocument = NoDocument
    MaxRetries = 1
    MaxArms = 2
    MaxMishaps = 1
    MaxAttempts = 5
SYMMETRY QueueSymmetry
INVARIANTS AttemptFence OneOutcomePerAttempt ReadyChunksAreStored
    DeadLetterHasOutcome FreshArmIsDue RetryBudgetBeforeDLQ
PROPERTIES WritesUnderCurrentClaim ImplementsJobOutcomes
CHECK_DEADLOCK FALSE
