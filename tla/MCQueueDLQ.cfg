SPECIFICATION QueueSpec
CONSTANTS
    Documents = {d1}
    Workers = {w1}
    NoDocument = NoDocument
    MaxRetries = 3
    MaxArms = 2
    MaxMishaps = 0
    MaxAttempts = 10
INVARIANTS RetryBudget
CHECK_DEADLOCK FALSE
