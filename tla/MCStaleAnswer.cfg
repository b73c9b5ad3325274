SPECIFICATION Spec
CONSTANTS
    Documents = {d1}
    Workers = {w1}
    NoDocument = NoDocument
    MaxRetries = 1
    MaxArms = 0
    MaxMishaps = 0
    MaxAttempts = 4
    BatchSize = 2
    MaxConfirms = 2
    MaxRelayFaults = 1
PROPERTIES AnswersLatestConfirm
CHECK_DEADLOCK FALSE
