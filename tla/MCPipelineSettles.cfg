SPECIFICATION FairSpec
CONSTANTS
    Documents = {d1}
    Workers = {w1, w2}
    NoDocument = NoDocument
    MaxRetries = 1
    MaxArms = 0
    MaxMishaps = 1
    MaxAttempts = 6
    BatchSize = 2
    MaxConfirms = 1
    MaxRelayFaults = 1
PROPERTIES ConfirmedDocumentsSettle JobsSettle
CHECK_DEADLOCK FALSE
