SPECIFICATION Spec
CONSTANTS
    Documents = {d1}
    Workers = {w1, w2}
    NoDocument = NoDocument
    MaxRetries = 1
    MaxArms = 0
    MaxMishaps = 1
    MaxAttempts = 6
    BatchSize = 2
    MaxConfirms = 2
    MaxRelayFaults = 1
SYMMETRY LoopSymmetry
INVARIANTS ReadySeenHasQuiz QuizCitesStoredChunks VoidFollowsCompletion LoopsAddNoOutcome
PROPERTIES ReliableRelayAnswersLatestConfirm ImplementsLifecycle
CHECK_DEADLOCK FALSE
