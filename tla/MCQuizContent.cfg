SPECIFICATION Spec
CONSTANTS
    Inputs <- MCInputs
    Settings <- MCSettings
    Objects <- MCObjects
    Answers <- MCAnswers
    Profiles <- MCProfiles
    SourceWords <- MCSourceWords
    MinimumMatchTokens = 2
    MinimumMatchCharacters = 4
    MaximumTokens = 3
    OptionIds <- MCOptionIds
    HeadUnits = 4
    TechnicalRetries = 1
    MaxFaults = 1
INVARIANT
    ChunksCoverText
    ResultsBecomeSoundQuizzes
    GradedAttemptsReadBack
PROPERTY
    SplittingAdvances
CHECK_DEADLOCK FALSE
