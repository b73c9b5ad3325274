SPECIFICATION Spec
CONSTANTS
    QuestionCount = 2
    OptionCount = 2
    Key <- KeyOfTwo
    MaxTicks = 1
    MaxClicks = 5
    MaxVisits = 2
    MaxAttempts = 2
    Files = {"a", "b"}
    Models = {"m"}
    MaxDocuments = 2
    MaxLosses = 1
    MaxOpened = 2
    ExamQuestions = 2
    ExamOptions = 2
    ExamSeconds = 2
    ReviewCards = 3
    MaxChanged = 2
INVARIANTS
    SessionIsSaved
    FeedbackIsCurrent
    WaitsAreAwaited
    OneSubmissionAtATime
    EstimateIsOfChoice
    WorkIsOrderedOnce
    ScreenFollowsDocument
    MockScreensAgree
PROPERTY WorkIsKept
CHECK_DEADLOCK FALSE
