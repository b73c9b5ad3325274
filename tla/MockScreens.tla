----------------------------- MODULE MockScreens -----------------------------
(***************************************************************************)
(* The screens that run on fixtures: account forms, onboarding, the course *)
(* dialog, practice exam, exam setup, card review, tutor, settings, plans, *)
(* the teacher's assignment form and the job board.  Nothing is sent: a    *)
(* request is a timer of the page, a save only shows a toast, and the      *)
(* page's state goes with the page.  A value typed or chosen is "none",    *)
(* one that fails validation, or one of two that pass, "a" and "b".        *)
(***************************************************************************)
EXTENDS Integers, FiniteSets, Sequences

CONSTANTS
    ExamQuestions, \* questions of the practice exam
    ExamOptions,   \* options of each
    ExamSeconds,   \* bound: seconds on its clock
    ReviewCards,   \* cards due in the deck under review
    MaxChanged     \* bound: settings that differ from their default

\* The exam page cuts its questions to ten, and is not found when there are none.
ASSUME MockAssumption ==
    /\ ExamQuestions \in 1..10
    /\ {ExamOptions, ExamSeconds, ReviewCards, MaxChanged} \subseteq Nat

VARIABLE mock \* the fixture page shown and its state

MinOf(x, y) == IF x < y THEN x ELSE y
MaxOf(x, y) == IF x > y THEN x ELSE y

NoMock == [page |-> "none"]

-----------------------------------------------------------------------------
(* Account forms.  awaited holds the values a running request was given,   *)
(* accepted those whose success is shown; each is empty or one record.     *)

FieldChoices(field) ==
    CASE field \in {"password", "confirmPassword"} -> {"none", "weak", "a", "b"}
      [] field = "email" -> {"none", "malformed", "a"}
      [] OTHER -> {"none", "a"}

FieldsOf(p) ==
    CASE p = "login"  -> {"email", "password", "rememberMe"}
      [] p = "signup" -> {"fullName", "email", "password", "confirmPassword", "acceptsTrustNote"}
      [] p = "forgot" -> {"email"}
      [] p = "reset"  -> {"password", "confirmPassword"}

OpenForm(p) ==
    [page |-> p, values |-> [f \in FieldsOf(p) |-> IF f = "rememberMe" THEN "a" ELSE "none"],
     errors |-> {}, awaited |-> {}, accepted |-> {}]

ValidateLoginValues(v) ==
    {f \in {"email"} : v[f] # "a"} \cup {f \in {"password"} : v[f] = "none"}

ValidateForgotPasswordValues(v) == {f \in {"email"} : v[f] # "a"}

ValidateResetPasswordValues(v) ==
    {f \in {"password"} : v[f] \in {"none", "weak"}}
        \cup {f \in {"confirmPassword"} : v[f] = "none" \/ v[f] # v.password}

ValidateSignupValues(v) ==
    {f \in {"fullName", "acceptsTrustNote"} : v[f] = "none"}
        \cup {f \in {"email"} : v[f] # "a"} \cup ValidateResetPasswordValues(v)

RemoveFieldError(errors, field) == errors \ {field}

\* Fields stay open while the request runs; an edit withdraws the success shown.
UpdateValue(field, value) ==
    mock' = [mock EXCEPT !.values[field] = value,
                         !.errors = RemoveFieldError(@, field),
                         !.accepted = {}]

\* The submit button is disabled while a request runs.
HandleFormSubmit(invalid) ==
    /\ mock.awaited = {}
    /\ mock' = [mock EXCEPT !.errors = invalid,
                            !.accepted = {},
                            !.awaited = IF invalid = {} THEN {mock.values} ELSE {}]

WaitForMockRequest ==
    /\ mock.awaited # {}
    /\ mock' = [mock EXCEPT !.awaited = {}, !.accepted = mock.awaited]

EditAny == \E f \in DOMAIN mock.values : \E x \in FieldChoices(f) : UpdateValue(f, x)

LoginForm ==
    /\ mock.page = "login"
    /\ EditAny \/ HandleFormSubmit(ValidateLoginValues(mock.values)) \/ WaitForMockRequest

SignupForm ==
    /\ mock.page = "signup"
    /\ EditAny \/ HandleFormSubmit(ValidateSignupValues(mock.values)) \/ WaitForMockRequest

ResetPasswordForm ==
    /\ mock.page = "reset"
    /\ EditAny \/ HandleFormSubmit(ValidateResetPasswordValues(mock.values)) \/ WaitForMockRequest

\* sentEmail is the address the request was given, whatever the field holds by
\* now; typing leaves it, "send again" clears it.
ForgotPasswordForm ==
    /\ mock.page = "forgot"
    /\ \/ \E x \in FieldChoices("email") :
            mock' = [mock EXCEPT !.values.email = x, !.errors = RemoveFieldError(@, "email")]
       \/ HandleFormSubmit(ValidateForgotPasswordValues(mock.values))
       \/ WaitForMockRequest
       \/ mock.accepted # {} /\ mock' = [mock EXCEPT !.accepted = {}]

OpenVerify == [page |-> "verify", resending |-> FALSE, resent |-> FALSE, confirmed |-> FALSE]

VerifyEmailPanel ==
    /\ mock.page = "verify"
    /\ \/ ~mock.resending /\ mock' = [mock EXCEPT !.resending = TRUE, !.resent = FALSE]
       \/ mock.resending /\ mock' = [mock EXCEPT !.resending = FALSE, !.resent = TRUE]
       \/ ~mock.confirmed /\ mock' = [mock EXCEPT !.confirmed = TRUE]

-----------------------------------------------------------------------------
(* Onboarding: one field a step, each step checked when it is left.        *)

OnboardingSteps == <<"goal", "language", "level", "firstAction", "acceptsTrustNote">>
LastStep == Len(OnboardingSteps)

OpenOnboarding ==
    [page |-> "onboarding", step |-> 1, values |-> [f \in {OnboardingSteps[i] : i \in 1..LastStep} |-> "none"],
     errors |-> {}, awaited |-> {}, accepted |-> {}]

GetStepValidationErrors(step, v) == {f \in {OnboardingSteps[step]} : v[f] = "none"}

\* The options of each step; those of the first three lead nowhere else.
OnboardingOptions ==
    [goal |-> {"a"}, language |-> {"a"}, level |-> {"a"},
     firstAction |-> {"upload", "sample"}, acceptsTrustNote |-> {"a", "none"}]

\* An option once chosen can only be changed; the trust note can be unticked.
ChooseOption ==
    LET field == OnboardingSteps[mock.step]
    IN  \E x \in OnboardingOptions[field] : UpdateValue(field, x)

\* The choices listed with the success, those of the form as it is now.
GetCompletionSummary == {mock.values[f] : f \in {"goal", "language", "level", "firstAction"}}

\* The link offered with the success.
FirstValueLink == IF mock.values.firstAction = "sample" THEN "home" ELSE "upload"

GoBack ==
    /\ mock.step > 1 /\ mock.awaited = {}
    /\ mock' = [mock EXCEPT !.step = @ - 1]

GoNextUnchecked ==
    /\ mock.step < LastStep
    /\ mock' = [mock EXCEPT !.step = @ + 1, !.errors = {}]

GoNext ==
    LET invalid == GetStepValidationErrors(mock.step, mock.values)
    IN  /\ mock.step < LastStep
        /\ mock' = [mock EXCEPT !.errors = invalid, !.step = IF invalid = {} THEN @ + 1 ELSE @]

\* Only the last step is validated; a success already shown stays shown.
HandleFinish ==
    LET invalid == GetStepValidationErrors(mock.step, mock.values)
    IN  /\ mock.step = LastStep /\ mock.awaited = {}
        /\ mock' = [mock EXCEPT !.errors = invalid,
                                !.awaited = IF invalid = {} THEN {mock.values} ELSE {}]

OnboardingFlow ==
    /\ mock.page = "onboarding"
    /\ ChooseOption \/ GoBack \/ GoNext \/ HandleFinish \/ WaitForMockRequest

-----------------------------------------------------------------------------
(* The course dialog.  filled is the set of fields that differ from the    *)
(* default; closing keeps them, creating clears them.                      *)

CourseFields == {"name", "subject", "goal", "deadline", "language"}
ReadyDocuments == {"os", "net", "ml"}

OpenCourses == [page |-> "courses", open |-> FALSE, filled |-> {}, documentIds |-> {}]

CoursesPageContent ==
    /\ mock.page = "courses"
    /\ \/ ~mock.open /\ mock' = [mock EXCEPT !.open = TRUE]
       \/ mock.open /\ mock' = [mock EXCEPT !.open = FALSE]
       \/ mock.open /\ \E f \in CourseFields :
            \/ mock' = [mock EXCEPT !.filled = @ \cup {f}]
            \/ mock' = [mock EXCEPT !.filled = @ \ {f}]
       \/ mock.open /\ \E d \in ReadyDocuments :
            mock' = [mock EXCEPT !.documentIds = IF d \in @ THEN @ \ {d} ELSE @ \cup {d}]

HandleCreateCourse ==
    /\ mock.page = "courses" /\ mock.open
    /\ mock' = OpenCourses

-----------------------------------------------------------------------------
(* Practice exam.  The clock stops at zero and nothing else happens then.  *)

OpenExam ==
    [page |-> "exam", currentIndex |-> 1, answers |-> [q \in 1..ExamQuestions |-> 0],
     flagged |-> {}, secondsLeft |-> ExamSeconds, isSubmitDialogOpen |-> FALSE]

CountAnsweredQuestions == Cardinality({q \in 1..ExamQuestions : mock.answers[q] # 0})

\* Math.round of a percentage.
RoundedPct(part, whole) == (200 * part + whole) \div (2 * whole)

\* The cards above the questions, and what the submit dialog says is missing.
ExamSummary ==
    [answered |-> CountAnsweredQuestions, flagged |-> Cardinality(mock.flagged),
     unanswered |-> ExamQuestions - CountAnsweredQuestions,
     progressPct |-> RoundedPct(CountAnsweredQuestions, ExamQuestions)]

SelectExamOption ==
    \E o \in 1..ExamOptions : mock' = [mock EXCEPT !.answers[mock.currentIndex] = o]

ToggleExamFlag ==
    LET q == mock.currentIndex
    IN  mock' = [mock EXCEPT !.flagged = IF q \in @ THEN @ \ {q} ELSE @ \cup {q}]

ExamClock == mock.secondsLeft > 0 /\ mock' = [mock EXCEPT !.secondsLeft = @ - 1]

\* The palette reaches every question; previous and next are two of its moves.
GoToQuestion == \E q \in 1..ExamQuestions : mock' = [mock EXCEPT !.currentIndex = q]

SubmitDialog ==
    \/ /\ mock.currentIndex = ExamQuestions /\ ~mock.isSubmitDialogOpen
       /\ mock' = [mock EXCEPT !.isSubmitDialogOpen = TRUE]
    \/ mock.isSubmitDialogOpen /\ mock' = [mock EXCEPT !.isSubmitDialogOpen = FALSE]

\* The result page is that of a fixture attempt: the answers are not sent.
SubmitExam == mock.isSubmitDialogOpen /\ mock' = [page |-> "examResult"]

PracticeExamScreen ==
    /\ mock.page = "exam"
    /\ \/ ExamClock \/ SubmitDialog \/ SubmitExam
       \/ ~mock.isSubmitDialogOpen /\ (SelectExamOption \/ ToggleExamFlag \/ GoToQuestion)

-----------------------------------------------------------------------------
(* Exam setup.                                                             *)

CourseDocuments == [course_os |-> {"os", "net"}, course_ml |-> {"ml"}]

OpenExamSetup ==
    [page |-> "setup", course |-> "course_os", selected |-> CourseDocuments.course_os, type |-> "mixed"]

ToggleDocument ==
    \E d \in CourseDocuments[mock.course] :
        mock' = [mock EXCEPT !.selected = IF d \in @ THEN @ \ {d} ELSE @ \cup {d}]

SelectCourseKeeping(c) == mock' = [mock EXCEPT !.course = c]

SelectCourse(c) == mock' = [mock EXCEPT !.course = c, !.selected = CourseDocuments[c]]

ExamSetupScreen ==
    /\ mock.page = "setup"
    /\ \/ ToggleDocument
       \/ \E c \in DOMAIN CourseDocuments : SelectCourse(c)
       \/ \E t \in {"mixed", "conceptual", "timed"} : mock' = [mock EXCEPT !.type = t]

-----------------------------------------------------------------------------
(* Card review.                                                            *)

Ratings == {"again", "hard", "good", "easy"}

OpenReview ==
    [page |-> "review", currentIndex |-> 1, isAnswerVisible |-> FALSE,
     ratings |-> [c \in 1..ReviewCards |-> "none"]]

IsComplete == mock.currentIndex > ReviewCards

\* The answer is shown and hidden by buttons, and shown by space or enter.
RevealAnswer ==
    /\ ~IsComplete
    /\ \E visible \in BOOLEAN : mock' = [mock EXCEPT !.isAnswerVisible = visible]

\* A click on a rating, or its key.
HandleRateCard ==
    /\ ~IsComplete /\ mock.isAnswerVisible
    /\ \E rating \in Ratings :
        mock' = [mock EXCEPT !.ratings[mock.currentIndex] = rating,
                             !.isAnswerVisible = FALSE,
                             !.currentIndex = @ + 1]

ResetReview == IsComplete /\ mock' = OpenReview

FlashcardReviewExperience ==
    mock.page = "review" /\ (RevealAnswer \/ HandleRateCard \/ ResetReview)

-----------------------------------------------------------------------------
(* Tutor.  The context is in the address: changing it changes the page's   *)
(* property and keeps its state, the messages with it.                     *)

ContextDocuments ==
    [all |-> ReadyDocuments, course_os |-> CourseDocuments.course_os, course_ml |-> CourseDocuments.course_ml,
     document_os |-> {"os"}, document_net |-> {"net"}, document_ml |-> {"ml"}]

\* The documents each answer cites.
AnswerTemplates ==
    [os_simple |-> {"os"}, tcp_udp |-> {"net"}, gradient |-> {"ml"},
     review_plan |-> {"os", "net"}, flashcards |-> {"os", "net"}]

\* latest is the last assistant message and the context it was given in.
BuildGreetingMessage(c) == [asked |-> c, citations |-> {}, noEvidence |-> FALSE]

BuildAssistantMessage(template, c) ==
    LET cited == IF template \in DOMAIN AnswerTemplates
                 THEN AnswerTemplates[template] \cap ContextDocuments[c] ELSE {}
    IN  [asked |-> c, citations |-> cited, noEvidence |-> cited = {}]

OpenTutor(c) == [page |-> "tutor", context |-> c, composer |-> FALSE, latest |-> BuildGreetingMessage(c)]

\* template: the first that matches the words of the prompt, or none.
SubmitPrompt ==
    \E template \in DOMAIN AnswerTemplates \cup {"unmatched"} :
        mock' = [mock EXCEPT !.latest = BuildAssistantMessage(template, mock.context),
                             !.composer = FALSE]

TutorPageContent ==
    /\ mock.page = "tutor"
    /\ \/ \E typed \in BOOLEAN : mock' = [mock EXCEPT !.composer = typed]
       \/ SubmitPrompt
       \/ \E c \in DOMAIN ContextDocuments : mock' = [mock EXCEPT !.context = c]

-----------------------------------------------------------------------------
(* Settings: four tabs over one state that the tabs share.  changed is the  *)
(* set of settings that differ from their default; the save buttons only   *)
(* show a toast.                                                           *)

AccountTab == {"fullName"}
LearningTab == {"language", "difficulty", "explanationStyle", "reviewSchedule", "examGoal", "defaultOutputs"}
NotificationsTab == {"isInAppEnabled", "isEmailEnabled", "isPushEnabled", "isPrivateByDefault", "isTrainingOptOut"}
AccessibilityTab == {"isReducedMotion", "isLargeText", "isHighContrast", "isCaptionsByDefault"}

Settings ==
    [account |-> AccountTab, learning |-> LearningTab,
     notifications |-> NotificationsTab, accessibility |-> AccessibilityTab]

OpenSettings == [page |-> "settings", active |-> "account", changed |-> {}]

SelectTab == \E t \in DOMAIN Settings : mock' = [mock EXCEPT !.active = t]

\* A switch, or an edit away from the default or back to it.
ChangeSetting ==
    \E x \in Settings[mock.active] :
        /\ x \in mock.changed \/ Cardinality(mock.changed) < MaxChanged
        /\ mock' = [mock EXCEPT !.changed = IF x \in @ THEN @ \ {x} ELSE @ \cup {x}]

SettingsScreen == mock.page = "settings" /\ (SelectTab \/ ChangeSetting)

-----------------------------------------------------------------------------
(* Plans and the teacher's assignment form.  toast is what the last notice  *)
(* says, until it goes away.                                               *)

ToastEnds == mock.toast # "none" /\ mock' = [mock EXCEPT !.toast = "none"]

\* The price of each plan in thousands, by billing cycle.
PlanCards ==
    [free |-> [monthly |-> 0, yearly |-> 0],
     student_plus |-> [monthly |-> 129, yearly |-> 1290],
     pro_learner |-> [monthly |-> 249, yearly |-> 2490]]

OpenUpgrade ==
    [page |-> "upgrade", billingCycle |-> "monthly", selectedPlanId |-> "student_plus", toast |-> "none"]

Price(plan) == PlanCards[plan][mock.billingCycle]

SetBillingCycle == \E c \in {"monthly", "yearly"} : mock' = [mock EXCEPT !.billingCycle = c]

SelectPlan == \E plan \in DOMAIN PlanCards : mock' = [mock EXCEPT !.selectedPlanId = plan]

UpgradeToSelectedPlan ==
    /\ mock.selectedPlanId \in DOMAIN PlanCards
    /\ mock' = [mock EXCEPT !.toast = mock.selectedPlanId]

UpgradeScreen ==
    /\ mock.page = "upgrade"
    /\ SetBillingCycle \/ SelectPlan \/ UpgradeToSelectedPlan \/ ToastEnds

\* One class with two documents and two assignments.
ClassDocuments == {"os", "net"}
ExistingAssignments == 2

\* title and date must be filled in for the browser to submit.
OpenAssignment ==
    [page |-> "assignment", documentId |-> "os", activityType |-> "quiz", attemptRule |-> "two",
     filled |-> {"title", "dueDate"}, publishNow |-> TRUE, toast |-> "none"]

CoveragePct == MinOf(100, RoundedPct(ExistingAssignments + 1, MaxOf(1, Cardinality(ClassDocuments) + 1)))

UpdateField ==
    \/ \E d \in ReadyDocuments : mock' = [mock EXCEPT !.documentId = d]
    \/ \E t \in {"quiz", "checkpoints"} : mock' = [mock EXCEPT !.activityType = t]
    \/ \E r \in {"one", "two", "unlimited"} : mock' = [mock EXCEPT !.attemptRule = r]
    \/ \E s \in SUBSET {"title", "dueDate"} : mock' = [mock EXCEPT !.filled = s]
    \/ \E b \in BOOLEAN : mock' = [mock EXCEPT !.publishNow = b]

HandleSaveDraft == mock' = [mock EXCEPT !.toast = "saved"]

HandleAssignmentSubmit ==
    /\ mock.filled = {"title", "dueDate"}
    /\ mock' = [mock EXCEPT !.toast = IF mock.publishNow THEN "published" ELSE "review"]

TeacherAssignmentForm ==
    /\ mock.page = "assignment"
    /\ UpdateField \/ HandleSaveDraft \/ HandleAssignmentSubmit \/ ToastEnds

-----------------------------------------------------------------------------
(* The operator's job board: a filter over a fixed list.                   *)

Jobs == <<"running", "failed", "completed">>
JobFilters == {"all", "running", "pending", "completed", "failed"}

OpenJobs == [page |-> "jobs", activeFilter |-> "all", toast |-> "none"]

GetFilterCount(filter) == Cardinality({j \in DOMAIN Jobs : filter = "all" \/ Jobs[j] = filter})

\* The places of the jobs shown, in the order of the list.
FilteredJobs == {i \in DOMAIN Jobs : mock.activeFilter \in {"all", Jobs[i]}}

\* Rows shown of failed jobs have a button, which notifies.
AdminJobsBoard ==
    /\ mock.page = "jobs"
    /\ \/ \E f \in JobFilters : mock' = [mock EXCEPT !.activeFilter = f]
       \/ /\ \E i \in FilteredJobs : Jobs[i] = "failed"
          /\ mock' = [mock EXCEPT !.toast = "retried"]
       \/ ToastEnds

-----------------------------------------------------------------------------
OpenScreens ==
    {OpenForm(p) : p \in {"login", "signup", "forgot", "reset"}}
        \cup {OpenVerify, OpenOnboarding, OpenCourses, OpenExam, OpenExamSetup, OpenReview}
        \cup {OpenSettings, OpenUpgrade, OpenAssignment, OpenJobs}
        \cup {OpenTutor(c) : c \in DOMAIN ContextDocuments}

MockStep ==
    \/ LoginForm \/ SignupForm \/ ForgotPasswordForm \/ ResetPasswordForm \/ VerifyEmailPanel
    \/ OnboardingFlow \/ CoursesPageContent \/ HandleCreateCourse
    \/ PracticeExamScreen \/ ExamSetupScreen \/ FlashcardReviewExperience \/ TutorPageContent
    \/ SettingsScreen \/ UpgradeScreen \/ TeacherAssignmentForm \/ AdminJobsBoard

\* Whatever is being sent, or shown as done, passed the validation of every
\* field.  Onboarding validates its last step only and relies on the steps
\* before it having been checked when they were left.
SuccessIsEarned ==
    LET Invalid(v) ==
            CASE mock.page = "login"      -> ValidateLoginValues(v)
              [] mock.page = "signup"     -> ValidateSignupValues(v)
              [] mock.page = "forgot"     -> ValidateForgotPasswordValues(v)
              [] mock.page = "reset"      -> ValidateResetPasswordValues(v)
              [] mock.page = "onboarding" -> {f \in DOMAIN v : v[f] = "none"}
    IN  mock.page \in {"login", "signup", "forgot", "reset", "onboarding"} =>
            \A v \in mock.awaited \cup mock.accepted : Invalid(v) = {}

\* The cards rated are those before the one shown, none skipped, none ahead.
ReviewIsInOrder ==
    mock.page = "review" =>
        \A c \in 1..ReviewCards : (mock.ratings[c] # "none") <=> (c < mock.currentIndex)

\* Documents ticked in the exam setup can be seen and unticked there.
SelectionIsOfCourse == mock.page = "setup" => mock.selected \subseteq CourseDocuments[mock.course]

\* An answer cites documents of the context it was asked in, or says that it
\* found no evidence.
AnswersAreGrounded ==
    mock.page = "tutor" =>
        /\ mock.latest.citations \subseteq ContextDocuments[mock.latest.asked]
        /\ mock.latest.noEvidence => mock.latest.citations = {}

\* The onboarding success lists a choice for every step and leads where the
\* learner asked to go, though the form was open while the request ran.
SummaryIsComplete ==
    mock.page = "onboarding" /\ mock.accepted # {} =>
        /\ "none" \notin GetCompletionSummary
        /\ FirstValueLink = "home" <=> mock.values.firstAction = "sample"

\* A derived figure agrees with what it is derived from: an exam is complete at
\* 100 percent and only then, a plan by the year costs no more than twelve months of it, a percentage
\* stays one, a filter shows as many jobs as its button says.
FiguresAgree ==
    /\ mock.page = "exam" => (ExamSummary.progressPct = 100 <=> ExamSummary.unanswered = 0)
    /\ mock.page = "upgrade" => Price(mock.selectedPlanId) <= 12 * PlanCards[mock.selectedPlanId].monthly
    /\ mock.page = "assignment" => CoveragePct \in 0..100
    /\ mock.page = "jobs" => Cardinality(FilteredJobs) = GetFilterCount(mock.activeFilter)

\* What a fixture screen reports of its own past is true: no success that was
\* not validated on the way, no card skipped in a review, no hidden document in
\* an exam, no citation from outside the context asked, no figure that belies
\* what is chosen.
MockScreensAgree ==
    /\ SuccessIsEarned /\ SummaryIsComplete
    /\ ReviewIsInOrder /\ SelectionIsOfCourse /\ AnswersAreGrounded
    /\ FiguresAgree

=============================================================================
