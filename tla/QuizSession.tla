----------------------------- MODULE QuizSession -----------------------------
(***************************************************************************)
(* One quiz in the learner's tab: the start screen, the play screen with   *)
(* its timer, drafts and practice feedback, the submission of an attempt   *)
(* and the result page (web/src/components/quiz, app/quiz), with the       *)
(* AssessmentService behind them.                                          *)
(*                                                                         *)
(* React: a click renders and runs its effects before the next event, a    *)
(* timer's update renders first and runs its effects later (FlushEffects). *)
(* A call that is under way when its screen goes away still returns, and   *)
(* its handler then acts on storage and router; a full page load ends it.  *)
(***************************************************************************)
EXTENDS BrowserTab, Sequences, FiniteSets, FiniteSetsExt

CONSTANTS
    QuestionCount,  \* questions of the quiz
    OptionCount,    \* options of a question
    Key,            \* the correct option of each question
    MaxTicks,       \* bound: seconds on the clock of a draft
    MaxVisits,      \* bound: play screens opened
    MaxAttempts     \* bound: submissions sent

Questions == 1..QuestionCount
Options == 1..OptionCount

ASSUME QuizAssumption ==
    /\ QuestionCount \in Nat \ {0} /\ OptionCount \in Nat \ {0}
    /\ Key \in [Questions -> Options]
    /\ {MaxTicks, MaxVisits, MaxAttempts} \subseteq Nat

VARIABLES
    start,        \* the start screen's state
    play,         \* the play screen's state
    drafts,       \* sessionStorage, by mode
    storage,      \* sessionStorage takes values; a browser may refuse them all
    checks,       \* practice feedback calls under way
    submissions,  \* submissions under way
    attempts,     \* the attempts stored, in order, each with the mode it came from
    visits        \* play screens opened so far

quizVars == <<start, play, drafts, storage, checks, submissions, attempts, visits>>

Modes == {"practice", "test"}
Unanswered == 0

(***************************************************************************)
(* State                                                                   *)
(***************************************************************************)

\* QuizDraftSnapshot; the mode is the key it is stored under.
Drafts == [answers: [Questions -> Options \cup {Unanswered}], index: Questions,
           elapsed: 0..MaxTicks, flagged: SUBSET Questions]
NoDraft == [answers |-> <<>>, index |-> 0, elapsed |-> 0, flagged |-> {}]
EmptyDraft == [answers |-> [q \in Questions |-> Unanswered], index |-> 1, elapsed |-> 0,
               flagged |-> {}]

\* feedbackByQuestionId: option 0 stands for a question without an entry.
Feedback == [option: Options \cup {0}, status: {"idle", "loading", "ready", "error"},
             correct: BOOLEAN]
NoFeedback == [option |-> 0, status |-> "idle", correct |-> FALSE]

NoStart == [mode |-> "none", offered |-> {}]
StartScreen == [mode |-> "practice", offered |-> {m \in Modes : drafts[m] # NoDraft}]

\* state is what is rendered, ref what handlers start from, dirty that the
\* effects of the last tick have not run.
PlayScreen(mode, resume, draft) ==
    [mode |-> mode, resume |-> resume, state |-> draft, ref |-> draft, dirty |-> FALSE,
     submitting |-> FALSE, error |-> FALSE, missing |-> 0, dialog |-> FALSE,
     leaving |-> FALSE, confirmed |-> FALSE,
     feedback |-> [q \in Questions |-> NoFeedback], requests |-> [q \in Questions |-> 0]]
NoPlay == [mode |-> "none"]

SubmissionStage == {"sent", "stored", "failed"}

QuizInit ==
    /\ start = NoStart
    /\ play = NoPlay
    /\ drafts = [m \in Modes |-> NoDraft]
    /\ storage \in BOOLEAN
    /\ checks = {}
    /\ submissions = {}
    /\ attempts = <<>>
    /\ visits = 0

(***************************************************************************)
(* Drafts                                                                  *)
(***************************************************************************)

\* writeQuizDraft and clearQuizDraft: a refused write changes nothing.
StoredAs(mode, draft) == IF storage THEN [drafts EXCEPT ![mode] = draft] ELSE drafts
WriteDraft(mode, draft) == drafts' = StoredAs(mode, draft)

SanitizeDraft(draft) ==
    IF draft = NoDraft THEN EmptyDraft ELSE
    [draft EXCEPT
       !.answers = [q \in Questions |->
                      IF draft.answers[q] \in Options THEN draft.answers[q] ELSE Unanswered],
       !.index = Max({1, Min({draft.index, QuestionCount})}),
       !.flagged = draft.flagged \cap Questions]

\* What unmounting leaves in storage: effects still pending run first.
LeftDrafts ==
    IF page = "play" /\ play.dirty THEN StoredAs(play.mode, play.state) ELSE drafts

(***************************************************************************)
(* Pages                                                                   *)
(***************************************************************************)

\* Feedback for a screen that is gone changes nothing, so its calls are forgotten.
QuizLeft ==
    /\ start' = NoStart /\ play' = NoPlay /\ checks' = {}
    /\ drafts' = LeftDrafts

\* A full load of a page: no handler of the old one runs any more, though what
\* was sent may still be stored.
ContextLost == submissions' = {[s EXCEPT !.heard = FALSE] : s \in submissions}

OpenStart ==
    /\ Show("start")
    /\ play' = NoPlay /\ checks' = {}
    /\ drafts' = LeftDrafts
    /\ start' = [StartScreen EXCEPT !.offered = {m \in Modes : drafts'[m] # NoDraft}]

\* MUTANT: the write effect does not wait for isDraftReady, and the restore reads
\* what it has written.
OpenPlayUnready(mode, resume) ==
    /\ visits < MaxVisits /\ visits' = visits + 1
    /\ Show("play")
    /\ start' = NoStart
    /\ play' = PlayScreen(mode, resume, EmptyDraft)
    /\ WriteDraft(mode, EmptyDraft)

\* useQuizSession on mount: without resume the screen starts empty and its first
\* write replaces the draft; with it the draft is restored before any event.
OpenPlay(mode, resume) ==
    LET draft == IF resume THEN SanitizeDraft(drafts[mode]) ELSE EmptyDraft IN
    /\ visits < MaxVisits /\ visits' = visits + 1
    /\ Show("play")
    /\ start' = NoStart
    /\ play' = PlayScreen(mode, resume, draft)
    /\ WriteDraft(mode, draft)

(***************************************************************************)
(* The start screen                                                        *)
(***************************************************************************)

SelectMode(mode) ==
    /\ page = "start" /\ start.mode # mode
    /\ start' = [start EXCEPT !.mode = mode]
    /\ UNCHANGED <<page, pushing, play, drafts, storage, checks, submissions, attempts, visits, clicks>>

HandleResetDraft ==
    /\ page = "start" /\ start.mode \in start.offered
    /\ drafts' = [drafts EXCEPT ![start.mode] = NoDraft]
    /\ start' = [start EXCEPT !.offered = @ \ {start.mode}]
    /\ UNCHANGED <<page, pushing, play, storage, checks, submissions, attempts, visits, clicks>>

StartQuiz ==
    /\ page = "start"
    /\ OpenPlay(start.mode, FALSE)
    /\ UNCHANGED <<storage, checks, submissions, attempts, clicks>>

ResumeQuiz ==
    /\ page = "start" /\ start.mode \in start.offered
    /\ OpenPlay(start.mode, TRUE)
    /\ UNCHANGED <<storage, checks, submissions, attempts, clicks>>

(***************************************************************************)
(* The play screen: timer and clicks                                       *)
(***************************************************************************)

Tick ==
    /\ page = "play" /\ play.state.elapsed < MaxTicks
    /\ play' = [play EXCEPT !.state.elapsed = @ + 1, !.dirty = TRUE]
    /\ UNCHANGED <<page, pushing, start, drafts, storage, checks, submissions, attempts, visits, clicks>>

FlushEffects ==
    /\ page = "play" /\ play.dirty
    /\ play' = [play EXCEPT !.ref = play.state, !.dirty = FALSE]
    /\ WriteDraft(play.mode, play.state)
    /\ UNCHANGED <<page, pushing, start, storage, checks, submissions, attempts, visits, clicks>>

\* The dialog is modal.
PlayClick == page = "play" /\ ~play.dialog /\ Click
Busy == play.submitting \/ play.leaving

\* updateDraftState: from the ref, rendered and written before the next event.
UpdateDraftState(screen, draft) ==
    /\ play' = [screen EXCEPT !.state = draft, !.ref = draft, !.dirty = FALSE]
    /\ WriteDraft(play.mode, draft)

\* MUTANT: the id moves on, the entry keeps waiting.
ResetRequestOnly(screen, q, option) == [screen EXCEPT !.requests[q] = @ + 1]

\* resetQuestionFeedback: an answer to an earlier check no longer counts.
ResetQuestionFeedback(screen, q, option) ==
    [screen EXCEPT !.requests[q] = @ + 1,
                   !.feedback[q] = [option |-> option, status |-> "idle", correct |-> FALSE]]

SelectOption(option) ==
    LET q == play.state.index
        screen == [play EXCEPT !.error = FALSE, !.missing = 0] IN
    /\ PlayClick /\ play.state.answers[q] # option
    /\ UpdateDraftState(IF play.mode = "practice"
                        THEN ResetQuestionFeedback(screen, q, option) ELSE screen,
                        [play.ref EXCEPT !.answers[q] = option])
    /\ UNCHANGED <<page, pushing, start, storage, checks, submissions, attempts, visits>>

ToggleFlag ==
    LET q == play.state.index IN
    /\ PlayClick /\ ~Busy
    /\ UpdateDraftState(play, [play.ref EXCEPT !.flagged =
                                 IF q \in @ THEN @ \ {q} ELSE @ \cup {q}])
    /\ UNCHANGED <<page, pushing, start, storage, checks, submissions, attempts, visits>>

MoveToQuestion(q) ==
    /\ PlayClick /\ ~play.submitting /\ q # play.state.index
    /\ UpdateDraftState(play, [play.ref EXCEPT !.index = q])
    /\ UNCHANGED <<page, pushing, start, storage, checks, submissions, attempts, visits>>

(***************************************************************************)
(* Practice feedback                                                       *)
(***************************************************************************)

HandleCheckAnswer ==
    LET q == play.state.index
        option == play.state.answers[q] IN
    /\ PlayClick /\ play.mode = "practice" /\ ~Busy
    /\ option # Unanswered /\ play.feedback[q].status # "loading"
    /\ play' = [play EXCEPT !.requests[q] = @ + 1,
                          !.feedback[q] = [option |-> option, status |-> "loading",
                                           correct |-> FALSE]]
    /\ checks' = checks \cup {[question |-> q, option |-> option,
                               request |-> play.requests[q] + 1]}
    /\ UNCHANGED <<page, pushing, start, drafts, storage, submissions, attempts, visits>>

\* MUTANT: an answer is applied whatever happened since it was asked for.
ApplyAnyResponse(c, status, correct) ==
    [play EXCEPT !.feedback[c.question] =
       [option |-> c.option, status |-> status, correct |-> correct]]

\* applyResponse: only the answer to the question's last request, for the
\* option that is selected and being checked.
ApplyResponse(c, status, correct) ==
    IF /\ c.request = play.requests[c.question]
       /\ play.state.answers[c.question] = c.option
       /\ play.feedback[c.question].option = c.option
    THEN [play EXCEPT !.feedback[c.question] =
            [option |-> c.option, status |-> status, correct |-> correct]]
    ELSE play

\* getPracticeFeedback grades one question and stores nothing.
GetPracticeFeedback(c) == c.option = Key[c.question]

\* The call of checkAnswer is answered, or fails.
CheckReturns(c) ==
    /\ c \in checks
    /\ checks' = checks \ {c}
    /\ \/ play' = ApplyResponse(c, "ready", GetPracticeFeedback(c))
       \/ play' = ApplyResponse(c, "error", FALSE)
    /\ UNCHANGED <<page, pushing, start, drafts, storage, submissions, attempts, visits, clicks>>

\* The box that PracticeFeedbackPanel shows for question q.
PracticeFeedbackPanel(q) ==
    CASE play.feedback[q].status = "loading" -> "checking"
      [] play.feedback[q].status = "error"   -> "sorry"
      [] play.feedback[q].status = "ready"   -> IF play.feedback[q].correct THEN "right" ELSE "wrong"
      [] OTHER                               -> "none"

(***************************************************************************)
(* Submitting                                                              *)
(***************************************************************************)

Missing(answers) == {q \in Questions : answers[q] = Unanswered}

\* handleSubmit with questions left: the first of them is shown.
SubmitIncomplete ==
    LET missing == Missing(play.state.answers) IN
    /\ PlayClick /\ ~Busy /\ missing # {}
    /\ UpdateDraftState([play EXCEPT !.missing = Min(missing), !.error = FALSE],
                        [play.ref EXCEPT !.index = Min(missing)])
    /\ UNCHANGED <<page, pushing, start, storage, checks, submissions, attempts, visits>>

Send ==
    /\ Cardinality(submissions) + Len(attempts) < MaxAttempts
    /\ submissions' = submissions \cup
         {[visit |-> visits, mode |-> play.mode, answers |-> play.state.answers,
           stage |-> "sent", attempt |-> Len(attempts) + Cardinality(submissions) + 1,
           heard |-> TRUE]}

\* MUTANT: the draft is cleared as soon as the answers are on their way.
HandleSubmitClearing ==
    /\ PlayClick /\ ~Busy /\ Missing(play.state.answers) = {}
    /\ Send
    /\ play' = [play EXCEPT !.submitting = TRUE, !.error = FALSE]
    /\ drafts' = [drafts EXCEPT ![play.mode] = NoDraft]
    /\ UNCHANGED <<page, pushing, start, storage, checks, attempts, visits>>

\* MUTANT: the handler does not look at isSubmitting.
HandleSubmitAgain ==
    /\ PlayClick /\ ~play.leaving /\ Missing(play.state.answers) = {}
    /\ Send
    /\ play' = [play EXCEPT !.submitting = TRUE, !.error = FALSE]
    /\ WriteDraft(play.mode, play.ref)
    /\ UNCHANGED <<page, pushing, start, storage, checks, attempts, visits>>

\* handleSubmit: the draft is written once more and stays until the answer.
HandleSubmit ==
    /\ PlayClick /\ ~Busy /\ Missing(play.state.answers) = {}
    /\ Send
    /\ play' = [play EXCEPT !.submitting = TRUE, !.error = FALSE]
    /\ WriteDraft(play.mode, play.ref)
    /\ UNCHANGED <<page, pushing, start, storage, checks, attempts, visits>>

\* submitAttempt: grade every question, store attempt and answers together.
GradeAttempt(answers, mode) ==
    [answers |-> answers, score |-> Cardinality({q \in Questions : answers[q] = Key[q]}),
     mode |-> mode]

\* POST attempts: every call that gets through stores an attempt of its own;
\* nothing in the request tells a repeated one from a new one.
PostAttempt(s) == Append(attempts, GradeAttempt(s.answers, s.mode))

\* The server stores the attempt and answers, stores it and the answer is lost,
\* or fails before it.
SubmitAttempt(s) ==
    /\ s \in submissions /\ s.stage = "sent"
    /\ \E stage \in {"stored", "failed"}, stored \in BOOLEAN :
         /\ stage = "stored" => stored
         /\ submissions' = (submissions \ {s}) \cup
              {[s EXCEPT !.stage = stage, !.attempt = Len(attempts) + 1]}
         /\ attempts' = IF stored THEN PostAttempt(s) ELSE attempts
    /\ UNCHANGED <<page, pushing, start, play, drafts, storage, checks, visits, clicks>>

\* The rest of handleSubmit, on whatever page the tab shows by now: a stored
\* attempt clears the mode's draft and opens its result.
SubmissionReturns(s) ==
    LET mine == page = "play" /\ s.visit = visits IN
    /\ s \in submissions /\ s.stage # "sent"
    /\ submissions' = submissions \ {s}
    /\ \/ /\ s.heard /\ s.stage = "stored"
          /\ drafts' = [drafts EXCEPT ![s.mode] = NoDraft]
          /\ Push("result", s.attempt)
          /\ play' = IF mine THEN [play EXCEPT !.submitting = FALSE] ELSE play
       \/ /\ s.heard /\ s.stage = "failed"
          /\ play' = IF mine THEN [play EXCEPT !.submitting = FALSE, !.error = TRUE] ELSE play
          /\ UNCHANGED <<drafts, pushing>>
       \/ ~s.heard /\ UNCHANGED <<drafts, pushing, play>>
    /\ UNCHANGED <<page, start, storage, checks, attempts, visits, clicks>>

\* The router shows the result page.
ShowResult ==
    /\ pushing.to = "result"
    /\ Show("result")
    /\ QuizLeft
    /\ UNCHANGED <<storage, submissions, attempts, visits, clicks>>

(***************************************************************************)
(* Leaving                                                                 *)
(***************************************************************************)

OpenLeaveDialog ==
    /\ page = "play" /\ ~play.dialog /\ ~Busy
    /\ play' = [play EXCEPT !.dialog = TRUE]
    /\ UNCHANGED <<page, pushing, start, drafts, storage, checks, submissions, attempts, visits, clicks>>

CloseLeaveDialog ==
    /\ page = "play" /\ play.dialog /\ ~play.leaving
    /\ play' = [play EXCEPT !.dialog = FALSE]
    /\ UNCHANGED <<page, pushing, start, drafts, storage, checks, submissions, attempts, visits, clicks>>

\* confirmInternalLeave: the guards go, the latest draft is written.
ConfirmInternalLeave(leaving) ==
    /\ play' = [play EXCEPT !.confirmed = TRUE, !.dialog = FALSE, !.leaving = leaving]
    /\ WriteDraft(play.mode, play.ref)

LeaveQuiz ==
    /\ page = "play" /\ play.dialog /\ ~Busy
    /\ ConfirmInternalLeave(TRUE)
    /\ UNCHANGED <<page, pushing, start, storage, checks, submissions, attempts, visits, clicks>>

\* The Back button, confirmed; refused, it changes nothing. A submission under
\* way does not stop it.
HandlePopState ==
    /\ page = "play" /\ ~play.confirmed
    /\ ConfirmInternalLeave(play.leaving)
    /\ UNCHANGED <<page, pushing, start, storage, checks, submissions, attempts, visits, clicks>>

\* window.location.assign arrives: a full load of the start page.
LeaveArrives ==
    /\ page = "play" /\ play.confirmed
    /\ OpenStart
    /\ ContextLost
    /\ UNCHANGED <<storage, attempts, visits, clicks>>

\* handleBeforeUnload, for a reload or a closed tab: the draft is written, and
\* the learner may stay.
StayOnPage ==
    /\ page = "play" /\ ~play.confirmed
    /\ WriteDraft(play.mode, play.ref)
    /\ UNCHANGED <<page, pushing, start, play, storage, checks, submissions, attempts, visits, clicks>>

\* Or goes: the page loads again with the resume flag its address has.
ReloadPlay ==
    LET saved == StoredAs(play.mode, play.ref)[play.mode]
        draft == IF play.resume THEN SanitizeDraft(saved) ELSE EmptyDraft IN
    /\ page = "play" /\ ~play.confirmed
    /\ visits < MaxVisits /\ visits' = visits + 1
    /\ Show("play")
    /\ play' = PlayScreen(play.mode, play.resume, draft)
    /\ WriteDraft(play.mode, draft)
    /\ checks' = {}
    /\ ContextLost
    /\ UNCHANGED <<start, storage, attempts, clicks>>

(***************************************************************************)
(* Specification, with the rest of the application as one page             *)
(***************************************************************************)

QuizStartScreen ==
    \/ \E m \in Modes : SelectMode(m)
    \/ HandleResetDraft \/ StartQuiz \/ ResumeQuiz

\* The radios stay open while the answers are being submitted.
QuizQuestionCard == \E o \in Options : SelectOption(o)

QuizActionBar ==
    \/ OpenLeaveDialog \/ ToggleFlag \/ HandleCheckAnswer
    \/ SubmitIncomplete \/ HandleSubmit
    \/ \E q \in {play.state.index - 1, play.state.index + 1} \cap Questions :
         ~Busy /\ MoveToQuestion(q)

\* Open while the learner is leaving.
QuizPalette == \E q \in Questions : MoveToQuestion(q)

QuizLeaveDialog == CloseLeaveDialog \/ LeaveQuiz

QuizCalls ==
    \/ \E c \in checks : CheckReturns(c)
    \/ \E s \in submissions : SubmitAttempt(s) \/ SubmissionReturns(s)

QuizStep ==
    \/ QuizStartScreen
    \/ page = "play" /\ (QuizQuestionCard \/ QuizActionBar \/ QuizPalette \/ QuizLeaveDialog)
    \/ Tick \/ FlushEffects \/ HandlePopState \/ StayOnPage
    \/ QuizCalls

QuizPageLoad == LeaveArrives \/ ReloadPlay

(***************************************************************************)
(* Properties                                                              *)
(***************************************************************************)

\* Storage holds exactly what the play screen shows (answers, position, seconds,
\* flags), whatever was ticked, clicked, refused to leave or sent. It is empty
\* instead only when the handler of a stored attempt of the same mode has emptied it
\* and the push of a result, or of the page that a later call has put in its place,
\* is under way. That attempt may be an older session's: handleSubmit clears by
\* mode, and the newer session's draft is then the one it clears.
SessionIsSaved ==
    page = "play" /\ storage /\ ~play.dirty =>
        \/ drafts[play.mode] = play.state
        \/ /\ drafts[play.mode] = NoDraft
           /\ pushing # NoPush
           /\ \E i \in DOMAIN attempts : attempts[i].mode = play.mode

Answered(draft, q) == draft # NoDraft /\ draft.answers[q] # Unanswered
SameAnswer(m, q) == drafts'[m] # NoDraft /\ drafts'[m].answers[q] = drafts[m].answers[q]

\* The radios of the question on screen.
Reselected(m, q) ==
    play.mode = m /\ play.state.index = q /\ \E option \in Options : SelectOption(option)

\* What takes a mode's kept answers away: the learner asks for a new beginning, a
\* quiz is started without resuming (quiz-start-screen.tsx:189 says that kept work
\* stays until it is submitted; the link beside it does not keep it) or its page is
\* loaded again, or the answer to a submission of the mode arrives.
Discarded(m) ==
    \/ HandleResetDraft /\ start.mode = m
    \/ StartQuiz /\ start.mode = m
    \/ ReloadPlay /\ play.mode = m /\ ~play.resume
    \/ \E s \in submissions : SubmissionReturns(s) /\ s.mode = m /\ s.heard /\ s.stage = "stored"

\* An answer kept in storage stays there as it was given, through ticks, clicks,
\* every way of leaving, resuming, a reload of a resumed quiz and submissions that
\* fail or are not heard, until another option of its question is selected or one
\* of those four takes the draft away.
WorkIsKept ==
    [][\A m \in Modes, q \in Questions :
          Answered(drafts[m], q) => SameAnswer(m, q) \/ Reselected(m, q) \/ Discarded(m)]_quizVars

\* Feedback that is shown was given for the option that is selected, whatever
\* was selected and checked in between.
FeedbackIsCurrent ==
    page = "play" =>
        \A q \in Questions :
            PracticeFeedbackPanel(q) \in {"right", "wrong"} =>
                /\ play.feedback[q].option = play.state.answers[q]
                /\ PracticeFeedbackPanel(q) =
                       IF play.state.answers[q] = Key[q] THEN "right" ELSE "wrong"

\* While a question waits for feedback, the check of its button disabled, the
\* answer that will end the wait is still under way.
LoadingIsAwaited ==
    page = "play" =>
        \A q \in Questions :
            PracticeFeedbackPanel(q) = "checking" =>
                \E c \in checks : c.question = q /\ c.request = play.requests[q]

\* A play screen has at most one submission under way, and shows it.
OneSubmissionAtATime ==
    LET mine == {s \in submissions : s.heard /\ s.visit = visits} IN
    page = "play" => Cardinality(mine) <= 1 /\ (play.submitting <=> mine # {})

=============================================================================
