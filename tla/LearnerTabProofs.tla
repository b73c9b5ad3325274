--------------------------- MODULE LearnerTabProofs ---------------------------
(***************************************************************************)
(* The learner's tab, for every quiz, every number of documents, screens   *)
(* and clicks, and every loss: what is shown is saved, current and waited  *)
(* for, an attempt is sent once, and work is ordered once.                 *)
(*                                                                         *)
(* The invariant has a half for the quiz screens and one for the document  *)
(* screens; they share the page and the push under way.  Each half is      *)
(* stated of the records alone (Screen(p), Row(r), ...), so that a handler *)
(* is understood by what it does to its record.                            *)
(***************************************************************************)
EXTENDS LearnerTab, FiniteSetTheorems, SequenceTheorems, WellFoundedInduction, TLAPS

(***************************************************************************)
(* The quiz screens                                                        *)
(***************************************************************************)

ScreenType ==
    [mode: Modes, resume: BOOLEAN, state: Drafts, ref: Drafts, dirty: BOOLEAN,
     submitting: BOOLEAN, error: BOOLEAN, missing: Questions \cup {0}, dialog: BOOLEAN,
     leaving: BOOLEAN, confirmed: BOOLEAN, feedback: [Questions -> Feedback],
     requests: [Questions -> Nat]]

\* What is rendered is the ref but for the seconds, and all of it once the
\* effects have run.
Rendered(p) ==
    /\ p.state.answers = p.ref.answers
    /\ p.state.index = p.ref.index
    /\ p.state.flagged = p.ref.flagged
    /\ ~p.dirty => p.state = p.ref

\* The check that a question waits for: the last one asked for it.
Awaited(p, c) == c.request = p.requests[c.question]

\* Feedback was given for the option selected; a question waits exactly while
\* its last check is under way, and that check is for the option selected.
Checked(p, cs) ==
    /\ \A q \in Questions :
           /\ p.feedback[q].status = "ready" =>
                  /\ p.feedback[q].option = p.state.answers[q]
                  /\ p.feedback[q].correct <=> p.state.answers[q] = Key[q]
           /\ p.feedback[q].status = "loading" => \E c \in cs : c.question = q /\ Awaited(p, c)
    /\ \A c \in cs :
           /\ c.request <= p.requests[c.question]
           /\ Awaited(p, c) =>
                  /\ p.feedback[c.question].status = "loading"
                  /\ p.feedback[c.question].option = c.option
                  /\ p.state.answers[c.question] = c.option
    /\ p.mode = "test" => cs = {} /\ \A q \in Questions : p.feedback[q] = NoFeedback

CheckType == [question: Questions, option: Options, request: Nat]

PlayInv ==
    /\ checks \subseteq CheckType
    /\ page = "play" => play \in ScreenType /\ Rendered(play) /\ Checked(play, checks)
    /\ page # "play" => play = NoPlay /\ checks = {}
    /\ page = "start" => start \in [mode: Modes, offered: SUBSET Modes]

StoreInv ==
    /\ storage \in BOOLEAN
    /\ drafts \in [Modes -> Drafts \cup {NoDraft}]
    /\ SessionIsSaved

Answers == [Questions -> Options \cup {Unanswered}]
AttemptType == [answers: Answers, score: Nat, mode: Modes]
SubmissionType ==
    [visit: Nat, mode: Modes, answers: Answers, stage: SubmissionStage, attempt: Nat, heard: BOOLEAN]

Current(s) == s.heard /\ s.visit = visits

SubmissionInv ==
    /\ visits \in Nat
    /\ attempts \in Seq(AttemptType)
    /\ IsFiniteSet(submissions) /\ submissions \subseteq SubmissionType
    /\ \A s \in submissions :
           /\ s.visit <= visits
           /\ s.stage = "stored" => /\ s.attempt \in 1..Len(attempts)
                                    /\ attempts[s.attempt].mode = s.mode
    /\ \A s, t \in submissions : Current(s) /\ Current(t) => s = t
    /\ page = "play" => (play.submitting <=> \E s \in submissions : Current(s))

(***************************************************************************)
(* The document screens                                                    *)
(***************************************************************************)

RowType ==
    [stored: BOOLEAN, status: DocumentStatus, retryable: BOOLEAN, quiz: BOOLEAN,
     events: Nat, failures: Nat, by: {"none", "here", "elsewhere"}]

\* A document's processing events against its failures, by its status.
Ordered(r) ==
    /\ r.events > 0 => r.stored
    /\ r.status = "UPLOADED" => r.events = 0
    /\ r.status # "UPLOADED" => r.events > 0
    /\ r.status = "FAILED" => r.events <= r.failures
    /\ r.events <= 1 + r.failures

RowsInv == docs \in Seq(RowType) /\ \A d \in DOMAIN docs : Ordered(docs[d])

\* A call under way knows its document, once there is one, and its screen.
FlowInv ==
    \A f \in flows :
        /\ f = [id |-> f.id, stage |-> f.stage, doc |-> f.doc, life |-> f.life]
        /\ f.stage \in {"create", "upload", "confirm"}
        /\ f.stage # "create" => f.doc \in DOMAIN docs
        /\ f.life \in {"mounted", "unmounted", "dead"}
        /\ f.life = "mounted" => page = "upload"

ChoiceType == [file: Files \cup {"none"}, model: Models \cup {"none"}]
UploadType ==
    [choice: ChoiceType, models: {"loading", "ready", "error"}, estimate: ChoiceType,
     estimateError: BOOLEAN, estimating: BOOLEAN, invalid: BOOLEAN, step: Steps,
     doc: {0} \cup DOMAIN docs, storageError: BOOLEAN, confirmError: BOOLEAN]

EstimateCall == [choice: ChoiceType, cancelled: BOOLEAN]

\* The wait of the code that no call ends: a rejected file, a model chosen.
Stranded(u) == u.invalid /\ u.choice.file = "none" /\ u.choice.model # "none"

\* u shows one of: an estimate of what is chosen, an error, a computation; of the
\* calls es for an estimate, one that is not cancelled is for the choice.
Estimated(u, es) ==
    /\ es \subseteq EstimateCall
    /\ \A e \in es : ~e.cancelled => /\ e.choice = u.choice /\ Complete(u.choice)
                                     /\ u.estimating
    /\ u.estimating => u.estimate = NoSelection /\ ~u.estimateError
    /\ u.estimate # NoSelection => u.estimate = u.choice /\ ~u.estimateError
    /\ u.estimating => (\E e \in es : ~e.cancelled) \/ Stranded(u)

UploadInv ==
    page = "upload" =>
        /\ upload \in UploadType
        /\ Estimated(upload, estimates)
        /\ upload.step \in InProgress => \E f \in flows : f.life = "mounted"

WatchType ==
    [doc: DOMAIN docs, shown: DocumentStatus \cup {"none"}, retryable: BOOLEAN,
     poll: {"asked", "answered", "timer", "stopped"},
     answer: [status: DocumentStatus \cup {"none"}, retryable: BOOLEAN],
     error: BOOLEAN, retrying: {"no", "confirm", "refresh"}, retryError: BOOLEAN]

\* A final status read by w is still that of row r, unless a confirm that w knows
\* of, or one from elsewhere, has gone past it.
Final(w, r, status) ==
    /\ status \in Terminal
    /\ \/ status = r.status
       \/ w.retrying = "confirm" \/ w.retryError
       \/ r.by = "elsewhere" /\ r.events > 1

Followed(w, r) ==
    /\ w.poll = "stopped" => Final(w, r, w.shown)
    /\ w.poll = "answered" /\ w.answer.status \in Terminal => Final(w, r, w.answer.status)

WatchInv ==
    /\ page = "processing" => watch \in WatchType /\ Followed(watch, docs[watch.doc])
    /\ page # "processing" => watch = NoWatch

PushInv ==
    /\ pushing.to \in {"none", "result", "processing"}
    /\ pushing.to = "result" => pushing.id \in 1..Len(attempts)
    /\ pushing.to = "processing" => pushing.id \in DOMAIN docs

QuizInv == PlayInv /\ StoreInv /\ SubmissionInv
DocumentInv == RowsInv /\ FlowInv /\ UploadInv /\ WatchInv
TabInv == QuizInv /\ DocumentInv /\ PushInv

(***************************************************************************)
(* Lemmas on the operators of the quiz screens                             *)
(***************************************************************************)

\* The state at the start of a quiz.
LEMMA QuizConstants ==
  /\ 1 \in Questions /\ 0 \notin Options /\ Unanswered = 0
  /\ Key \in [Questions -> Options]
  /\ EmptyDraft \in Drafts
  /\ NoFeedback \in Feedback
<1> USE QuizAssumption
<1>1. 1 \in Questions /\ 0 \notin Options /\ Unanswered = 0 /\ Key \in [Questions -> Options]
  BY DEF Questions, Options, Unanswered
<1>2. 0 \in 0..MaxTicks
  OBVIOUS
<1>3. EmptyDraft \in Drafts
  BY <1>1, <1>2 DEF EmptyDraft, Drafts
<1>4. NoFeedback \in Feedback
  BY DEF NoFeedback, Feedback
<1> QED BY <1>1, <1>3, <1>4

\* The least and the greatest of two numbers.
LEMMA MinMaxOfTwo ==
  ASSUME NEW a \in Int, NEW b \in Int
  PROVE  Min({a, b}) \in {a, b} /\ Max({a, b}) \in {a, b}
<1>1. \E x \in {a, b} : \A y \in {a, b} : x =< y
  <2>1. CASE a <= b
    BY <2>1
  <2>2. CASE ~(a <= b)
    BY <2>2
  <2> QED BY <2>1, <2>2
<1>2. \E x \in {a, b} : \A y \in {a, b} : x >= y
  <2>1. CASE a <= b
    BY <2>1
  <2>2. CASE ~(a <= b)
    BY <2>2
  <2> QED BY <2>1, <2>2
<1> QED BY <1>1, <1>2 DEF Min, Max

\* sanitizeDraft: whatever was stored, a draft of this quiz comes back.
LEMMA SanitizedDraft ==
  ASSUME NEW draft \in Drafts \cup {NoDraft}
  PROVE  SanitizeDraft(draft) \in Drafts
<1>1. CASE draft = NoDraft
  BY <1>1, QuizConstants DEF SanitizeDraft
<1>2. CASE draft # NoDraft
  <2>1. draft \in Drafts
    BY <1>2
  <2> DEFINE answers == [q \in Questions |->
               IF draft.answers[q] \in Options THEN draft.answers[q] ELSE Unanswered]
             index == Max({1, Min({draft.index, QuestionCount})})
             flagged == draft.flagged \cap Questions
  <2>2. answers \in [Questions -> Options \cup {Unanswered}]
    OBVIOUS
  <2>3. index \in Questions
    <3>1. draft.index \in 1..QuestionCount /\ QuestionCount \in Nat \ {0}
      BY <2>1, QuizAssumption DEF Drafts, Questions
    <3>2. Min({draft.index, QuestionCount}) \in {draft.index, QuestionCount}
      BY <3>1, MinMaxOfTwo
    <3> HIDE DEF index
    <3>3. Min({draft.index, QuestionCount}) \in 1..QuestionCount
      BY <3>1, <3>2
    <3>4. Max({1, Min({draft.index, QuestionCount})}) \in {1, Min({draft.index, QuestionCount})}
      <4>1. \A x \in Int : Max({1, x}) \in {1, x}
        BY MinMaxOfTwo
      <4> QED BY <3>3, <4>1
    <3> QED BY <3>1, <3>3, <3>4 DEF index, Questions
  <2>4. flagged \in SUBSET Questions
    OBVIOUS
  <2>5. SanitizeDraft(draft) = [draft EXCEPT !.answers = answers, !.index = index,
                                            !.flagged = flagged]
    BY <1>2 DEF SanitizeDraft
  <2> HIDE DEF answers, index, flagged
  <2> QED BY <2>1, <2>2, <2>3, <2>4, <2>5 DEF Drafts
<1> QED BY <1>1, <1>2

\* A set of questions that is not empty has a first one.
LEMMA FirstQuestion ==
  ASSUME NEW S \in SUBSET Questions, S # {}
  PROVE  Min(S) \in S
<1> DEFINE R == {pair \in Nat \X Nat : pair[1] < pair[2]}
<1>1. IsWellFoundedOn(R, Nat)
  BY NatLessThanWellFounded DEF OpToRel
<1>2. S \subseteq Nat
  BY QuizAssumption DEF Questions
<1>3. \A m, k \in S : m < k => <<m, k>> \in R
  BY <1>2
<1>4. \A m, k \in S : m < k \/ k =< m
  BY <1>2
<1> HIDE DEF R
<1>5. IsWellFoundedOn(R, S)
  BY <1>1, <1>2, IsWellFoundedOnSubset, Zenon
<1>6. PICK n \in S : \A m \in S : ~(<<m, n>> \in R)
  BY <1>5, WFMin, Zenon
<1>7. \A m \in S : n =< m
  BY <1>3, <1>4, <1>6, Zenon
<1> QED BY <1>7 DEF Min

\* A play screen as it opens.
LEMMA FreshScreen ==
  ASSUME NEW mode \in Modes, NEW resume \in BOOLEAN, NEW draft \in Drafts
  PROVE  LET p == PlayScreen(mode, resume, draft)
         IN  /\ p \in ScreenType /\ Rendered(p) /\ Checked(p, {})
             /\ p.mode = mode /\ p.state = draft /\ ~p.submitting /\ ~p.dirty
<1> DEFINE p == PlayScreen(mode, resume, draft)
<1>1. [q \in Questions |-> NoFeedback] \in [Questions -> Feedback]
  BY QuizConstants
<1>2. [q \in Questions |-> 0] \in [Questions -> Nat]
  OBVIOUS
<1>3. p \in ScreenType
  BY <1>1, <1>2 DEF PlayScreen, ScreenType
<1>4. Rendered(p) /\ p.mode = mode /\ p.state = draft /\ ~p.submitting /\ ~p.dirty
  BY DEF PlayScreen, Rendered
<1>5. \A q \in Questions : p.feedback[q] = NoFeedback
  BY DEF PlayScreen
<1>6. Checked(p, {})
  BY <1>5 DEF Checked, NoFeedback
<1> QED BY <1>3, <1>4, <1>6

(***************************************************************************)
(* What the handlers of the play screen have in common                     *)
(***************************************************************************)

\* Feedback depends on four fields of the screen.
LEMMA CheckedKept ==
  ASSUME NEW p, NEW n, NEW cs, Checked(p, cs),
         n.mode = p.mode, n.feedback = p.feedback, n.requests = p.requests,
         n.state.answers = p.state.answers
  PROVE  Checked(n, cs)
BY DEF Checked, Awaited

\* A handler that changes flags of the screen only.
LEMMA PlayKept ==
  ASSUME PlayInv, page = "play", page' = page, checks' = checks,
         play' \in ScreenType, play'.mode = play.mode, play'.state = play.state,
         play'.ref = play.ref, play'.dirty = play.dirty,
         play'.feedback = play.feedback, play'.requests = play.requests
  PROVE  PlayInv'
<1>1. play \in ScreenType /\ Rendered(play) /\ Checked(play, checks)
  BY DEF PlayInv
<1>2. Rendered(play')
  BY <1>1 DEF Rendered
<1>3. Checked(play', checks)
  BY <1>1, CheckedKept
<1>4. Rendered(play)' /\ Checked(play, checks)'
  BY <1>2, <1>3 DEF Rendered, Checked, Awaited
<1> QED BY <1>4 DEF PlayInv

\* updateDraftState.
LEMMA DraftUpdated ==
  ASSUME NEW screen \in ScreenType, NEW draft \in Drafts, UpdateDraftState(screen, draft)
  PROVE  /\ play' \in ScreenType /\ Rendered(play')
         /\ play'.state = draft /\ ~play'.dirty
         /\ play'.mode = screen.mode /\ play'.submitting = screen.submitting
         /\ play'.feedback = screen.feedback /\ play'.requests = screen.requests
<1>1. play' = [screen EXCEPT !.state = draft, !.ref = draft, !.dirty = FALSE]
  BY DEF UpdateDraftState
<1>2. play' \in ScreenType
  BY <1>1 DEF ScreenType
<1>3. /\ play'.state = draft /\ play'.ref = draft /\ play'.dirty = FALSE
      /\ play'.mode = screen.mode /\ play'.submitting = screen.submitting
      /\ play'.feedback = screen.feedback /\ play'.requests = screen.requests
  BY <1>1 DEF ScreenType
<1>4. Rendered(play')
  BY <1>3 DEF Rendered
<1> QED BY <1>2, <1>3, <1>4

\* A draft that moves to another question or changes the flags.
LEMMA PlayMoved ==
  ASSUME PlayInv, page = "play", page' = page, checks' = checks,
         NEW screen \in ScreenType, screen.mode = play.mode,
         screen.feedback = play.feedback, screen.requests = play.requests,
         NEW draft \in Drafts, draft.answers = play.ref.answers,
         UpdateDraftState(screen, draft)
  PROVE  PlayInv'
<1>1. play \in ScreenType /\ Rendered(play) /\ Checked(play, checks)
  BY DEF PlayInv
<1>2. /\ play' \in ScreenType /\ Rendered(play') /\ play'.state = draft
      /\ play'.mode = play.mode
      /\ play'.feedback = play.feedback /\ play'.requests = play.requests
  BY DraftUpdated
<1>3. play'.state.answers = play.state.answers
  BY <1>1, <1>2 DEF Rendered
<1>4. Checked(play', checks)
  BY <1>1, <1>2, <1>3, CheckedKept
<1>5. Rendered(play)' /\ Checked(play, checks)'
  BY <1>2, <1>4 DEF Rendered, Checked, Awaited
<1> QED BY <1>2, <1>5 DEF PlayInv

\* writeQuizDraft and clearQuizDraft.
LEMMA StoredDrafts ==
  ASSUME StoreInv, NEW mode \in Modes, NEW draft \in Drafts \cup {NoDraft}
  PROVE  /\ StoredAs(mode, draft) \in [Modes -> Drafts \cup {NoDraft}]
         /\ [drafts EXCEPT ![mode] = draft] \in [Modes -> Drafts \cup {NoDraft}]
         /\ storage => StoredAs(mode, draft)[mode] = draft
BY DEF StoreInv, StoredAs

\* What is on screen is written.
LEMMA StoreWritten ==
  ASSUME StoreInv, storage' = storage, NEW mode \in Modes, NEW draft \in Drafts,
         WriteDraft(mode, draft), play'.mode = mode, play'.state = draft
  PROVE  StoreInv'
<1>1. drafts' = StoredAs(mode, draft)
  BY DEF WriteDraft
<1>2. drafts' \in [Modes -> Drafts \cup {NoDraft}] /\ (storage => drafts'[mode] = draft)
  BY <1>1, StoredDrafts
<1>3. SessionIsSaved'
  BY <1>2 DEF SessionIsSaved
<1> QED BY <1>2, <1>3 DEF StoreInv

\* Nothing is written, the screen shows the same and no attempt goes away.
LEMMA StoreKept ==
  ASSUME StoreInv, storage' = storage, drafts' = drafts,
         page' = "play" => /\ page = "play" /\ play'.mode = play.mode
                           /\ play'.state = play.state /\ play'.dirty = play.dirty,
         pushing # NoPush => pushing' # NoPush,
         \A i \in DOMAIN attempts : i \in DOMAIN attempts' /\ attempts'[i] = attempts[i]
  PROVE  StoreInv'
<1>1. SessionIsSaved'
  <2>1. SUFFICES ASSUME page' = "play", storage, ~play'.dirty,
                        drafts[play'.mode] # play'.state
                 PROVE  /\ drafts'[play'.mode] = NoDraft
                        /\ pushing' # NoPush
                        /\ \E i \in DOMAIN attempts' : attempts'[i].mode = play'.mode
    BY DEF SessionIsSaved
  <2>2. SessionIsSaved
    BY DEF StoreInv
  <2>3. /\ drafts[play.mode] = NoDraft /\ pushing # NoPush
        /\ \E i \in DOMAIN attempts : attempts[i].mode = play.mode
    BY <2>1, <2>2 DEF SessionIsSaved
  <2> QED BY <2>1, <2>3
<1> QED BY <1>1 DEF StoreInv

\* The screen goes away.
LEMMA StoreLeft ==
  ASSUME StoreInv, storage' = storage, page' # "play",
         drafts' \in [Modes -> Drafts \cup {NoDraft}]
  PROVE  StoreInv'
BY DEF StoreInv, SessionIsSaved

\* No submission is sent, answered or forgotten.
LEMMA SubmissionKept ==
  ASSUME SubmissionInv, submissions' = submissions, attempts' = attempts, visits' = visits,
         page' = "play" => page = "play" /\ play'.submitting = play.submitting
  PROVE  SubmissionInv'
BY DEF SubmissionInv, Current

\* No submission is added by a full page load.
LEMMA ContextFinite ==
  ASSUME IsFiniteSet(submissions), submissions' = submissions \/ ContextLost
  PROVE  IsFiniteSet(submissions')
<1> DEFINE T == {[s EXCEPT !.heard = FALSE] : s \in submissions}
           f == [s \in submissions |-> [s EXCEPT !.heard = FALSE]]
<1>1. f \in [submissions -> T] /\ \A t \in T : \E s \in submissions : f[s] = t
  OBVIOUS
<1>2. submissions' = submissions \/ submissions' = T
  BY DEF ContextLost
<1> HIDE DEF f, T
<1>3. f \in Surjection(submissions, T)
  BY <1>1 DEF Surjection
<1>4. IsFiniteSet(T)
  BY <1>3, FS_Surjection
<1> QED BY <1>2, <1>4

\* A play screen opens: what was sent before is not its own.
LEMMA SubmissionOpened ==
  ASSUME SubmissionInv, attempts' = attempts, visits' = visits + 1, ~play'.submitting,
         submissions' = submissions \/ ContextLost
  PROVE  SubmissionInv'
<1>1. submissions' \subseteq SubmissionType
  <2>1. CASE submissions' = submissions
    BY <2>1 DEF SubmissionInv
  <2>2. CASE ContextLost
    BY <2>2 DEF SubmissionInv, ContextLost, SubmissionType
  <2> QED BY <2>1, <2>2
<1>2. \A s \in submissions' : \E t \in submissions :
        s.visit = t.visit /\ s.stage = t.stage /\ s.attempt = t.attempt /\ s.mode = t.mode
  BY DEF SubmissionInv, ContextLost, SubmissionType
<1>3. visits \in Nat /\ visits' \in Nat /\ \A s \in submissions : s.visit \in Nat /\ s.visit <= visits
  BY DEF SubmissionInv, SubmissionType
<1>4. \A s \in submissions' : s.visit <= visits' /\ s.visit # visits'
  BY <1>2, <1>3
<1>5. \A s \in submissions' : s.stage = "stored" =>
        s.attempt \in 1..Len(attempts) /\ attempts[s.attempt].mode = s.mode
  BY <1>2 DEF SubmissionInv
<1>6. IsFiniteSet(submissions)'
  BY ContextFinite DEF SubmissionInv
<1> QED BY <1>1, <1>3, <1>4, <1>5, <1>6 DEF SubmissionInv, Current

\* Handlers of the page are lost, and the play screen with them.
LEMMA SubmissionLost ==
  ASSUME SubmissionInv, attempts' = attempts, visits' = visits, page' # "play", ContextLost
  PROVE  SubmissionInv'
<1>1. submissions' \subseteq SubmissionType
  BY DEF SubmissionInv, ContextLost, SubmissionType
<1>2. \A s \in submissions' : ~s.heard /\ \E t \in submissions :
        s.visit = t.visit /\ s.stage = t.stage /\ s.attempt = t.attempt /\ s.mode = t.mode
  BY DEF SubmissionInv, ContextLost, SubmissionType
<1>3. IsFiniteSet(submissions)'
  BY ContextFinite DEF SubmissionInv
<1> QED BY <1>1, <1>2, <1>3 DEF SubmissionInv, Current

\* The push under way stays or is replaced by none, and its target is still there.
LEMMA PushKept ==
  ASSUME PushInv, pushing' = pushing \/ pushing' = NoPush,
         Len(attempts) \in Nat, Len(attempts)' \in Nat, Len(attempts) <= Len(attempts)',
         DOMAIN docs \subseteq (DOMAIN docs)'
  PROVE  PushInv'
BY DEF PushInv, NoPush

\* confirmInternalLeave, handleBeforeUnload and handleSubmit write the ref, which
\* is what is shown unless effects are pending.
LEMMA StoreSaved ==
  ASSUME PlayInv, StoreInv, page = "play", storage' = storage, WriteDraft(play.mode, play.ref),
         play'.mode = play.mode, play'.state = play.state, play'.dirty = play.dirty
  PROVE  StoreInv'
<1>1. play \in ScreenType /\ Rendered(play)
  BY DEF PlayInv
<1>2. play.mode \in Modes /\ play.ref \in Drafts /\ play.dirty \in BOOLEAN
  BY <1>1 DEF ScreenType
<1>3. CASE play.dirty
  <2>1. drafts' \in [Modes -> Drafts \cup {NoDraft}]
    BY <1>2, StoredDrafts DEF WriteDraft
  <2> QED BY <1>3, <2>1 DEF StoreInv, SessionIsSaved
<1>4. CASE ~play.dirty
  <2>1. play'.state = play.ref
    BY <1>1, <1>4 DEF Rendered
  <2> QED BY <1>2, <2>1, StoreWritten
<1> QED BY <1>3, <1>4

(***************************************************************************)
(* The start screen                                                        *)
(***************************************************************************)

\* Choosing a mode on the start screen touches no draft.
LEMMA SelectModeKeeps ==
  ASSUME QuizInv, PushInv, docs' = docs, NEW mode \in Modes, SelectMode(mode)
  PROVE  QuizInv' /\ PushInv'
<1>1. page = "start" /\ page' = page /\ start' = [start EXCEPT !.mode = mode]
  BY DEF SelectMode
<1>2. /\ play' = play /\ checks' = checks /\ drafts' = drafts /\ storage' = storage
      /\ submissions' = submissions /\ attempts' = attempts /\ visits' = visits
      /\ pushing' = pushing
  BY DEF SelectMode
<1>3. PlayInv'
  BY <1>1, <1>2 DEF QuizInv, PlayInv
<1>4. PushInv'
  BY <1>2 DEF PushInv
<1>5. StoreInv'
  BY <1>1, <1>2, StoreLeft DEF QuizInv, StoreInv
<1>6. SubmissionInv'
  BY <1>1, <1>2, SubmissionKept DEF QuizInv
<1> QED BY <1>3, <1>4, <1>5, <1>6 DEF QuizInv

\* Discarding a draft takes the offer to resume it away with it.
LEMMA ResetDraftKeeps ==
  ASSUME QuizInv, PushInv, docs' = docs, HandleResetDraft
  PROVE  QuizInv' /\ PushInv'
<1>1. /\ page = "start" /\ page' = page
      /\ start' = [start EXCEPT !.offered = @ \ {start.mode}]
      /\ drafts' = [drafts EXCEPT ![start.mode] = NoDraft]
  BY DEF HandleResetDraft
<1>2. /\ play' = play /\ checks' = checks /\ storage' = storage
      /\ submissions' = submissions /\ attempts' = attempts /\ visits' = visits
      /\ pushing' = pushing
  BY DEF HandleResetDraft
<1>3. start \in [mode: Modes, offered: SUBSET Modes]
  BY <1>1 DEF QuizInv, PlayInv
<1>4. PlayInv'
  BY <1>1, <1>2, <1>3 DEF QuizInv, PlayInv
<1>5. PushInv'
  BY <1>2 DEF PushInv
<1>6. StoreInv'
  BY <1>1, <1>2, <1>3, StoreLeft, StoredDrafts DEF QuizInv
<1>7. SubmissionInv'
  BY <1>1, <1>2, SubmissionKept DEF QuizInv
<1> QED BY <1>4, <1>5, <1>6, <1>7 DEF QuizInv

\* StartQuiz and ResumeQuiz.
LEMMA OpenPlayKeeps ==
  ASSUME QuizInv, PushInv, docs' = docs, page = "start", NEW resume \in BOOLEAN,
         OpenPlay(start.mode, resume), UNCHANGED <<storage, checks, submissions, attempts>>
  PROVE  QuizInv' /\ PushInv' /\ page' = "play"
<1> DEFINE mode == start.mode
           draft == IF resume THEN SanitizeDraft(drafts[mode]) ELSE EmptyDraft
<1>1. mode \in Modes /\ checks = {}
  BY DEF QuizInv, PlayInv
<1>2. draft \in Drafts
  BY <1>1, SanitizedDraft, QuizConstants DEF QuizInv, StoreInv
<1>3. /\ play' = PlayScreen(mode, resume, draft) /\ WriteDraft(mode, draft)
      /\ visits' = visits + 1 /\ page' = "play" /\ pushing' = NoPush
  BY DEF OpenPlay, Show
<1> HIDE DEF draft
<1>4. /\ play' \in ScreenType /\ Rendered(play') /\ Checked(play', {})
      /\ play'.mode = mode /\ play'.state = draft /\ ~play'.submitting
  BY <1>1, <1>2, <1>3, FreshScreen
<1>5. PlayInv'
  <2>1. Rendered(play)' /\ Checked(play, checks)'
    BY <1>1, <1>4 DEF Rendered, Checked, Awaited
  <2> QED BY <1>1, <1>3, <1>4, <2>1 DEF PlayInv
<1>6. PushInv'
  BY <1>3 DEF PushInv, NoPush
<1>7. StoreInv'
  BY <1>1, <1>2, <1>3, <1>4, StoreWritten DEF QuizInv
<1>8. SubmissionInv'
  BY <1>3, <1>4, SubmissionOpened DEF QuizInv
<1> QED BY <1>3, <1>5, <1>6, <1>7, <1>8 DEF QuizInv

(***************************************************************************)
(* The play screen: timer, dialog and storage                              *)
(***************************************************************************)

\* A second passes: the elapsed time is news that no draft holds yet.
LEMMA TickKeeps ==
  ASSUME QuizInv, PushInv, docs' = docs, Tick
  PROVE  QuizInv' /\ PushInv'
<1>1. /\ page = "play" /\ page' = page /\ play.state.elapsed < MaxTicks
      /\ play' = [play EXCEPT !.state.elapsed = @ + 1, !.dirty = TRUE]
      /\ checks' = checks /\ drafts' = drafts /\ storage' = storage
      /\ submissions' = submissions /\ attempts' = attempts /\ visits' = visits
      /\ pushing' = pushing
  BY DEF Tick
<1>2. play \in ScreenType /\ Rendered(play) /\ Checked(play, checks)
  BY <1>1 DEF QuizInv, PlayInv
<1> DEFINE later == [play.state EXCEPT !.elapsed = @ + 1]
<1>3. later \in Drafts /\ later.answers = play.state.answers
      /\ later.index = play.state.index /\ later.flagged = play.state.flagged
  <2>1. play.state \in Drafts
    BY <1>2 DEF ScreenType
  <2>2. play.state.elapsed + 1 \in 0..MaxTicks
    BY <1>1, <2>1, QuizAssumption DEF Drafts
  <2> QED BY <2>1, <2>2 DEF Drafts
<1>4. play' = [play EXCEPT !.state = later, !.dirty = TRUE]
  BY <1>1, <1>2 DEF ScreenType
<1> HIDE DEF later
<1>5. /\ play' \in ScreenType /\ play'.state = later /\ play'.dirty = TRUE
      /\ play'.ref = play.ref /\ play'.mode = play.mode
      /\ play'.feedback = play.feedback /\ play'.requests = play.requests
      /\ play'.submitting = play.submitting
  BY <1>2, <1>3, <1>4 DEF ScreenType
<1>6. Rendered(play)' /\ Checked(play', checks)
  BY <1>2, <1>3, <1>5, CheckedKept DEF Rendered
<1>7. PlayInv'
  <2>1. Checked(play, checks)'
    BY <1>1, <1>6 DEF Checked, Awaited
  <2> QED BY <1>1, <1>5, <1>6, <2>1 DEF QuizInv, PlayInv
<1>8. PushInv'
  BY <1>1 DEF PushInv
<1>9. StoreInv'
  BY <1>1, <1>5 DEF QuizInv, StoreInv, SessionIsSaved
<1>10. SubmissionInv'
  BY <1>1, <1>5, SubmissionKept DEF QuizInv
<1> QED BY <1>7, <1>8, <1>9, <1>10 DEF QuizInv

\* The effects after a render write the draft of what is rendered.
LEMMA FlushKeeps ==
  ASSUME QuizInv, PushInv, docs' = docs, FlushEffects
  PROVE  QuizInv' /\ PushInv'
<1>1. /\ page = "play" /\ page' = page
      /\ play' = [play EXCEPT !.ref = play.state, !.dirty = FALSE]
      /\ WriteDraft(play.mode, play.state)
      /\ checks' = checks /\ storage' = storage
      /\ submissions' = submissions /\ attempts' = attempts /\ visits' = visits
      /\ pushing' = pushing
  BY DEF FlushEffects
<1>2. play \in ScreenType /\ Rendered(play) /\ Checked(play, checks)
  BY <1>1 DEF QuizInv, PlayInv
<1>3. play.state \in Drafts /\ play.mode \in Modes
  BY <1>2 DEF ScreenType
<1>4. /\ play' \in ScreenType /\ play'.state = play.state /\ play'.ref = play.state
      /\ play'.mode = play.mode /\ play'.submitting = play.submitting
      /\ play'.feedback = play.feedback /\ play'.requests = play.requests
  BY <1>1, <1>2 DEF ScreenType
<1>5. Rendered(play)' /\ Checked(play', checks)
  BY <1>2, <1>4, CheckedKept DEF Rendered
<1>6. PlayInv'
  <2>1. Checked(play, checks)'
    BY <1>1, <1>5 DEF Checked, Awaited
  <2> QED BY <1>1, <1>4, <1>5, <2>1 DEF QuizInv, PlayInv
<1>7. PushInv'
  BY <1>1 DEF PushInv
<1>8. StoreInv'
  BY <1>1, <1>3, <1>4, StoreWritten DEF QuizInv
<1>9. SubmissionInv'
  BY <1>1, <1>4, SubmissionKept DEF QuizInv
<1> QED BY <1>6, <1>7, <1>8, <1>9 DEF QuizInv

\* The leave dialog hides the play screen and changes nothing of the session.
LEMMA DialogKeeps ==
  ASSUME QuizInv, PushInv, docs' = docs, OpenLeaveDialog \/ CloseLeaveDialog
  PROVE  QuizInv' /\ PushInv'
<1>1. PICK open \in BOOLEAN :
        /\ page = "play" /\ page' = page
        /\ play' = [play EXCEPT !.dialog = open]
  BY DEF OpenLeaveDialog, CloseLeaveDialog
<1>2. /\ checks' = checks /\ storage' = storage /\ drafts' = drafts
      /\ submissions' = submissions /\ attempts' = attempts /\ visits' = visits
      /\ pushing' = pushing
  BY DEF OpenLeaveDialog, CloseLeaveDialog
<1>3. play \in ScreenType
  BY <1>1 DEF QuizInv, PlayInv
<1>4. /\ play' \in ScreenType /\ play'.mode = play.mode /\ play'.state = play.state
      /\ play'.ref = play.ref /\ play'.dirty = play.dirty
      /\ play'.feedback = play.feedback /\ play'.requests = play.requests
      /\ play'.submitting = play.submitting
  BY <1>1, <1>3 DEF ScreenType
<1>5. PlayInv'
  BY <1>1, <1>2, <1>4, PlayKept DEF QuizInv
<1>6. PushInv'
  BY <1>2 DEF PushInv
<1>7. StoreInv'
  BY <1>1, <1>2, <1>4, <1>6, StoreKept DEF QuizInv
<1>8. SubmissionInv'
  BY <1>1, <1>2, <1>4, SubmissionKept DEF QuizInv
<1> QED BY <1>5, <1>6, <1>7, <1>8 DEF QuizInv

\* The learner leaves or stays; the ref is written.
LEMMA LeavingKeeps ==
  ASSUME QuizInv, PushInv, docs' = docs, LeaveQuiz \/ HandlePopState \/ StayOnPage
  PROVE  QuizInv' /\ PushInv'
<1>1. /\ page = "play" /\ page' = page /\ WriteDraft(play.mode, play.ref)
      /\ checks' = checks /\ storage' = storage
      /\ submissions' = submissions /\ attempts' = attempts /\ visits' = visits
      /\ pushing' = pushing
  BY DEF LeaveQuiz, HandlePopState, StayOnPage, ConfirmInternalLeave
<1>2. play \in ScreenType
  BY <1>1 DEF QuizInv, PlayInv
<1>3. PICK leaving \in BOOLEAN :
        \/ play' = [play EXCEPT !.confirmed = TRUE, !.dialog = FALSE, !.leaving = leaving]
        \/ play' = play
  <2>1. play.leaving \in BOOLEAN
    BY <1>2 DEF ScreenType
  <2> QED BY <2>1 DEF LeaveQuiz, HandlePopState, StayOnPage, ConfirmInternalLeave
<1>4. /\ play' \in ScreenType /\ play'.mode = play.mode /\ play'.state = play.state
      /\ play'.ref = play.ref /\ play'.dirty = play.dirty
      /\ play'.feedback = play.feedback /\ play'.requests = play.requests
      /\ play'.submitting = play.submitting
  BY <1>2, <1>3 DEF ScreenType
<1>5. PlayInv'
  BY <1>1, <1>4, PlayKept DEF QuizInv
<1>6. PushInv'
  BY <1>1 DEF PushInv
<1>7. StoreInv'
  BY <1>1, <1>4, StoreSaved DEF QuizInv
<1>8. SubmissionInv'
  BY <1>1, <1>4, SubmissionKept DEF QuizInv
<1> QED BY <1>5, <1>6, <1>7, <1>8 DEF QuizInv

(***************************************************************************)
(* The play screen: answers and feedback                                   *)
(***************************************************************************)

\* handleOptionSelect: in practice mode earlier feedback, and any check still
\* under way, no longer count for the question.
LEMMA SelectOptionKeeps ==
  ASSUME QuizInv, PushInv, docs' = docs, NEW option \in Options, SelectOption(option)
  PROVE  QuizInv' /\ PushInv'
<1> DEFINE q == play.state.index
           plain == [play EXCEPT !.error = FALSE, !.missing = 0]
           screen == IF play.mode = "practice"
                     THEN ResetQuestionFeedback(plain, q, option) ELSE plain
           draft == [play.ref EXCEPT !.answers[q] = option]
<1>1. /\ page = "play" /\ page' = page /\ UpdateDraftState(screen, draft)
      /\ checks' = checks /\ storage' = storage
      /\ submissions' = submissions /\ attempts' = attempts /\ visits' = visits
      /\ pushing' = pushing
  BY DEF SelectOption, PlayClick
<1>2. /\ play \in ScreenType /\ Rendered(play) /\ Checked(play, checks)
      /\ checks \subseteq CheckType
  BY <1>1 DEF QuizInv, PlayInv
<1>3. q \in Questions /\ play.ref \in Drafts /\ play.mode \in Modes
  BY <1>2 DEF ScreenType, Drafts
<1>4. draft \in Drafts /\ draft.answers = [play.state.answers EXCEPT ![q] = option]
  BY <1>2, <1>3 DEF Drafts, Rendered
<1>5. /\ plain \in ScreenType /\ plain.mode = play.mode /\ plain.feedback = play.feedback
      /\ plain.requests = play.requests /\ plain.submitting = play.submitting
  BY <1>2 DEF ScreenType
<1> HIDE DEF plain
<1>6. /\ screen \in ScreenType /\ screen.mode = play.mode /\ screen.submitting = play.submitting
      /\ play.mode # "practice" => screen.feedback = play.feedback /\ screen.requests = play.requests
      /\ play.mode = "practice" =>
           /\ screen.requests = [play.requests EXCEPT ![q] = @ + 1]
           /\ screen.feedback = [play.feedback EXCEPT ![q] =
                [option |-> option, status |-> "idle", correct |-> FALSE]]
  <2>1. CASE play.mode # "practice"
    BY <1>5, <2>1
  <2>2. CASE play.mode = "practice"
    <3> DEFINE idle == [option |-> option, status |-> "idle", correct |-> FALSE]
    <3>1. idle \in Feedback
      BY DEF Feedback
    <3>2. screen = [plain EXCEPT !.requests[q] = @ + 1, !.feedback[q] = idle]
      BY <2>2 DEF ResetQuestionFeedback
    <3> HIDE DEF idle, screen
    <3>3. /\ [play.requests EXCEPT ![q] = @ + 1] \in [Questions -> Nat]
          /\ [play.feedback EXCEPT ![q] = idle] \in [Questions -> Feedback]
      BY <1>2, <1>3, <3>1 DEF ScreenType
    <3>4. screen = [plain EXCEPT !.requests = [play.requests EXCEPT ![q] = @ + 1],
                                 !.feedback = [play.feedback EXCEPT ![q] = idle]]
      BY <1>5, <3>2 DEF ScreenType
    <3>5. /\ screen \in ScreenType /\ screen.mode = plain.mode
          /\ screen.submitting = plain.submitting
          /\ screen.requests = [play.requests EXCEPT ![q] = @ + 1]
          /\ screen.feedback = [play.feedback EXCEPT ![q] = idle]
      BY <1>5, <3>3, <3>4 DEF ScreenType
    <3> QED BY <1>5, <2>2, <3>5 DEF idle
  <2> QED BY <2>1, <2>2
<1> HIDE DEF screen, draft
<1>7. /\ play' \in ScreenType /\ Rendered(play') /\ play'.state = draft /\ ~play'.dirty
      /\ play'.mode = screen.mode /\ play'.submitting = screen.submitting
      /\ play'.feedback = screen.feedback /\ play'.requests = screen.requests
  BY <1>1, <1>4, <1>6, DraftUpdated
<1>8. Checked(play', checks)
  <2>1. play.state.answers \in Answers /\ play.requests \in [Questions -> Nat]
        /\ play.feedback \in [Questions -> Feedback]
    BY <1>2 DEF ScreenType, Drafts, Answers
  <2>2. play'.state.answers = [play.state.answers EXCEPT ![q] = option]
    BY <1>4, <1>7
  <2>3. CASE play.mode = "test"
    <3>1. checks = {} /\ \A r \in Questions : play'.feedback[r] = NoFeedback
      BY <1>2, <1>6, <1>7, <2>3 DEF Checked
    <3> QED BY <3>1 DEF Checked, NoFeedback
  <2>4. CASE play.mode = "practice"
    <3>1. /\ play'.requests[q] = play.requests[q] + 1
          /\ play'.feedback[q].status = "idle"
          /\ \A r \in Questions \ {q} : /\ play'.requests[r] = play.requests[r]
                                        /\ play'.feedback[r] = play.feedback[r]
                                        /\ play'.state.answers[r] = play.state.answers[r]
      BY <1>3, <1>6, <1>7, <2>1, <2>2, <2>4 DEF Answers
    <3>2. \A c \in checks : c.question = q => c.request <= play'.requests[q] /\ ~Awaited(play', c)
      <4>1. \A c \in checks : c.request \in Nat /\ c.request <= play.requests[c.question]
        BY <1>2 DEF Checked, CheckType
      <4>2. play.requests[q] \in Nat
        BY <1>3, <2>1
      <4> QED BY <3>1, <4>1, <4>2 DEF Awaited
    <3>3. \A c \in checks : c.question # q =>
            c.question \in Questions \ {q} /\ (Awaited(play', c) <=> Awaited(play, c))
      BY <1>2, <3>1 DEF Awaited, CheckType
    <3>4. \A c \in checks :
            /\ c.request <= play'.requests[c.question]
            /\ Awaited(play', c) =>
                  /\ play'.feedback[c.question].status = "loading"
                  /\ play'.feedback[c.question].option = c.option
                  /\ play'.state.answers[c.question] = c.option
      BY <1>2, <3>1, <3>2, <3>3 DEF Checked
    <3>5. \A r \in Questions :
            /\ play'.feedback[r].status = "ready" =>
                  /\ play'.feedback[r].option = play'.state.answers[r]
                  /\ play'.feedback[r].correct <=> play'.state.answers[r] = Key[r]
            /\ play'.feedback[r].status = "loading" =>
                  \E c \in checks : c.question = r /\ Awaited(play', c)
      <4> SUFFICES ASSUME NEW r \in Questions, r # q
                   PROVE  /\ play'.feedback[r].status = "ready" =>
                                /\ play'.feedback[r].option = play'.state.answers[r]
                                /\ play'.feedback[r].correct <=> play'.state.answers[r] = Key[r]
                          /\ play'.feedback[r].status = "loading" =>
                                \E c \in checks : c.question = r /\ Awaited(play', c)
        BY <3>1
      <4>1. /\ play'.feedback[r] = play.feedback[r]
            /\ play'.state.answers[r] = play.state.answers[r]
        BY <3>1
      <4> QED BY <1>2, <3>3, <4>1 DEF Checked
    <3>6. play'.mode = "practice"
      BY <1>6, <1>7, <2>4
    <3> QED BY <3>4, <3>5, <3>6 DEF Checked
  <2> QED BY <1>3, <2>3, <2>4 DEF Modes
<1>9. PlayInv'
  <2>1. Rendered(play)' /\ Checked(play, checks)'
    BY <1>1, <1>7, <1>8 DEF Rendered, Checked, Awaited
  <2> QED BY <1>1, <1>2, <1>7, <2>1 DEF PlayInv
<1>10. PushInv'
  BY <1>1 DEF PushInv
<1>11. StoreInv'
  <2>1. WriteDraft(play.mode, draft)
    BY <1>1 DEF UpdateDraftState
  <2> QED BY <1>1, <1>3, <1>4, <1>6, <1>7, <2>1, StoreWritten DEF QuizInv
<1>12. SubmissionInv'
  BY <1>1, <1>6, <1>7, SubmissionKept DEF QuizInv
<1> QED BY <1>9, <1>10, <1>11, <1>12 DEF QuizInv

\* updateDraftState with another position or other flags.
DraftMoved ==
    \E screen \in ScreenType, draft \in Drafts :
        /\ screen.mode = play.mode /\ screen.feedback = play.feedback
        /\ screen.requests = play.requests /\ screen.submitting = play.submitting
        /\ draft.answers = play.ref.answers
        /\ UpdateDraftState(screen, draft)

\* What moving, flagging and a refused submission have in common.
LEMMA MoveUpdates ==
  ASSUME play \in ScreenType,
         ToggleFlag \/ SubmitIncomplete \/ \E q \in Questions : MoveToQuestion(q)
  PROVE  DraftMoved
<1>1. play.ref \in Drafts /\ play.mode \in Modes /\ play.state \in Drafts
  BY DEF ScreenType
<1>2. ASSUME ToggleFlag PROVE DraftMoved
  <2> DEFINE q == play.state.index
             draft == [play.ref EXCEPT !.flagged = IF q \in @ THEN @ \ {q} ELSE @ \cup {q}]
  <2>1. draft \in Drafts /\ draft.answers = play.ref.answers
    BY <1>1 DEF Drafts
  <2>2. UpdateDraftState(play, draft)
    BY <1>2 DEF ToggleFlag
  <2> QED BY <2>1, <2>2 DEF DraftMoved
<1>3. ASSUME SubmitIncomplete PROVE DraftMoved
  <2> DEFINE missing == Missing(play.state.answers)
             screen == [play EXCEPT !.missing = Min(missing), !.error = FALSE]
             draft == [play.ref EXCEPT !.index = Min(missing)]
  <2>1. Min(missing) \in Questions
    <3>1. missing \in SUBSET Questions /\ missing # {}
      BY <1>3 DEF SubmitIncomplete, Missing
    <3> QED BY <3>1, FirstQuestion
  <2>2. UpdateDraftState(screen, draft)
    BY <1>3 DEF SubmitIncomplete
  <2> HIDE DEF missing
  <2>3. draft \in Drafts /\ draft.answers = play.ref.answers
    BY <1>1, <2>1 DEF Drafts
  <2>4. /\ screen \in ScreenType /\ screen.mode = play.mode /\ screen.feedback = play.feedback
        /\ screen.requests = play.requests /\ screen.submitting = play.submitting
    BY <2>1 DEF ScreenType
  <2> QED BY <2>2, <2>3, <2>4 DEF DraftMoved
<1>4. ASSUME NEW q \in Questions, MoveToQuestion(q) PROVE DraftMoved
  <2> DEFINE draft == [play.ref EXCEPT !.index = q]
  <2>1. draft \in Drafts /\ draft.answers = play.ref.answers
    BY <1>1 DEF Drafts
  <2>2. UpdateDraftState(play, draft)
    BY <1>4 DEF MoveToQuestion
  <2> QED BY <2>1, <2>2 DEF DraftMoved
<1> QED BY <1>2, <1>3, <1>4

\* toggleFlag, moveToQuestion and handleSubmit with questions left.
LEMMA MoveKeeps ==
  ASSUME QuizInv, PushInv, docs' = docs,
         ToggleFlag \/ SubmitIncomplete \/ \E q \in Questions : MoveToQuestion(q)
  PROVE  QuizInv' /\ PushInv'
<1>1. /\ page = "play" /\ page' = page
      /\ checks' = checks /\ storage' = storage
      /\ submissions' = submissions /\ attempts' = attempts /\ visits' = visits
      /\ pushing' = pushing
  BY DEF ToggleFlag, SubmitIncomplete, MoveToQuestion, PlayClick
<1>2. play \in ScreenType
  BY <1>1 DEF QuizInv, PlayInv
<1>3. play.ref \in Drafts /\ play.mode \in Modes /\ play.state \in Drafts
  BY <1>2 DEF ScreenType
<1>5. PICK screen \in ScreenType, draft \in Drafts :
        /\ screen.mode = play.mode /\ screen.feedback = play.feedback
        /\ screen.requests = play.requests /\ screen.submitting = play.submitting
        /\ draft.answers = play.ref.answers
        /\ UpdateDraftState(screen, draft)
  BY <1>2, MoveUpdates DEF DraftMoved
<1>6. PlayInv'
  BY <1>1, <1>5, PlayMoved DEF QuizInv
<1>7. /\ play'.state = draft /\ play'.mode = play.mode /\ play'.submitting = play.submitting
      /\ WriteDraft(play.mode, draft)
  BY <1>5, DraftUpdated DEF UpdateDraftState
<1>8. PushInv'
  BY <1>1 DEF PushInv
<1>9. StoreInv'
  BY <1>1, <1>3, <1>5, <1>7, StoreWritten DEF QuizInv
<1>10. SubmissionInv'
  BY <1>1, <1>7, SubmissionKept DEF QuizInv
<1> QED BY <1>6, <1>8, <1>9, <1>10 DEF QuizInv

\* handleCheckAnswer: a new request, which any earlier one of the question gives
\* way to.
LEMMA CheckAnswerKeeps ==
  ASSUME QuizInv, PushInv, docs' = docs, HandleCheckAnswer
  PROVE  QuizInv' /\ PushInv'
<1> DEFINE q == play.state.index
           option == play.state.answers[q]
           loading == [option |-> option, status |-> "loading", correct |-> FALSE]
           asked == [question |-> q, option |-> option, request |-> play.requests[q] + 1]
<1>1. /\ page = "play" /\ page' = page /\ play.mode = "practice" /\ option # Unanswered
      /\ play' = [play EXCEPT !.requests[q] = @ + 1, !.feedback[q] = loading]
      /\ checks' = checks \cup {asked}
      /\ drafts' = drafts /\ storage' = storage
      /\ submissions' = submissions /\ attempts' = attempts /\ visits' = visits
      /\ pushing' = pushing
  BY DEF HandleCheckAnswer, PlayClick
<1>2. /\ play \in ScreenType /\ Rendered(play) /\ Checked(play, checks)
      /\ checks \subseteq CheckType
  BY <1>1 DEF QuizInv, PlayInv
<1>3. q \in Questions /\ option \in Options
  BY <1>1, <1>2 DEF ScreenType, Drafts
<1>4. /\ [play.requests EXCEPT ![q] = @ + 1] \in [Questions -> Nat]
      /\ [play.feedback EXCEPT ![q] = loading] \in [Questions -> Feedback]
  <2>1. loading \in Feedback
    BY <1>3 DEF Feedback
  <2> HIDE DEF loading
  <2> QED BY <1>2, <1>3, <2>1 DEF ScreenType
<1>5. asked \in CheckType
  BY <1>2, <1>3 DEF CheckType, ScreenType
<1>6. play' = [play EXCEPT !.requests = [play.requests EXCEPT ![q] = @ + 1],
                           !.feedback = [play.feedback EXCEPT ![q] = loading]]
  BY <1>1, <1>2 DEF ScreenType
<1> HIDE DEF loading
<1>7. /\ play' \in ScreenType /\ play'.mode = play.mode /\ play'.state = play.state
      /\ play'.ref = play.ref /\ play'.dirty = play.dirty /\ play'.submitting = play.submitting
      /\ play'.requests = [play.requests EXCEPT ![q] = @ + 1]
      /\ play'.feedback = [play.feedback EXCEPT ![q] = loading]
  BY <1>2, <1>4, <1>6 DEF ScreenType
<1>8. /\ play.requests \in [Questions -> Nat] /\ play.feedback \in [Questions -> Feedback]
  BY <1>2 DEF ScreenType
<1>9. /\ play'.requests[q] = play.requests[q] + 1 /\ play'.feedback[q] = loading
      /\ \A r \in Questions \ {q} : /\ play'.requests[r] = play.requests[r]
                                    /\ play'.feedback[r] = play.feedback[r]
  BY <1>3, <1>7, <1>8
<1>10. \A c \in checks : c.question = q => c.request < play'.requests[q]
  BY <1>2, <1>3, <1>8, <1>9 DEF Checked, CheckType
<1>11. \A c \in checks : c.question # q =>
        c.question \in Questions \ {q} /\ (Awaited(play', c) <=> Awaited(play, c))
  BY <1>2, <1>9 DEF Awaited, CheckType
<1>12. Checked(play', checks')
  <2>1. \A c \in checks' :
          /\ c.request <= play'.requests[c.question]
          /\ Awaited(play', c) =>
                /\ play'.feedback[c.question].status = "loading"
                /\ play'.feedback[c.question].option = c.option
                /\ play'.state.answers[c.question] = c.option
    <3> SUFFICES ASSUME NEW c \in checks'
                 PROVE  /\ c.request <= play'.requests[c.question]
                        /\ Awaited(play', c) =>
                              /\ play'.feedback[c.question].status = "loading"
                              /\ play'.feedback[c.question].option = c.option
                              /\ play'.state.answers[c.question] = c.option
      OBVIOUS
    <3>1. CASE c = asked
      <4>1. c.question = q /\ c.option = option /\ c.request = play'.requests[q]
        BY <1>9, <3>1
      <4>2. c.request \in Nat
        BY <1>5, <3>1 DEF CheckType
      <4> QED BY <1>7, <1>9, <4>1, <4>2 DEF loading
    <3>2. CASE c \in checks /\ c.question = q
      <4>1. c.request \in Nat /\ play'.requests[q] \in Nat
        BY <1>2, <1>3, <1>7, <3>2 DEF CheckType, ScreenType
      <4> QED BY <1>10, <3>2, <4>1 DEF Awaited
    <3>3. CASE c \in checks /\ c.question # q
      <4>1. /\ c.question \in Questions \ {q} /\ (Awaited(play', c) <=> Awaited(play, c))
            /\ play'.requests[c.question] = play.requests[c.question]
            /\ play'.feedback[c.question] = play.feedback[c.question]
        BY <1>9, <1>11, <3>3
      <4> QED BY <1>2, <1>7, <3>3, <4>1 DEF Checked
    <3> QED BY <1>1, <3>1, <3>2, <3>3
  <2>2. \A r \in Questions :
          /\ play'.feedback[r].status = "ready" =>
                /\ play'.feedback[r].option = play'.state.answers[r]
                /\ play'.feedback[r].correct <=> play'.state.answers[r] = Key[r]
          /\ play'.feedback[r].status = "loading" =>
                \E c \in checks' : c.question = r /\ Awaited(play', c)
    <3> SUFFICES ASSUME NEW r \in Questions
                 PROVE  /\ play'.feedback[r].status = "ready" =>
                              /\ play'.feedback[r].option = play'.state.answers[r]
                              /\ play'.feedback[r].correct <=> play'.state.answers[r] = Key[r]
                        /\ play'.feedback[r].status = "loading" =>
                              \E c \in checks' : c.question = r /\ Awaited(play', c)
      OBVIOUS
    <3>1. CASE r = q
      <4>1. play'.feedback[r].status = "loading"
        BY <1>9, <3>1 DEF loading
      <4>2. asked \in checks' /\ asked.question = r /\ Awaited(play', asked)
        BY <1>1, <1>9, <3>1 DEF Awaited
      <4> HIDE DEF asked
      <4> QED BY <4>1, <4>2
    <3>2. CASE r # q
      <4>1. play'.feedback[r] = play.feedback[r] /\ play'.state = play.state
        BY <1>7, <1>9, <3>2
      <4>2. \A c \in checks : c.question = r /\ Awaited(play, c) =>
               c \in checks' /\ Awaited(play', c)
        BY <1>1, <1>11, <3>2
      <4> QED BY <1>2, <4>1, <4>2 DEF Checked
    <3> QED BY <3>1, <3>2
  <2>3. play'.mode = "practice"
    BY <1>1, <1>7
  <2> QED BY <2>1, <2>2, <2>3 DEF Checked
<1>13. PlayInv'
  <2>1. Rendered(play)' /\ Checked(play, checks)'
    BY <1>2, <1>7, <1>12 DEF Rendered, Checked, Awaited
  <2>2. checks' \subseteq CheckType
    BY <1>1, <1>2, <1>5
  <2> QED BY <1>1, <1>7, <2>1, <2>2 DEF PlayInv
<1>14. PushInv'
  BY <1>1 DEF PushInv
<1>15. StoreInv'
  BY <1>1, <1>7, <1>14, StoreKept DEF QuizInv
<1>16. SubmissionInv'
  BY <1>1, <1>7, SubmissionKept DEF QuizInv
<1> QED BY <1>13, <1>14, <1>15, <1>16 DEF QuizInv

\* applyResponse: the answer to a check that its question still waits for is shown;
\* any other changes nothing.
LEMMA CheckReturnsKeeps ==
  ASSUME QuizInv, PushInv, docs' = docs, NEW c \in checks, CheckReturns(c)
  PROVE  QuizInv' /\ PushInv'
<1>1. /\ page' = page /\ checks' = checks \ {c}
      /\ drafts' = drafts /\ storage' = storage
      /\ submissions' = submissions /\ attempts' = attempts /\ visits' = visits
      /\ pushing' = pushing
  BY DEF CheckReturns
<1>2. page = "play"
  BY DEF QuizInv, PlayInv
<1>3. /\ play \in ScreenType /\ Rendered(play) /\ Checked(play, checks)
      /\ checks \subseteq CheckType
  BY <1>2 DEF QuizInv, PlayInv
<1>4. PICK status \in {"ready", "error"}, correct \in BOOLEAN :
        /\ play' = ApplyResponse(c, status, correct)
        /\ status = "ready" => (correct <=> c.option = Key[c.question])
  BY DEF CheckReturns, GetPracticeFeedback
<1>5. /\ c \in CheckType /\ c.question \in Questions /\ c.option \in Options
  BY <1>3 DEF CheckType
<1> DEFINE answer == [option |-> c.option, status |-> status, correct |-> correct]
<1>6. ASSUME Awaited(play, c)
      PROVE  /\ play' \in ScreenType /\ Rendered(play') /\ Checked(play', checks')
             /\ play'.mode = play.mode /\ play'.state = play.state /\ play'.dirty = play.dirty
             /\ play'.submitting = play.submitting
  <2>1. /\ play.feedback[c.question].status = "loading"
        /\ play.feedback[c.question].option = c.option
        /\ play.state.answers[c.question] = c.option
    BY <1>3, <1>6 DEF Checked
  <2>2. play' = [play EXCEPT !.feedback[c.question] = answer]
    BY <1>4, <1>6, <2>1 DEF ApplyResponse, Awaited
  <2>3. answer \in Feedback
    BY <1>5 DEF Feedback
  <2> HIDE DEF answer
  <2>4. [play.feedback EXCEPT ![c.question] = answer] \in [Questions -> Feedback]
    BY <1>3, <2>3 DEF ScreenType
  <2>5. play' = [play EXCEPT !.feedback = [play.feedback EXCEPT ![c.question] = answer]]
    BY <1>3, <2>2 DEF ScreenType
  <2>6. /\ play' \in ScreenType /\ play'.mode = play.mode /\ play'.state = play.state
        /\ play'.ref = play.ref /\ play'.dirty = play.dirty /\ play'.submitting = play.submitting
        /\ play'.requests = play.requests
        /\ play'.feedback = [play.feedback EXCEPT ![c.question] = answer]
    BY <1>3, <2>4, <2>5 DEF ScreenType
  <2>7. /\ play'.feedback[c.question] = answer
        /\ \A r \in Questions \ {c.question} : play'.feedback[r] = play.feedback[r]
    BY <1>3, <1>5, <2>6 DEF ScreenType
  <2>8. \A d \in checks' : d.question = c.question => ~Awaited(play, d)
    <3> SUFFICES ASSUME NEW d \in checks', d.question = c.question, Awaited(play, d)
                 PROVE  FALSE
      OBVIOUS
    <3>1. d \in checks /\ d # c /\ d \in CheckType
      BY <1>1, <1>3
    <3>2. d.option = c.option /\ d.request = c.request
      BY <1>3, <1>6, <2>1, <3>1 DEF Checked, Awaited
    <3> QED BY <1>5, <3>1, <3>2 DEF CheckType
  <2>9. Checked(play', checks')
    <3>1. play.mode = "practice"
      BY <1>3 DEF Checked, ScreenType, Modes
    <3>2. \A d \in checks' :
            /\ d.request <= play'.requests[d.question]
            /\ Awaited(play', d) =>
                  /\ play'.feedback[d.question].status = "loading"
                  /\ play'.feedback[d.question].option = d.option
                  /\ play'.state.answers[d.question] = d.option
      <4> SUFFICES ASSUME NEW d \in checks'
                   PROVE  /\ d.request <= play'.requests[d.question]
                          /\ Awaited(play', d) =>
                                /\ play'.feedback[d.question].status = "loading"
                                /\ play'.feedback[d.question].option = d.option
                                /\ play'.state.answers[d.question] = d.option
        OBVIOUS
      <4>1. d \in checks /\ d.question \in Questions /\ (Awaited(play', d) <=> Awaited(play, d))
        BY <1>1, <1>3, <2>6 DEF CheckType, Awaited
      <4>2. Awaited(play, d) => play'.feedback[d.question] = play.feedback[d.question]
        BY <2>7, <2>8, <4>1
      <4> QED BY <1>3, <2>6, <4>1, <4>2 DEF Checked
    <3>3. \A r \in Questions :
            /\ play'.feedback[r].status = "ready" =>
                  /\ play'.feedback[r].option = play'.state.answers[r]
                  /\ play'.feedback[r].correct <=> play'.state.answers[r] = Key[r]
            /\ play'.feedback[r].status = "loading" =>
                  \E d \in checks' : d.question = r /\ Awaited(play', d)
      <4> SUFFICES ASSUME NEW r \in Questions
                   PROVE  /\ play'.feedback[r].status = "ready" =>
                                /\ play'.feedback[r].option = play'.state.answers[r]
                                /\ play'.feedback[r].correct <=> play'.state.answers[r] = Key[r]
                          /\ play'.feedback[r].status = "loading" =>
                                \E d \in checks' : d.question = r /\ Awaited(play', d)
        OBVIOUS
      <4>1. CASE r = c.question
        <5>1. play'.feedback[r] = answer /\ play'.state.answers[r] = c.option
          BY <2>1, <2>6, <2>7, <4>1
        <5>2. answer.option = c.option /\ answer.status = status /\ answer.correct = correct
          BY DEF answer
        <5>3. play'.feedback[r].status = status /\ status # "loading"
          BY <5>1, <5>2
        <5>4. status = "ready" => (play'.feedback[r].correct <=> play'.state.answers[r] = Key[r])
          BY <1>4, <4>1, <5>1, <5>2, Zenon
        <5> QED BY <5>1, <5>2, <5>3, <5>4
      <4>2. CASE r # c.question
        <5>1. play'.feedback[r] = play.feedback[r] /\ play'.state = play.state
          BY <2>6, <2>7, <4>2
        <5>2. \A d \in checks : d.question = r /\ Awaited(play, d) =>
                 d \in checks' /\ Awaited(play', d)
          BY <1>1, <2>6, <4>2 DEF Awaited
        <5> QED BY <1>3, <5>1, <5>2 DEF Checked
      <4> QED BY <4>1, <4>2
    <3> QED BY <2>6, <3>1, <3>2, <3>3 DEF Checked
  <2>10. Rendered(play')
    BY <1>3, <2>6 DEF Rendered
  <2> QED BY <2>6, <2>9, <2>10
<1>7. ASSUME ~Awaited(play, c)
      PROVE  /\ play' \in ScreenType /\ Rendered(play') /\ Checked(play', checks')
             /\ play'.mode = play.mode /\ play'.state = play.state /\ play'.dirty = play.dirty
             /\ play'.submitting = play.submitting
  <2>1. play' = play
    BY <1>4, <1>7 DEF ApplyResponse, Awaited
  <2>2. \A d \in checks : Awaited(play, d) => d \in checks'
    BY <1>1, <1>7
  <2>3. Checked(play, checks')
    BY <1>1, <1>3, <2>2 DEF Checked
  <2> QED BY <1>3, <2>1, <2>3
<1>8. /\ play' \in ScreenType /\ Rendered(play') /\ Checked(play', checks')
      /\ play'.mode = play.mode /\ play'.state = play.state /\ play'.dirty = play.dirty
      /\ play'.submitting = play.submitting
  BY <1>6, <1>7
<1>9. PlayInv'
  <2>1. Rendered(play)' /\ Checked(play, checks)'
    BY <1>8 DEF Rendered, Checked, Awaited
  <2> QED BY <1>1, <1>2, <1>3, <1>8, <2>1 DEF PlayInv
<1>10. PushInv'
  BY <1>1 DEF PushInv
<1>11. StoreInv'
  BY <1>1, <1>2, <1>8, <1>10, StoreKept DEF QuizInv
<1>12. SubmissionInv'
  BY <1>1, <1>2, <1>8, SubmissionKept DEF QuizInv
<1> QED BY <1>9, <1>10, <1>11, <1>12 DEF QuizInv

(***************************************************************************)
(* Submitting                                                              *)
(***************************************************************************)

\* handleSubmit: the screen has none under way, and writes what it sends.
LEMMA SubmitKeeps ==
  ASSUME QuizInv, PushInv, docs' = docs, HandleSubmit
  PROVE  QuizInv' /\ PushInv'
<1> DEFINE sent == [visit |-> visits, mode |-> play.mode, answers |-> play.state.answers,
                    stage |-> "sent", attempt |-> Len(attempts) + Cardinality(submissions) + 1,
                    heard |-> TRUE]
<1>1. /\ page = "play" /\ page' = page /\ ~play.submitting
      /\ play' = [play EXCEPT !.submitting = TRUE, !.error = FALSE]
      /\ WriteDraft(play.mode, play.ref)
      /\ submissions' = submissions \cup {sent}
      /\ checks' = checks /\ storage' = storage /\ attempts' = attempts /\ visits' = visits
      /\ pushing' = pushing
  BY DEF HandleSubmit, PlayClick, Busy, Send
<1>2. play \in ScreenType /\ SubmissionInv
  BY <1>1 DEF QuizInv, PlayInv
<1>3. /\ play' \in ScreenType /\ play'.mode = play.mode /\ play'.state = play.state
      /\ play'.ref = play.ref /\ play'.dirty = play.dirty
      /\ play'.feedback = play.feedback /\ play'.requests = play.requests
      /\ play'.submitting
  BY <1>1, <1>2 DEF ScreenType
<1>4. sent \in SubmissionType
  <2>1. Cardinality(submissions) \in Nat /\ Len(attempts) \in Nat
    <3>1. IsFiniteSet(submissions)
      BY <1>2 DEF SubmissionInv
    <3> QED BY <1>2, <3>1, FS_CardinalityType DEF SubmissionInv
  <2>2. play.mode \in Modes /\ play.state.answers \in Answers /\ visits \in Nat
    BY <1>2 DEF ScreenType, Drafts, Answers, SubmissionInv
  <2> QED BY <2>1, <2>2 DEF SubmissionType, SubmissionStage
<1>5. /\ sent.heard /\ sent.visit = visits /\ sent.stage = "sent"
  OBVIOUS
<1> HIDE DEF sent
<1>6. PlayInv'
  BY <1>1, <1>3, PlayKept DEF QuizInv
<1>7. PushInv'
  BY <1>1 DEF PushInv
<1>8. StoreInv'
  BY <1>1, <1>3, StoreSaved DEF QuizInv
<1>9. SubmissionInv'
  <2>1. \A s \in submissions : ~(s.heard /\ s.visit = visits)
    BY <1>1, <1>2 DEF SubmissionInv, Current
  <2>2. IsFiniteSet(submissions)'
    <3>1. IsFiniteSet(submissions)
      BY <1>2 DEF SubmissionInv
    <3> QED BY <1>1, <3>1, FS_AddElement
  <2>3. submissions' \subseteq SubmissionType
    BY <1>1, <1>2, <1>4 DEF SubmissionInv
  <2>4. visits \in Nat /\ sent.visit <= visits
    BY <1>2, <1>5 DEF SubmissionInv
  <2>5. \A s \in submissions' :
          /\ s.visit <= visits'
          /\ s.stage = "stored" => /\ s.attempt \in 1..Len(attempts')
                                   /\ attempts'[s.attempt].mode = s.mode
    BY <1>1, <1>2, <1>5, <2>4 DEF SubmissionInv
  <2>6. \A s, t \in submissions' :
          (s.heard /\ s.visit = visits') /\ (t.heard /\ t.visit = visits') => s = t
    BY <1>1, <2>1
  <2>7. play'.submitting /\ \E s \in submissions' : s.heard /\ s.visit = visits'
    BY <1>1, <1>3, <1>5
  <2> QED BY <1>1, <1>2, <2>2, <2>3, <2>5, <2>6, <2>7 DEF SubmissionInv, Current
<1> QED BY <1>6, <1>7, <1>8, <1>9 DEF QuizInv

\* submitAttempt: an attempt is stored with its answers, or none; whoever waits for
\* the answer still does.
LEMMA AttemptKeeps ==
  ASSUME QuizInv, PushInv, docs' = docs, NEW s \in submissions, SubmitAttempt(s)
  PROVE  QuizInv' /\ PushInv'
<1>1. PICK stage \in {"stored", "failed"}, stored \in BOOLEAN :
        /\ stage = "stored" => stored
        /\ submissions' = (submissions \ {s}) \cup
             {[s EXCEPT !.stage = stage, !.attempt = Len(attempts) + 1]}
        /\ attempts' = IF stored THEN PostAttempt(s) ELSE attempts
  BY DEF SubmitAttempt
<1>2. /\ page' = page /\ pushing' = pushing /\ start' = start /\ play' = play
      /\ drafts' = drafts /\ storage' = storage /\ checks' = checks /\ visits' = visits
  BY DEF SubmitAttempt
<1>3. SubmissionInv /\ s \in SubmissionType
  BY DEF QuizInv, SubmissionInv
<1> DEFINE n == [s EXCEPT !.stage = stage, !.attempt = Len(attempts) + 1]
<1>4. Len(attempts) \in Nat
  BY <1>3 DEF SubmissionInv
<1>5. /\ n \in SubmissionType /\ n.visit = s.visit /\ n.heard = s.heard
      /\ n.stage = stage /\ n.attempt = Len(attempts) + 1 /\ n.mode = s.mode
  <2>1. stage \in SubmissionStage /\ Len(attempts) + 1 \in Nat
    BY <1>1, <1>4 DEF SubmissionStage
  <2>2. n \in SubmissionType
    BY <1>3, <2>1 DEF SubmissionType
  <2> QED BY <1>3, <2>2 DEF SubmissionType
<1>6. submissions' = (submissions \ {s}) \cup {n}
  BY <1>1
<1> HIDE DEF n
<1>7. /\ attempts' \in Seq(AttemptType)
      /\ Len(attempts') \in Nat /\ Len(attempts) <= Len(attempts')
      /\ \A i \in DOMAIN attempts : i \in DOMAIN attempts' /\ attempts'[i] = attempts[i]
      /\ stored => /\ Len(attempts') = Len(attempts) + 1
                   /\ attempts'[Len(attempts) + 1].mode = s.mode
  <2>1. CASE ~stored
    BY <1>1, <1>3, <1>4, <2>1 DEF SubmissionInv
  <2>2. CASE stored
    <3>1. GradeAttempt(s.answers, s.mode) \in AttemptType /\ GradeAttempt(s.answers, s.mode).mode = s.mode
      <4> DEFINE Right == {q \in Questions : s.answers[q] = Key[q]}
      <4>1. IsFiniteSet(Questions)
        BY FS_Interval, QuizAssumption DEF Questions
      <4>2. IsFiniteSet(Right)
        BY <4>1, FS_Subset
      <4>3. Cardinality(Right) \in Nat
        BY <4>2, FS_CardinalityType
      <4> QED BY <1>3, <4>3 DEF GradeAttempt, SubmissionType, AttemptType
    <3>2. attempts' = Append(attempts, GradeAttempt(s.answers, s.mode))
      BY <1>1, <2>2 DEF PostAttempt
    <3> QED BY <1>3, <1>4, <3>1, <3>2 DEF SubmissionInv
  <2> QED BY <2>1, <2>2
<1>8. PlayInv'
  <2>1. PlayInv
    BY DEF QuizInv
  <2> QED BY <1>2, <2>1 DEF PlayInv, Rendered, Checked, Awaited
<1>9. PushInv'
  BY <1>2, <1>4, <1>7, PushKept
<1>10. StoreInv'
  BY <1>2, <1>7, <1>9, StoreKept DEF QuizInv
<1>11. SubmissionInv'
  <2>1. IsFiniteSet(submissions)'
    <3>1. IsFiniteSet(submissions)
      BY <1>3 DEF SubmissionInv
    <3>2. IsFiniteSet(submissions \ {s})
      BY <3>1, FS_RemoveElement
    <3> QED BY <1>6, <3>2, FS_AddElement
  <2>2. submissions' \subseteq SubmissionType
    BY <1>3, <1>5, <1>6 DEF SubmissionInv
  <2>3. s.visit <= visits
    BY <1>3 DEF SubmissionInv
  <2>4. \A t \in submissions' :
          /\ t.visit <= visits'
          /\ t.stage = "stored" => /\ t.attempt \in 1..Len(attempts')
                                   /\ attempts'[t.attempt].mode = t.mode
    <3> SUFFICES ASSUME NEW t \in submissions'
                 PROVE  /\ t.visit <= visits'
                        /\ t.stage = "stored" => /\ t.attempt \in 1..Len(attempts')
                                                 /\ attempts'[t.attempt].mode = t.mode
      OBVIOUS
    <3>1. CASE t = n
      BY <1>1, <1>2, <1>4, <1>5, <1>7, <2>3, <3>1
    <3>2. CASE t \in submissions
      <4>1. /\ t.visit <= visits
            /\ t.stage = "stored" => /\ t.attempt \in 1..Len(attempts)
                                     /\ attempts[t.attempt].mode = t.mode
        BY <1>3, <3>2 DEF SubmissionInv
      <4>2. DOMAIN attempts = 1..Len(attempts)
        BY <1>3 DEF SubmissionInv
      <4> QED BY <1>2, <1>4, <1>7, <4>1, <4>2
    <3> QED BY <1>6, <3>1, <3>2
  <2>5. \A t \in submissions' : t.heard /\ t.visit = visits =>
          \E u \in submissions : /\ u.heard /\ u.visit = visits
                                 /\ t = IF u = s THEN n ELSE u
    BY <1>5, <1>6
  <2>6. \A t, u \in submissions :
          (t.heard /\ t.visit = visits) /\ (u.heard /\ u.visit = visits) => t = u
    BY <1>3 DEF SubmissionInv, Current
  <2>7. \A t, u \in submissions' :
          (t.heard /\ t.visit = visits) /\ (u.heard /\ u.visit = visits) => t = u
    BY <2>5, <2>6
  <2>8. (\E t \in submissions' : t.heard /\ t.visit = visits)
           <=> (\E t \in submissions : t.heard /\ t.visit = visits)
    BY <1>5, <1>6
  <2> QED BY <1>2, <1>3, <1>7, <2>1, <2>2, <2>4, <2>7, <2>8 DEF SubmissionInv, Current
<1> QED BY <1>8, <1>9, <1>10, <1>11 DEF QuizInv

\* The rest of handleSubmit: the draft of a stored attempt is cleared and its result
\* pushed; an answer that reaches another screen does not touch that screen.
LEMMA ReturnKeeps ==
  ASSUME QuizInv, PushInv, docs' = docs, NEW s \in submissions, SubmissionReturns(s)
  PROVE  QuizInv' /\ PushInv'
<1>1. /\ page' = page /\ submissions' = submissions \ {s} /\ s.stage # "sent"
      /\ start' = start /\ storage' = storage /\ checks' = checks /\ attempts' = attempts
      /\ visits' = visits
  BY DEF SubmissionReturns
<1>2. SubmissionInv /\ s \in SubmissionType
  BY DEF QuizInv, SubmissionInv
<1>3. /\ \/ play' = play
         \/ page = "play" /\ s.heard /\ s.visit = visits
            /\ \E error \in BOOLEAN :
                 play' = [play EXCEPT !.submitting = FALSE, !.error = error]
      /\ page = "play" /\ s.heard /\ s.visit = visits => ~play'.submitting
  <2>1. page = "play" => play \in ScreenType
    BY DEF QuizInv, PlayInv
  <2> DEFINE quiet == [play EXCEPT !.submitting = FALSE]
             failed == [play EXCEPT !.submitting = FALSE, !.error = TRUE]
  <2>2. \/ play' = play /\ ~(page = "play" /\ s.heard /\ s.visit = visits)
        \/ page = "play" /\ s.heard /\ s.visit = visits /\ (play' = quiet \/ play' = failed)
    BY DEF SubmissionReturns
  <2>3. page = "play" => /\ quiet = [play EXCEPT !.submitting = FALSE, !.error = play.error]
                         /\ play.error \in BOOLEAN
                         /\ ~quiet.submitting /\ ~failed.submitting
    BY <2>1 DEF ScreenType
  <2> HIDE DEF quiet
  <2> QED BY <2>2, <2>3
<1>4. \/ drafts' = drafts /\ pushing' = pushing
      \/ /\ s.stage = "stored" /\ drafts' = [drafts EXCEPT ![s.mode] = NoDraft]
         /\ pushing' = [to |-> "result", id |-> s.attempt]
  BY DEF SubmissionReturns, Push
<1>5. page = "play" =>
        /\ play \in ScreenType /\ play' \in ScreenType
        /\ play'.mode = play.mode /\ play'.state = play.state
        /\ play'.ref = play.ref /\ play'.dirty = play.dirty
        /\ play'.feedback = play.feedback /\ play'.requests = play.requests
        /\ ~(s.heard /\ s.visit = visits) => play'.submitting = play.submitting
  <2> SUFFICES ASSUME page = "play"
               PROVE  /\ play \in ScreenType /\ play' \in ScreenType
                      /\ play'.mode = play.mode /\ play'.state = play.state
                      /\ play'.ref = play.ref /\ play'.dirty = play.dirty
                      /\ play'.feedback = play.feedback /\ play'.requests = play.requests
                      /\ ~(s.heard /\ s.visit = visits) => play'.submitting = play.submitting
    OBVIOUS
  <2>1. play \in ScreenType
    BY DEF QuizInv, PlayInv
  <2>2. CASE play' = play
    BY <2>1, <2>2
  <2>3. CASE play' # play
    <3>1. PICK error \in BOOLEAN : play' = [play EXCEPT !.submitting = FALSE, !.error = error]
      BY <1>3, <2>3
    <3>2. s.heard /\ s.visit = visits
      BY <1>3, <2>3
    <3> QED BY <2>1, <3>1, <3>2 DEF ScreenType
  <2> QED BY <2>2, <2>3
<1>6. PlayInv'
  <2>1. CASE page = "play"
    BY <1>1, <1>5, <2>1, PlayKept DEF QuizInv
  <2>2. CASE page # "play"
    <3>1. play' = play
      BY <1>3, <2>2
    <3> QED BY <1>1, <2>2, <3>1 DEF QuizInv, PlayInv
  <2> QED BY <2>1, <2>2
<1>7. PushInv'
  <2>1. s.stage = "stored" => s.attempt \in 1..Len(attempts)
    BY <1>2 DEF SubmissionInv
  <2> QED BY <1>1, <1>4, <2>1 DEF PushInv
<1>8. StoreInv'
  <2>1. StoreInv /\ SessionIsSaved
    BY DEF QuizInv, StoreInv
  <2>2. CASE drafts' = drafts /\ pushing' = pushing
    BY <1>1, <1>5, <1>7, <2>1, <2>2, StoreKept
  <2>3. CASE /\ s.stage = "stored" /\ drafts' = [drafts EXCEPT ![s.mode] = NoDraft]
             /\ pushing' = [to |-> "result", id |-> s.attempt]
    <3>1. s.mode \in Modes /\ drafts' \in [Modes -> Drafts \cup {NoDraft}]
      BY <1>2, <2>1, <2>3 DEF SubmissionType, StoreInv
    <3>2. s.attempt \in DOMAIN attempts /\ attempts[s.attempt].mode = s.mode
      <4>1. /\ s.attempt \in 1..Len(attempts) /\ attempts[s.attempt].mode = s.mode
            /\ attempts \in Seq(AttemptType)
        BY <1>2, <2>3 DEF SubmissionInv
      <4> QED BY <4>1
    <3>3. pushing' # NoPush
      BY <2>3 DEF NoPush
    <3>4. SessionIsSaved'
      <4> SUFFICES ASSUME page = "play", storage, ~play.dirty
                   PROVE  \/ drafts'[play.mode] = play.state
                          \/ /\ drafts'[play.mode] = NoDraft
                             /\ pushing' # NoPush
                             /\ \E i \in DOMAIN attempts : attempts[i].mode = play.mode
        BY <1>1, <1>5 DEF SessionIsSaved
      <4>1. play.mode \in Modes
        BY <1>5 DEF ScreenType
      <4>2. CASE play.mode = s.mode
        <5>1. drafts'[play.mode] = NoDraft
          BY <2>1, <2>3, <4>1, <4>2 DEF StoreInv
        <5> QED BY <3>2, <3>3, <4>2, <5>1
      <4>3. CASE play.mode # s.mode
        <5>1. drafts'[play.mode] = drafts[play.mode]
          BY <2>1, <2>3, <4>1, <4>3 DEF StoreInv
        <5> QED BY <2>1, <3>3, <5>1 DEF SessionIsSaved
      <4> QED BY <4>2, <4>3
    <3> QED BY <1>1, <2>1, <3>1, <3>4 DEF StoreInv
  <2> QED BY <1>4, <2>2, <2>3
<1>9. SubmissionInv'
  <2>1. IsFiniteSet(submissions)'
    <3>1. IsFiniteSet(submissions)
      BY <1>2 DEF SubmissionInv
    <3> QED BY <1>1, <3>1, FS_RemoveElement
  <2>2. \A t, u \in submissions' :
          (t.heard /\ t.visit = visits) /\ (u.heard /\ u.visit = visits) => t = u
    BY <1>1, <1>2 DEF SubmissionInv, Current
  <2>3. page = "play" =>
          (play'.submitting <=> \E t \in submissions' : t.heard /\ t.visit = visits)
    <3>1. page = "play" =>
            (play.submitting <=> \E t \in submissions : t.heard /\ t.visit = visits)
      BY <1>2 DEF SubmissionInv, Current
    <3>2. CASE s.heard /\ s.visit = visits
      <4>1. \A t \in submissions' : ~(t.heard /\ t.visit = visits)
        BY <1>1, <1>2, <3>2 DEF SubmissionInv, Current
      <4> QED BY <1>3, <3>2, <4>1
    <3>3. CASE ~(s.heard /\ s.visit = visits)
      <4>1. (\E t \in submissions' : t.heard /\ t.visit = visits)
              <=> (\E t \in submissions : t.heard /\ t.visit = visits)
        BY <1>1, <3>3
      <4> QED BY <1>5, <3>1, <3>3, <4>1
    <3> QED BY <3>2, <3>3
  <2> QED BY <1>1, <1>2, <2>1, <2>2, <2>3 DEF SubmissionInv, Current
<1> QED BY <1>6, <1>7, <1>8, <1>9 DEF QuizInv

(***************************************************************************)
(* Pages of the quiz                                                       *)
(***************************************************************************)

\* What unmounting writes is what is shown, or nothing.
LEMMA LeftTyped ==
  ASSUME QuizInv
  PROVE  LeftDrafts \in [Modes -> Drafts \cup {NoDraft}]
<1>1. StoreInv /\ drafts \in [Modes -> Drafts \cup {NoDraft}]
  BY DEF QuizInv, StoreInv
<1>2. ASSUME page = "play"
      PROVE  StoredAs(play.mode, play.state) \in [Modes -> Drafts \cup {NoDraft}]
  <2>1. play.mode \in Modes /\ play.state \in Drafts
    BY <1>2 DEF QuizInv, PlayInv, ScreenType
  <2> QED BY <1>1, <2>1, StoredDrafts
<1> QED BY <1>1, <1>2 DEF LeftDrafts

\* A link to, or a push of, a page that is no quiz screen.
LEMMA QuizLeftKeeps ==
  ASSUME QuizInv, NEW next, Show(next), next \notin {"start", "play"}, QuizLeft,
         UNCHANGED <<storage, submissions, attempts, visits>>
  PROVE  QuizInv' /\ PushInv'
<1>1. page' = next /\ pushing' = NoPush
  BY DEF Show
<1>2. play' = NoPlay /\ checks' = {} /\ drafts' = LeftDrafts
  BY DEF QuizLeft
<1>3. PlayInv'
  BY <1>1, <1>2 DEF PlayInv
<1>4. StoreInv'
  BY <1>1, <1>2, LeftTyped, StoreLeft DEF QuizInv
<1>5. SubmissionInv'
  BY <1>1, SubmissionKept DEF QuizInv
<1>6. PushInv'
  BY <1>1 DEF PushInv, NoPush
<1> QED BY <1>3, <1>4, <1>5, <1>6 DEF QuizInv

\* A page without a quiz gives way to another.
LEMMA QuizStays ==
  ASSUME QuizInv, page # "play", page' \notin {"start", "play"}, pushing' = NoPush,
         UNCHANGED quizVars
  PROVE  QuizInv' /\ PushInv'
<1>1. /\ play' = play /\ checks' = checks /\ drafts' = drafts /\ storage' = storage
      /\ submissions' = submissions /\ attempts' = attempts /\ visits' = visits
  BY DEF quizVars
<1>2. PlayInv'
  BY <1>1 DEF QuizInv, PlayInv
<1>3. StoreInv'
  BY <1>1, StoreLeft DEF QuizInv, StoreInv
<1>4. SubmissionInv'
  BY <1>1, SubmissionKept DEF QuizInv
<1>5. PushInv'
  BY DEF PushInv, NoPush
<1> QED BY <1>2, <1>3, <1>4, <1>5 DEF QuizInv

\* The start screen, from a link or loaded when the learner has left.
LEMMA OpenStartKeeps ==
  ASSUME QuizInv, OpenStart, UNCHANGED <<storage, attempts, visits>>,
         submissions' = submissions \/ ContextLost
  PROVE  QuizInv' /\ PushInv' /\ page' = "start"
<1>1. page' = "start" /\ pushing' = NoPush
  BY DEF OpenStart, Show
<1>2. play' = NoPlay /\ checks' = {} /\ drafts' = LeftDrafts
  BY DEF OpenStart
<1>3. start' \in [mode: Modes, offered: SUBSET Modes]
  <2>1. start' = [mode |-> "practice", offered |-> {m \in Modes : drafts'[m] # NoDraft}]
    BY DEF OpenStart, StartScreen
  <2> QED BY <2>1 DEF Modes
<1>4. PlayInv'
  BY <1>1, <1>2, <1>3 DEF PlayInv
<1>5. StoreInv'
  BY <1>1, <1>2, LeftTyped, StoreLeft DEF QuizInv
<1>6. SubmissionInv'
  BY <1>1, SubmissionKept, SubmissionLost DEF QuizInv
<1>7. PushInv'
  BY <1>1 DEF PushInv, NoPush
<1> QED BY <1>1, <1>4, <1>5, <1>6, <1>7 DEF QuizInv

\* The play screen loads again: no handler of the old one is left.
LEMMA ReloadPlayKeeps ==
  ASSUME QuizInv, PushInv, ReloadPlay
  PROVE  QuizInv' /\ PushInv' /\ page' = "play"
<1> DEFINE saved == StoredAs(play.mode, play.ref)[play.mode]
           draft == IF play.resume THEN SanitizeDraft(saved) ELSE EmptyDraft
<1>1. /\ page = "play" /\ page' = "play" /\ pushing' = NoPush /\ visits' = visits + 1
      /\ play' = PlayScreen(play.mode, play.resume, draft)
      /\ WriteDraft(play.mode, draft) /\ checks' = {} /\ ContextLost
      /\ storage' = storage /\ attempts' = attempts
  BY DEF ReloadPlay, Show
<1>2. play.mode \in Modes /\ play.resume \in BOOLEAN /\ play.ref \in Drafts
  BY <1>1 DEF QuizInv, PlayInv, ScreenType
<1>3. draft \in Drafts
  <2>1. saved \in Drafts \cup {NoDraft}
    <3>1. StoredAs(play.mode, play.ref) \in [Modes -> Drafts \cup {NoDraft}]
      BY <1>2, StoredDrafts DEF QuizInv
    <3> QED BY <1>2, <3>1
  <2> HIDE DEF saved
  <2> QED BY <2>1, SanitizedDraft, QuizConstants
<1> HIDE DEF draft
<1>4. /\ play' \in ScreenType /\ Rendered(play') /\ Checked(play', {})
      /\ play'.mode = play.mode /\ play'.state = draft /\ ~play'.submitting
  BY <1>1, <1>2, <1>3, FreshScreen
<1>5. PlayInv'
  <2>1. Rendered(play)' /\ Checked(play, checks)'
    BY <1>1, <1>4 DEF Rendered, Checked, Awaited
  <2> QED BY <1>1, <1>4, <2>1 DEF PlayInv
<1>6. PushInv'
  BY <1>1 DEF PushInv, NoPush
<1>7. StoreInv'
  BY <1>1, <1>2, <1>3, <1>4, StoreWritten DEF QuizInv
<1>8. SubmissionInv'
  BY <1>1, <1>4, SubmissionOpened DEF QuizInv
<1> QED BY <1>1, <1>5, <1>6, <1>7, <1>8 DEF QuizInv

\* Every step of the quiz screens; none but opening a play screen changes the page.
LEMMA QuizStepKeeps ==
  ASSUME QuizInv, PushInv, docs' = docs, QuizStep
  PROVE  QuizInv' /\ PushInv' /\ (page' = page \/ (page = "start" /\ page' = "play"))
<1>1. CASE \E m \in Modes : SelectMode(m)
  BY <1>1, SelectModeKeeps DEF SelectMode
<1>2. CASE HandleResetDraft
  BY <1>2, ResetDraftKeeps DEF HandleResetDraft
<1>3. CASE StartQuiz
  BY <1>3, OpenPlayKeeps DEF StartQuiz
<1>4. CASE ResumeQuiz
  BY <1>4, OpenPlayKeeps DEF ResumeQuiz
<1>5. CASE \E o \in Options : SelectOption(o)
  BY <1>5, SelectOptionKeeps DEF SelectOption
<1>6. CASE OpenLeaveDialog \/ CloseLeaveDialog
  BY <1>6, DialogKeeps DEF OpenLeaveDialog, CloseLeaveDialog
<1>7. CASE ToggleFlag \/ SubmitIncomplete \/ \E q \in Questions : MoveToQuestion(q)
  BY <1>7, MoveKeeps DEF ToggleFlag, SubmitIncomplete, MoveToQuestion
<1>8. CASE HandleCheckAnswer
  BY <1>8, CheckAnswerKeeps DEF HandleCheckAnswer
<1>9. CASE HandleSubmit
  BY <1>9, SubmitKeeps DEF HandleSubmit
<1>10. CASE LeaveQuiz \/ HandlePopState \/ StayOnPage
  BY <1>10, LeavingKeeps DEF LeaveQuiz, HandlePopState, StayOnPage
<1>11. CASE Tick
  BY <1>11, TickKeeps DEF Tick
<1>12. CASE FlushEffects
  BY <1>12, FlushKeeps DEF FlushEffects
<1>13. CASE \E c \in checks : CheckReturns(c)
  BY <1>13, CheckReturnsKeeps DEF CheckReturns
<1>14. CASE \E s \in submissions : SubmitAttempt(s)
  BY <1>14, AttemptKeeps DEF SubmitAttempt
<1>15. CASE \E s \in submissions : SubmissionReturns(s)
  BY <1>15, ReturnKeeps DEF SubmissionReturns
<1>16. \/ \E m \in Modes : SelectMode(m)
       \/ HandleResetDraft \/ StartQuiz \/ ResumeQuiz
       \/ \E o \in Options : SelectOption(o)
       \/ OpenLeaveDialog \/ ToggleFlag \/ HandleCheckAnswer \/ SubmitIncomplete \/ HandleSubmit
       \/ \E q \in Questions : MoveToQuestion(q)
       \/ CloseLeaveDialog \/ LeaveQuiz
       \/ Tick \/ FlushEffects \/ HandlePopState \/ StayOnPage
       \/ \E c \in checks : CheckReturns(c)
       \/ \E s \in submissions : SubmitAttempt(s)
       \/ \E s \in submissions : SubmissionReturns(s)
  BY DEF QuizStep, QuizStartScreen, QuizQuestionCard, QuizActionBar, QuizPalette,
         QuizLeaveDialog, QuizCalls
<1> QED BY <1>1, <1>2, <1>3, <1>4, <1>5, <1>6, <1>7, <1>8, <1>9, <1>10, <1>11, <1>12,
           <1>13, <1>14, <1>15, <1>16

(***************************************************************************)
(* Documents                                                               *)
(***************************************************************************)

\* What may happen to a row r, now n, that the processing screen has no part in.
SameRow(r, n) == n.status = r.status /\ n.events = r.events /\ n.by = r.by
ConfirmedElsewhere(r, n) ==
    /\ r.status \in {"UPLOADED", "FAILED"} /\ n.status = "PROCESSING"
    /\ n.events = r.events + 1 /\ n.by = "elsewhere"
Ended(r, n) ==
    /\ r.status = "PROCESSING" /\ n.status \in Terminal
    /\ n.events = r.events /\ n.by = r.by
RowStep(r, n) == SameRow(r, n) \/ ConfirmedElsewhere(r, n) \/ Ended(r, n)

DocsStep ==
    /\ RowsInv'
    /\ DOMAIN docs \subseteq DOMAIN docs'
    /\ \A d \in DOMAIN docs : RowStep(docs[d], docs'[d])

\* None of them makes the processing screen untrue.
LEMMA FollowedKept ==
  ASSUME NEW w, NEW r \in RowType, NEW n \in RowType, Ordered(r), RowStep(r, n), Followed(w, r)
  PROVE  Followed(w, n)
<1>1. ASSUME NEW status, Final(w, r, status)
      PROVE  Final(w, n, status)
  <2>1. status \in Terminal
    BY <1>1 DEF Final
  <2>2. CASE SameRow(r, n)
    BY <1>1, <2>2 DEF Final, SameRow
  <2>3. CASE ConfirmedElsewhere(r, n)
    <3>1. CASE r.status = "UPLOADED"
      <4>1. r.events = 0
        BY <3>1 DEF Ordered
      <4> QED BY <1>1, <2>1, <3>1, <4>1 DEF Final, Terminal
    <3>2. CASE r.status = "FAILED"
      <4>1. r.events > 0 /\ r.events \in Nat
        BY <3>2 DEF Ordered, RowType
      <4>2. n.events > 1 /\ n.by = "elsewhere"
        BY <2>3, <4>1 DEF ConfirmedElsewhere
      <4> QED BY <2>1, <4>2 DEF Final
    <3> QED BY <2>3, <3>1, <3>2 DEF ConfirmedElsewhere
  <2>4. CASE Ended(r, n)
    <3>1. status # r.status
      BY <2>1, <2>4 DEF Ended, Terminal
    <3> QED BY <1>1, <2>4, <3>1 DEF Final, Ended
  <2> QED BY <2>2, <2>3, <2>4 DEF RowStep
<1> QED BY <1>1 DEF Followed

\* One row is replaced.
LEMMA RowChanged ==
  ASSUME RowsInv, NEW d \in DOMAIN docs, NEW n \in RowType, Ordered(n),
         docs' = [docs EXCEPT ![d] = n]
  PROVE  /\ RowsInv' /\ DOMAIN docs' = DOMAIN docs /\ docs'[d] = n
         /\ \A e \in DOMAIN docs \ {d} : docs'[e] = docs[e]
<1>1. docs \in Seq(RowType) /\ \A e \in DOMAIN docs : Ordered(docs[e])
  BY DEF RowsInv
<1>2. docs' \in Seq(RowType) /\ DOMAIN docs' = DOMAIN docs
  BY <1>1
<1>3. docs'[d] = n /\ \A e \in DOMAIN docs \ {d} : docs'[e] = docs[e]
  BY <1>1
<1>4. \A e \in DOMAIN docs' : Ordered(docs'[e])
  BY <1>1, <1>2, <1>3
<1> QED BY <1>2, <1>3, <1>4 DEF RowsInv, Ordered

\* One row takes a step.
LEMMA RowSteps ==
  ASSUME RowsInv, NEW d \in DOMAIN docs, NEW n \in RowType, Ordered(n), RowStep(docs[d], n),
         docs' = [docs EXCEPT ![d] = n]
  PROVE  DocsStep
<1>1. \A e \in DOMAIN docs : RowStep(docs[e], docs'[e])
  BY RowChanged DEF RowStep, SameRow
<1> QED BY <1>1, RowChanged DEF DocsStep

\* Rows that do not change make a (stuttering) step of the documents.
LEMMA RowsKept ==
  ASSUME RowsInv, docs' = docs
  PROVE  DocsStep
BY DEF RowsInv, DocsStep, RowStep, SameRow

\* The row of a document is typed and ordered.
LEMMA RowTyped ==
  ASSUME RowsInv, NEW d \in DOMAIN docs
  PROVE  docs[d] \in RowType /\ Ordered(docs[d])
BY DEF RowsInv

\* confirmProcessing: work is ordered once more, from UPLOADED or after a failure.
LEMMA ConfirmedRow ==
  ASSUME RowsInv, NEW d \in DOMAIN docs, NEW by \in {"here", "elsewhere"},
         docs[d].stored, docs' = ConfirmProcessing(d, by)
  PROVE  /\ RowsInv' /\ DOMAIN docs' = DOMAIN docs
         /\ by = "elsewhere" => DocsStep
         /\ \A e \in DOMAIN docs \ {d} : docs'[e] = docs[e]
<1>1. docs[d] \in RowType /\ Ordered(docs[d])
  BY RowTyped
<1>2. CASE docs[d].status \notin {"UPLOADED", "FAILED"}
  <2>1. docs' = docs
    BY <1>2 DEF ConfirmProcessing
  <2> QED BY <2>1, RowsKept DEF RowsInv
<1>3. CASE docs[d].status \in {"UPLOADED", "FAILED"}
  <2> DEFINE n == [docs[d] EXCEPT !.status = "PROCESSING", !.events = @ + 1, !.by = by]
  <2>1. n \in RowType
    <3>1. docs[d].events + 1 \in Nat /\ "PROCESSING" \in DocumentStatus
          /\ by \in {"none", "here", "elsewhere"}
      BY <1>1 DEF RowType, DocumentStatus
    <3> QED BY <1>1, <3>1 DEF RowType
  <2>2. /\ n.status = "PROCESSING" /\ n.events = docs[d].events + 1 /\ n.by = by
        /\ n.stored = docs[d].stored /\ n.failures = docs[d].failures
    BY <1>1 DEF RowType
  <2>3. docs' = [docs EXCEPT ![d] = n]
    BY <1>3 DEF ConfirmProcessing
  <2> HIDE DEF n
  <2>4. Ordered(n)
    <3>1. docs[d].events \in Nat /\ docs[d].failures \in Nat
      BY <1>1 DEF RowType
    <3>2. docs[d].events <= docs[d].failures
      BY <1>1, <1>3, <3>1 DEF Ordered
    <3> QED BY <2>2, <3>1, <3>2 DEF Ordered
  <2>5. by = "elsewhere" => RowStep(docs[d], n)
    BY <1>3, <2>2 DEF RowStep, ConfirmedElsewhere
  <2> QED BY <2>1, <2>3, <2>4, <2>5, RowChanged, RowSteps
<1> QED BY <1>2, <1>3

\* What the call of a flow does to the documents.
LEMMA ServerKeeps ==
  ASSUME RowsInv, FlowInv, NEW f \in flows, docs' = docs \/ docs' = ServerEffect(f)
  PROVE  DocsStep
<1>1. CASE docs' = docs
  BY <1>1, RowsKept
<1>2. ASSUME docs' = ServerEffect(f), f.stage = "create"
      PROVE  DocsStep
  <2>1. NewDocument \in RowType /\ Ordered(NewDocument)
    BY DEF NewDocument, RowType, Ordered, DocumentStatus
  <2>2. docs' = Append(docs, NewDocument)
    BY <1>2 DEF ServerEffect, CreateUploadUrl
  <2> HIDE DEF NewDocument
  <2>3. docs \in Seq(RowType)
    BY DEF RowsInv
  <2>4. /\ docs' \in Seq(RowType) /\ DOMAIN docs' = DOMAIN docs \cup {Len(docs) + 1}
        /\ \A d \in DOMAIN docs : docs'[d] = docs[d]
        /\ docs'[Len(docs) + 1] = NewDocument
    BY <2>1, <2>2, <2>3
  <2>5. \A d \in DOMAIN docs' : Ordered(docs'[d])
    BY <2>1, <2>4 DEF RowsInv
  <2>6. RowsInv'
    BY <2>4, <2>5 DEF RowsInv, Ordered
  <2> QED BY <2>4, <2>6 DEF DocsStep, RowStep, SameRow
<1>3. ASSUME docs' = ServerEffect(f), f.stage = "upload"
      PROVE  DocsStep
  <2> DEFINE d == f.doc
             n == [docs[d] EXCEPT !.stored = TRUE]
  <2>1. d \in DOMAIN docs
    BY <1>3 DEF FlowInv
  <2>2. docs[d] \in RowType /\ Ordered(docs[d])
    BY <2>1, RowTyped
  <2>3. docs' = [docs EXCEPT ![d] = n]
    BY <1>3 DEF ServerEffect
  <2>4. n \in RowType /\ Ordered(n) /\ RowStep(docs[d], n)
    BY <2>2 DEF RowType, Ordered, RowStep, SameRow
  <2> QED BY <2>1, <2>3, <2>4, RowSteps
<1>4. ASSUME docs' = ServerEffect(f), f.stage = "confirm"
      PROVE  DocsStep
  <2>1. f.doc \in DOMAIN docs
    BY <1>4 DEF FlowInv
  <2>2. \/ docs' = docs
        \/ docs[f.doc].stored /\ docs' = ConfirmProcessing(f.doc, "elsewhere")
    <3>1. ServerEffect(f) = ConfirmDocument(f.doc, "elsewhere")
      BY <1>4 DEF ServerEffect
    <3> QED BY <1>4, <3>1 DEF ConfirmDocument
  <2> QED BY <2>1, <2>2, RowsKept, ConfirmedRow
<1> QED BY <1>1, <1>2, <1>3, <1>4 DEF FlowInv

(***************************************************************************)
(* What the steps of the document screens leave alone                      *)
(***************************************************************************)

\* The processing screen while documents go on.
LEMMA WatchKept ==
  ASSUME RowsInv, WatchInv, DocsStep, page' = page, watch' = watch
  PROVE  WatchInv'
<1>1. CASE page # "processing"
  BY <1>1 DEF WatchInv
<1>2. CASE page = "processing"
  <2>1. watch \in WatchType /\ Followed(watch, docs[watch.doc])
    BY <1>2 DEF WatchInv
  <2>2. watch.doc \in DOMAIN docs /\ watch.doc \in DOMAIN docs'
    BY <2>1 DEF WatchType, DocsStep
  <2>3. watch \in WatchType'
    BY <2>1, <2>2 DEF WatchType
  <2>4. docs[watch.doc] \in RowType /\ Ordered(docs[watch.doc]) /\ docs'[watch.doc] \in RowType
    BY <2>2 DEF RowsInv, DocsStep
  <2>5. Followed(watch, docs'[watch.doc])
    BY <2>1, <2>2, <2>4, FollowedKept DEF DocsStep
  <2>6. Followed(watch, docs[watch.doc])'
    BY <2>5 DEF Followed, Final
  <2> QED BY <1>2, <2>3, <2>6 DEF WatchInv
<1> QED BY <1>1, <1>2

\* Flows under way stay true while rows are only added and the page stays.
LEMMA FlowsKept ==
  ASSUME FlowInv, flows' = flows, DOMAIN docs \subseteq DOMAIN docs', page' = page
  PROVE  FlowInv'
BY DEF FlowInv

\* The upload workspace while other screens are shown, or calls of others return.
LEMMA UploadKept ==
  ASSUME UploadInv, upload' = upload, estimates' = estimates, page' = page,
         DOMAIN docs \subseteq DOMAIN docs',
         \A f \in flows : f.life = "mounted" => \E g \in flows' : g.life = "mounted"
  PROVE  UploadInv'
<1>1. upload \in UploadType => upload \in UploadType'
  BY DEF UploadType
<1>2. Estimated(upload, estimates) => Estimated(upload, estimates)'
  BY DEF Estimated, Stranded, Complete
<1> QED BY <1>1, <1>2 DEF UploadInv

\* Calls under way when their page goes away.
LEMMA FlowsLeft ==
  ASSUME RowsInv, FlowInv, WatchInv, DOMAIN docs' = DOMAIN docs,
         flows' = Unmounted \/ FlowsKilled
  PROVE  FlowInv' /\ \A f \in flows' : f.life # "mounted"
<1>1. \A f \in LeftBehind :
        /\ f = [id |-> f.id, stage |-> f.stage, doc |-> f.doc, life |-> f.life]
        /\ f.stage = "confirm" /\ f.doc \in DOMAIN docs /\ f.life = "dead"
  <2>1. watch.doc # 0 => watch.doc \in DOMAIN docs
    BY DEF WatchInv, WatchType, NoWatch
  <2> QED BY <2>1 DEF LeftBehind
<1>2. \A f \in flows, life \in {"unmounted", "dead"} :
        LET g == [f EXCEPT !.life = life]
        IN  /\ g = [id |-> g.id, stage |-> g.stage, doc |-> g.doc, life |-> g.life]
            /\ g.stage = f.stage /\ g.doc = f.doc /\ g.life = life
  <2> SUFFICES ASSUME NEW f \in flows, NEW life \in {"unmounted", "dead"}
               PROVE  LET g == [f EXCEPT !.life = life]
                      IN  /\ g = [id |-> g.id, stage |-> g.stage, doc |-> g.doc, life |-> g.life]
                          /\ g.stage = f.stage /\ g.doc = f.doc /\ g.life = life
    OBVIOUS
  <2>1. f = [id |-> f.id, stage |-> f.stage, doc |-> f.doc, life |-> f.life]
    BY DEF FlowInv
  <2> QED BY <2>1
<1>3. \A g \in flows' :
        \/ g \in LeftBehind
        \/ g \in flows /\ g.life # "mounted"
        \/ \E f \in flows, life \in {"unmounted", "dead"} : g = [f EXCEPT !.life = life]
  BY DEF Unmounted, FlowsKilled
<1>4. \A g \in flows' :
        /\ g = [id |-> g.id, stage |-> g.stage, doc |-> g.doc, life |-> g.life]
        /\ g.stage \in {"create", "upload", "confirm"}
        /\ g.stage # "create" => g.doc \in DOMAIN docs
        /\ g.life \in {"unmounted", "dead"}
  <2> SUFFICES ASSUME NEW g \in flows'
               PROVE  /\ g = [id |-> g.id, stage |-> g.stage, doc |-> g.doc, life |-> g.life]
                      /\ g.stage \in {"create", "upload", "confirm"}
                      /\ g.stage # "create" => g.doc \in DOMAIN docs
                      /\ g.life \in {"unmounted", "dead"}
    OBVIOUS
  <2>1. CASE g \in LeftBehind
    BY <1>1, <2>1
  <2>2. CASE g \in flows /\ g.life # "mounted"
    BY <2>2 DEF FlowInv
  <2>3. CASE \E f \in flows, life \in {"unmounted", "dead"} : g = [f EXCEPT !.life = life]
    <3>1. PICK f \in flows, life \in {"unmounted", "dead"} : g = [f EXCEPT !.life = life]
      BY <2>3
    <3> QED BY <1>2, <3>1 DEF FlowInv
  <2> QED BY <1>3, <2>1, <2>2, <2>3
<1> QED BY <1>4 DEF FlowInv

\* A page is opened, or loaded again: nothing of it is under way yet.
LEMMA DocumentPage ==
  ASSUME DocumentInv, docs' = docs, flows' = Unmounted \/ FlowsKilled,
         page' = "upload" => upload' = EmptyUpload /\ estimates' = {},
         page' = "processing" => \E d \in DOMAIN docs : watch' = Watching(d),
         page' # "processing" => watch' = NoWatch
  PROVE  DocumentInv'
<1>1. RowsInv'
  BY DEF DocumentInv, RowsInv
<1>2. FlowInv' /\ \A f \in flows' : f.life # "mounted"
  BY FlowsLeft DEF DocumentInv
<1>3. UploadInv'
  <2>1. EmptyUpload \in UploadType' /\ Estimated(EmptyUpload, {})
    BY DEF EmptyUpload, UploadType, ChoiceType, NoSelection, Estimated, Steps
  <2>2. EmptyUpload.step \notin InProgress
    BY DEF EmptyUpload, InProgress
  <2>3. page' = "upload" => Estimated(upload, estimates)'
    BY <2>1 DEF Estimated, Stranded, Complete
  <2> QED BY <2>1, <2>2, <2>3 DEF UploadInv
<1>4. WatchInv'
  <2>1. ASSUME NEW d \in DOMAIN docs, watch' = Watching(d)
        PROVE  (watch \in WatchType /\ Followed(watch, docs[watch.doc]))'
    BY <2>1 DEF Watching, WatchType, NoAnswer, Followed
  <2> QED BY <2>1 DEF WatchInv
<1> QED BY <1>1, <1>2, <1>3, <1>4 DEF DocumentInv

\* The quiz screens and the fixtures leave the documents alone.
LEMMA DocumentStays ==
  ASSUME DocumentInv, UNCHANGED documentVars,
         \/ page' = page
         \/ {page, page'} \cap {"upload", "processing"} = {}
  PROVE  DocumentInv'
<1>1. /\ upload' = upload /\ estimates' = estimates /\ flows' = flows /\ watch' = watch
      /\ docs' = docs
  BY DEF documentVars
<1>2. RowsInv' /\ DocsStep
  BY <1>1, RowsKept DEF DocumentInv, DocsStep
<1>3. CASE page' = page
  <2>1. FlowInv' /\ UploadInv' /\ WatchInv'
    BY <1>1, <1>2, <1>3, FlowsKept, UploadKept, WatchKept DEF DocumentInv
  <2> QED BY <1>2, <2>1 DEF DocumentInv
<1>4. CASE page \notin {"upload", "processing"} /\ page' \notin {"upload", "processing"}
  <2>1. FlowInv'
    BY <1>1, <1>4 DEF DocumentInv, FlowInv
  <2>2. UploadInv' /\ WatchInv'
    BY <1>1, <1>4 DEF DocumentInv, UploadInv, WatchInv, NoWatch
  <2> QED BY <1>2, <2>1, <2>2 DEF DocumentInv
<1> QED BY <1>3, <1>4

\* A push that stays, arrives, or opens the processing screen of a document.
LEMMA PushStays ==
  ASSUME PushInv, attempts' = attempts, DOMAIN docs \subseteq DOMAIN docs',
         \/ pushing' = pushing \/ pushing' = NoPush
         \/ pushing'.to = "processing" /\ pushing'.id \in DOMAIN docs'
  PROVE  PushInv'
BY DEF PushInv, NoPush

\* The estimate depends on five fields of the workspace.
LEMMA EstimatedKept ==
  ASSUME NEW u, NEW n, NEW es, Estimated(u, es), n.choice = u.choice, n.estimate = u.estimate,
         n.estimateError = u.estimateError, n.estimating = u.estimating,
         n.invalid = u.invalid \/ ~u.estimating
  PROVE  Estimated(n, es)
BY DEF Estimated, Stranded

\* Calls end, or one of them goes on to g.
LEMMA FlowsChanged ==
  ASSUME FlowInv, page' = page, DOMAIN docs \subseteq DOMAIN docs',
         NEW g, g = [id |-> g.id, stage |-> g.stage, doc |-> g.doc, life |-> g.life],
         g.stage \in {"create", "upload", "confirm"}, g.stage # "create" => g.doc \in DOMAIN docs',
         g.life \in {"mounted", "unmounted", "dead"}, g.life = "mounted" => page = "upload",
         flows' \subseteq flows \cup {g}
  PROVE  FlowInv'
BY DEF FlowInv

\* A flow that ends leaves the others as they were.
LEMMA FlowsEnd ==
  ASSUME FlowInv, page' = page, DOMAIN docs \subseteq DOMAIN docs', flows' \subseteq flows
  PROVE  FlowInv'
BY DEF FlowInv

(***************************************************************************)
(* The upload workspace                                                    *)
(***************************************************************************)

\* resetFlowState: the estimate of an earlier choice goes, and its call is cancelled.
LEMMA ChooseKeeps ==
  ASSUME RowsInv, UploadInv, page = "upload", page' = page, docs' = docs,
         NEW choice \in ChoiceType, NEW invalid \in BOOLEAN, NEW estimating \in BOOLEAN,
         Complete(choice) => estimating,
         estimating => \/ Complete(choice)
                       \/ invalid /\ choice.file = "none" /\ choice.model # "none",
         Choose(choice, invalid, estimating)
  PROVE  UploadInv'
<1>1. upload \in UploadType /\ estimates \subseteq EstimateCall
  BY DEF UploadInv, Estimated
<1>2. /\ upload' = [upload EXCEPT !.choice = choice, !.invalid = invalid,
                    !.estimating = estimating, !.estimate = NoSelection,
                    !.estimateError = FALSE, !.step = "idle", !.doc = 0,
                    !.storageError = FALSE, !.confirmError = FALSE]
      /\ estimates' = {[e EXCEPT !.cancelled = TRUE] : e \in estimates}
                       \cup (IF Complete(choice) THEN {Requested(choice)} ELSE {})
  BY DEF Choose
<1>3. NoSelection \in ChoiceType /\ "idle" \in Steps /\ "idle" \notin InProgress
  BY DEF NoSelection, ChoiceType, Steps, InProgress
<1>4. upload' \in UploadType
  BY <1>1, <1>2, <1>3 DEF UploadType
<1>5. /\ upload'.choice = choice /\ upload'.estimating = estimating
      /\ upload'.estimate = NoSelection /\ upload'.estimateError = FALSE /\ upload'.step = "idle"
      /\ upload'.invalid = invalid
  BY <1>1, <1>2 DEF UploadType
<1>6. Estimated(upload', estimates')
  <2>1. \A e \in estimates : LET n == [e EXCEPT !.cancelled = TRUE]
                             IN  n \in EstimateCall /\ n.cancelled
    BY <1>1 DEF EstimateCall
  <2>2. Requested(choice) \in EstimateCall /\ ~Requested(choice).cancelled
        /\ Requested(choice).choice = choice
    BY DEF Requested, EstimateCall
  <2>3. /\ estimates' \subseteq EstimateCall
        /\ \A e \in estimates' : ~e.cancelled => e = Requested(choice) /\ Complete(choice)
    BY <1>2, <2>1, <2>2
  <2>4. Complete(choice) => Requested(choice) \in estimates'
    BY <1>2
  <2>5. estimating => (\E e \in estimates' : ~e.cancelled) \/ Stranded(upload')
    BY <1>5, <2>2, <2>4 DEF Stranded
  <2> QED BY <1>5, <2>2, <2>3, <2>5 DEF Estimated
<1>7. Estimated(upload, estimates)' /\ (upload \in UploadType)'
  BY <1>4, <1>6 DEF Estimated, Stranded, Complete, UploadType
<1> QED BY <1>3, <1>5, <1>7 DEF UploadInv

\* Choosing, and the answers of the model list and of the estimate.
LEMMA ChoosingKeeps ==
  ASSUME DocumentInv, PushInv, attempts' = attempts,
         \/ \E file \in Files \cup Rejected \cup {"none"} : HandleFileChange(file)
         \/ \E model \in Models \cup {"none"} : HandleModelChange(model)
         \/ ModelsReturn
         \/ \E call \in estimates : EstimateReturns(call)
  PROVE  DocumentInv' /\ PushInv'
<1>1. /\ page = "upload" /\ page' = page /\ pushing' = pushing
      /\ docs' = docs /\ flows' = flows /\ watch' = watch
  BY DEF HandleFileChange, HandleModelChange, ModelsReturn, EstimateReturns
<1>2. RowsInv' /\ FlowInv' /\ WatchInv' /\ PushInv'
  BY <1>1, RowsKept, FlowsKept, WatchKept, PushStays DEF DocumentInv, DocsStep
<1>3. upload \in UploadType /\ Estimated(upload, estimates) /\ UploadInv /\ RowsInv
  BY <1>1 DEF DocumentInv, UploadInv
<1>4. upload.choice \in ChoiceType /\ upload.invalid \in BOOLEAN
  BY <1>3 DEF UploadType
<1>5. ASSUME NEW file \in Files \cup Rejected \cup {"none"}, HandleFileChange(file)
      PROVE  UploadInv'
  <2> DEFINE choice == [upload.choice EXCEPT !.file = NormalizeFileSelection(file)]
             estimating == file # "none" /\ upload.choice.model # "none"
  <2>1. choice \in ChoiceType
    BY <1>4 DEF ChoiceType, NormalizeFileSelection
  <2>2. Complete(choice) => estimating
    BY <1>4 DEF ChoiceType, Complete, NormalizeFileSelection
  <2>3. Choose(choice, file \in Rejected, estimating)
    BY <1>5 DEF HandleFileChange
  <2>4. (file \in Rejected) \in BOOLEAN /\ estimating \in BOOLEAN
    OBVIOUS
  <2>5. estimating => \/ Complete(choice)
                      \/ file \in Rejected /\ choice.file = "none" /\ choice.model # "none"
    BY <1>4 DEF ChoiceType, Complete, NormalizeFileSelection
  <2> HIDE DEF choice, estimating
  <2> QED BY <1>1, <1>3, <2>1, <2>2, <2>3, <2>4, <2>5, ChooseKeeps
<1>6. ASSUME NEW model \in Models \cup {"none"}, HandleModelChange(model)
      PROVE  UploadInv'
  <2> DEFINE choice == [upload.choice EXCEPT !.model = model]
  <2>1. choice \in ChoiceType
    BY <1>4 DEF ChoiceType
  <2>2. Choose(choice, upload.invalid, Complete(choice))
    BY <1>6 DEF HandleModelChange
  <2>3. Complete(choice) \in BOOLEAN
    BY DEF Complete
  <2> HIDE DEF choice
  <2> QED BY <1>1, <1>3, <1>4, <2>1, <2>2, <2>3, ChooseKeeps
<1>7. ASSUME ModelsReturn PROVE UploadInv'
  <2>1. PICK models \in {"ready", "error"} :
          upload' = [upload EXCEPT !.models = models] /\ estimates' = estimates
    BY <1>7 DEF ModelsReturn
  <2>2. /\ upload' \in UploadType /\ upload'.choice = upload.choice
        /\ upload'.estimate = upload.estimate /\ upload'.estimateError = upload.estimateError
        /\ upload'.estimating = upload.estimating /\ upload'.step = upload.step
        /\ upload'.invalid = upload.invalid
    BY <1>3, <2>1 DEF UploadType
  <2>3. Estimated(upload', estimates)
    BY <1>3, <2>2, EstimatedKept
  <2>4. Estimated(upload, estimates)' /\ (upload \in UploadType)'
    BY <1>1, <2>1, <2>2, <2>3 DEF Estimated, Stranded, Complete, UploadType
  <2> QED BY <1>1, <1>3, <2>2, <2>4 DEF UploadInv
<1>8. ASSUME NEW call \in estimates, EstimateReturns(call) PROVE UploadInv'
  <2>1. call \in EstimateCall /\ estimates' = estimates \ {call}
    BY <1>3, <1>8 DEF EstimateReturns, Estimated
  <2>2. CASE call.cancelled
    <3>1. upload' = upload
      BY <1>8, <2>2 DEF EstimateReturns
    <3>2. Estimated(upload, estimates')
      BY <1>3, <2>1, <2>2 DEF Estimated
    <3>3. Estimated(upload, estimates)' /\ (upload \in UploadType)'
      BY <1>1, <1>3, <3>1, <3>2 DEF Estimated, Stranded, Complete, UploadType
    <3> QED BY <1>1, <1>3, <3>1, <3>3 DEF UploadInv
  <2>3. CASE ~call.cancelled
    <3>1. PICK answer \in {call.choice, NoSelection} :
            upload' = [upload EXCEPT !.estimate = answer, !.estimateError = (answer = NoSelection),
                         !.estimating = FALSE]
      BY <1>8, <2>3 DEF EstimateReturns, ShowEstimate, EstimateModelSelection
    <3>2. call.choice = upload.choice
      BY <1>3, <2>3 DEF Estimated
    <3>3. answer \in ChoiceType
      BY <1>4, <3>2 DEF ChoiceType, NoSelection
    <3>4. /\ upload' \in UploadType /\ upload'.choice = upload.choice
          /\ upload'.estimate = answer /\ upload'.estimateError = (answer = NoSelection)
          /\ upload'.estimating = FALSE /\ upload'.step = upload.step
      BY <1>3, <3>1, <3>3 DEF UploadType
    <3>5. \A e \in estimates' : e \in EstimateCall /\ e.cancelled
      <4> SUFFICES ASSUME NEW e \in estimates', ~e.cancelled
                   PROVE  FALSE
        BY <1>3, <2>1 DEF Estimated
      <4>1. e \in EstimateCall /\ e.choice = upload.choice
        BY <1>3, <2>1 DEF Estimated
      <4>2. e = call
        BY <2>1, <2>3, <3>2, <4>1 DEF EstimateCall
      <4> QED BY <2>1, <4>2
    <3>6. Estimated(upload', estimates')
      BY <3>2, <3>4, <3>5 DEF Estimated
    <3>7. Estimated(upload, estimates)' /\ (upload \in UploadType)'
      BY <1>1, <3>4, <3>6 DEF Estimated, Stranded, Complete, UploadType
    <3> QED BY <1>1, <1>3, <3>4, <3>7 DEF UploadInv
  <2> QED BY <2>2, <2>3
<1> QED BY <1>2, <1>5, <1>6, <1>7, <1>8 DEF DocumentInv

\* handleUploadSubmit and handleRetryConfirm begin a flow.
LEMMA BeginKeeps ==
  ASSUME DocumentInv, PushInv, attempts' = attempts, HandleUploadSubmit \/ HandleRetryConfirm
  PROVE  DocumentInv' /\ PushInv'
<1>1. /\ page = "upload" /\ page' = page /\ pushing' = pushing
      /\ docs' = docs /\ watch' = watch /\ estimates' = estimates
  BY DEF HandleUploadSubmit, HandleRetryConfirm
<1>2. RowsInv' /\ WatchInv' /\ PushInv' /\ DOMAIN docs \subseteq DOMAIN docs'
  BY <1>1, RowsKept, WatchKept, PushStays DEF DocumentInv, DocsStep
<1>3. upload \in UploadType /\ Estimated(upload, estimates)
  BY <1>1 DEF DocumentInv, UploadInv
<1>4. \E stage \in {"create", "confirm"}, doc \in {0} \cup DOMAIN docs :
        /\ stage = "confirm" => doc # 0
        /\ flows' = flows \cup {[id |-> FreshId, stage |-> stage, doc |-> doc,
                                 life |-> "mounted"]}
  <2>1. CASE HandleUploadSubmit
    BY <2>1 DEF HandleUploadSubmit
  <2>2. CASE HandleRetryConfirm
    <3>1. upload.doc \in DOMAIN docs /\ upload.doc # 0
      BY <1>3, <2>2 DEF HandleRetryConfirm, UploadType
    <3> QED BY <2>2, <3>1 DEF HandleRetryConfirm
  <2> QED BY <2>1, <2>2
<1>5. PICK g : /\ g = [id |-> g.id, stage |-> g.stage, doc |-> g.doc, life |-> g.life]
               /\ g.stage \in {"create", "confirm"}
               /\ g.stage # "create" => g.doc \in DOMAIN docs
               /\ g.life = "mounted" /\ flows' = flows \cup {g}
  <2>1. PICK stage \in {"create", "confirm"}, doc \in {0} \cup DOMAIN docs :
          /\ stage = "confirm" => doc # 0
          /\ flows' = flows \cup {[id |-> FreshId, stage |-> stage, doc |-> doc,
                                   life |-> "mounted"]}
    BY <1>4
  <2> DEFINE g == [id |-> FreshId, stage |-> stage, doc |-> doc, life |-> "mounted"]
  <2> WITNESS g
  <2> QED BY <2>1
<1>6. FlowInv'
  BY <1>1, <1>2, <1>5, FlowsChanged DEF DocumentInv
<1>7. PICK step \in Steps, invalid \in BOOLEAN, doc \in {0} \cup DOMAIN docs,
           storageError \in BOOLEAN :
        upload' = [upload EXCEPT !.step = step, !.invalid = invalid, !.doc = doc,
                     !.storageError = storageError, !.confirmError = FALSE]
  <2>1. CASE HandleUploadSubmit
    BY <2>1 DEF HandleUploadSubmit, Steps
  <2>2. CASE HandleRetryConfirm
    <3>1. /\ upload.invalid \in BOOLEAN /\ upload.doc \in {0} \cup DOMAIN docs
          /\ upload.storageError \in BOOLEAN /\ "confirming" \in Steps
      BY <1>3 DEF UploadType, Steps
    <3>2. upload' = [upload EXCEPT !.step = "confirming", !.invalid = upload.invalid,
                       !.doc = upload.doc, !.storageError = upload.storageError,
                       !.confirmError = FALSE]
      BY <1>3, <2>2 DEF HandleRetryConfirm, UploadType
    <3> QED BY <3>1, <3>2
  <2> QED BY <2>1, <2>2
<1>8. /\ upload' \in UploadType /\ upload'.choice = upload.choice
      /\ upload'.estimate = upload.estimate /\ upload'.estimateError = upload.estimateError
      /\ upload'.estimating = upload.estimating
  BY <1>3, <1>7 DEF UploadType
<1>9. UploadInv'
  <2>0. upload'.invalid = upload.invalid \/ ~upload.estimating
    <3>1. CASE HandleUploadSubmit
      BY <3>1 DEF HandleUploadSubmit, CanSubmit
    <3>2. CASE HandleRetryConfirm
      BY <1>3, <3>2 DEF HandleRetryConfirm, UploadType
    <3> QED BY <3>1, <3>2
  <2>1. Estimated(upload', estimates)
    BY <1>3, <1>8, <2>0, EstimatedKept
  <2>2. Estimated(upload, estimates)' /\ (upload \in UploadType)'
    BY <1>1, <1>8, <2>1 DEF Estimated, Stranded, Complete, UploadType
  <2>3. \E f \in flows' : f.life = "mounted"
    BY <1>5
  <2> QED BY <2>2, <2>3 DEF UploadInv
<1> QED BY <1>2, <1>6, <1>9 DEF DocumentInv

\* What a flow sets, on its own screen: a step in progress still has its flow.
LEMMA FlowSets ==
  ASSUME UploadInv, FlowInv, NEW f \in flows, page' = page, estimates' = estimates,
         DOMAIN docs \subseteq DOMAIN docs', flows \ {f} \subseteq flows',
         NEW step \in Steps, NEW doc \in {0} \cup DOMAIN docs',
         NEW storageError \in BOOLEAN, NEW confirmError \in BOOLEAN,
         f.life = "mounted" =>
           upload' = [upload EXCEPT !.step = step, !.doc = doc, !.storageError = storageError,
                        !.confirmError = confirmError],
         f.life # "mounted" => upload' = upload,
         step \in InProgress => \E g \in flows' : g.life = f.life
  PROVE  UploadInv'
<1>1. CASE f.life # "mounted"
  BY <1>1, UploadKept
<1>2. CASE f.life = "mounted"
  <2>1. page = "upload"
    BY <1>2 DEF FlowInv
  <2>2. upload \in UploadType /\ Estimated(upload, estimates)
    BY <2>1 DEF UploadInv
  <2>3. upload \in UploadType'
    BY <2>2 DEF UploadType
  <2>4. /\ upload' \in UploadType' /\ upload'.choice = upload.choice
        /\ upload'.estimate = upload.estimate /\ upload'.estimateError = upload.estimateError
        /\ upload'.estimating = upload.estimating /\ upload'.step = step
        /\ upload'.invalid = upload.invalid
    BY <1>2, <2>3 DEF UploadType
  <2>5. Estimated(upload', estimates)
    BY <2>2, <2>4, EstimatedKept
  <2>6. Estimated(upload, estimates)'
    BY <2>5 DEF Estimated, Stranded, Complete
  <2> QED BY <1>2, <2>4, <2>6 DEF UploadInv
<1> QED BY <1>1, <1>2

\* A flow fails: its screen shows an error and no progress.
LEMMA FailureKeeps ==
  ASSUME DocumentInv, PushInv, attempts' = attempts, NEW f \in flows, FlowFails(f),
         docs' = docs \/ docs' = ServerEffect(f),
         UNCHANGED <<page, estimates, watch>>
  PROVE  DocumentInv' /\ PushInv'
<1>1. /\ page' = page /\ estimates' = estimates /\ watch' = watch /\ pushing' = pushing
      /\ flows' = flows \ {f}
  BY DEF FlowFails
<1>2. DocsStep
  BY ServerKeeps DEF DocumentInv
<1>3. RowsInv' /\ FlowInv' /\ WatchInv' /\ PushInv' /\ DOMAIN docs \subseteq DOMAIN docs'
  BY <1>1, <1>2, FlowsEnd, WatchKept, PushStays DEF DocumentInv, DocsStep
<1>4. f.life = "mounted" => upload \in UploadType
  BY DEF DocumentInv, FlowInv, UploadInv
<1>5. PICK step \in {"idle", "uploaded"}, doc \in {0} \cup DOMAIN docs',
           storageError \in BOOLEAN, confirmError \in BOOLEAN :
        /\ f.life = "mounted" =>
             upload' = [upload EXCEPT !.step = step, !.doc = doc, !.storageError = storageError,
                          !.confirmError = confirmError]
        /\ f.life # "mounted" => upload' = upload
  <2>1. CASE f.life # "mounted"
    BY <2>1 DEF FlowFails, SetUpload
  <2>2. CASE f.life = "mounted"
    <3>1. /\ upload.doc \in {0} \cup DOMAIN docs' /\ upload.storageError \in BOOLEAN
          /\ upload.confirmError \in BOOLEAN
      BY <1>3, <1>4, <2>2 DEF UploadType
    <3>2. \/ upload' = [upload EXCEPT !.step = "uploaded", !.doc = upload.doc,
                          !.storageError = upload.storageError, !.confirmError = TRUE]
          \/ upload' = [upload EXCEPT !.step = "idle", !.doc = upload.doc,
                          !.storageError = TRUE, !.confirmError = upload.confirmError]
      BY <1>4, <2>2 DEF FlowFails, SetUpload, UploadType
    <3> QED BY <2>2, <3>1, <3>2
  <2> QED BY <2>1, <2>2
<1>6. UploadInv'
  <2>1. step \in Steps /\ step \notin InProgress
    BY <1>5 DEF Steps, InProgress
  <2> QED BY <1>1, <1>3, <1>5, <2>1, FlowSets DEF DocumentInv
<1> QED BY <1>3, <1>6 DEF DocumentInv

\* The calls of an upload are answered: the flow goes on, or ends with its document
\* confirmed and the processing screen pushed.
LEMMA FlowReturnsKeeps ==
  ASSUME DocumentInv, PushInv, attempts' = attempts, NEW f \in flows,
         CreateReturns(f) \/ UploadReturns(f) \/ ConfirmReturns(f) \/ OrphanCallEnds(f)
  PROVE  DocumentInv' /\ PushInv'
<1>1. page' = page /\ estimates' = estimates /\ watch' = watch
  BY DEF CreateReturns, UploadReturns, ConfirmReturns, OrphanCallEnds, screens
<1>2. docs' = docs \/ docs' = ServerEffect(f)
  BY DEF CreateReturns, UploadReturns, ConfirmReturns, OrphanCallEnds
<1>3. DocsStep /\ DOMAIN docs \subseteq DOMAIN docs' /\ RowsInv' /\ WatchInv'
  BY <1>1, <1>2, ServerKeeps, WatchKept DEF DocumentInv, DocsStep
<1>4. /\ f = [id |-> f.id, stage |-> f.stage, doc |-> f.doc, life |-> f.life]
      /\ f.stage # "create" => f.doc \in DOMAIN docs
      /\ f.life \in {"mounted", "unmounted", "dead"}
      /\ f.life = "mounted" => page = "upload" /\ upload \in UploadType
  BY DEF DocumentInv, FlowInv, UploadInv
<1>5. CASE FlowFails(f)
  BY <1>1, <1>2, <1>5, FailureKeeps
<1>6. CASE OrphanCallEnds(f)
  <2>1. /\ f.life = "dead" /\ flows' = flows \ {f} /\ upload' = upload /\ pushing' = pushing
    BY <1>6 DEF OrphanCallEnds, screens
  <2>2. FlowInv' /\ PushInv'
    BY <1>1, <1>3, <2>1, FlowsEnd, PushStays DEF DocumentInv
  <2>3. UploadInv'
    BY <1>1, <1>3, <2>1, UploadKept DEF DocumentInv
  <2> QED BY <1>3, <2>2, <2>3 DEF DocumentInv
<1>7. f.life = "mounted" => /\ upload.doc \in {0} \cup DOMAIN docs'
                           /\ upload.storageError \in BOOLEAN
                           /\ upload.confirmError \in BOOLEAN
  BY <1>3, <1>4 DEF UploadType
<1>8. ASSUME NEW g, g = [id |-> g.id, stage |-> g.stage, doc |-> g.doc, life |-> g.life],
             g.stage \in {"upload", "confirm"}, g.doc \in DOMAIN docs', g.life = f.life,
             flows' = (flows \ {f}) \cup {g}, pushing' = pushing,
             NEW step \in Steps, NEW doc \in {0} \cup DOMAIN docs', NEW confirmError \in BOOLEAN,
             f.life = "mounted" =>
               upload' = [upload EXCEPT !.step = step, !.doc = doc,
                            !.storageError = upload.storageError, !.confirmError = confirmError],
             f.life # "mounted" => upload' = upload
      PROVE  DocumentInv' /\ PushInv'
  <2>1. FlowInv'
    BY <1>1, <1>3, <1>4, <1>8, FlowsChanged DEF DocumentInv
  <2>2. PushInv'
    BY <1>3, <1>8, PushStays
  <2>3. UploadInv'
    <3>1. UploadInv /\ FlowInv
      BY DEF DocumentInv
    <3>2. (\E h \in flows' : h.life = f.life) /\ flows \ {f} \subseteq flows'
      BY <1>8
    <3>3. CASE f.life # "mounted"
      <4>1. \A h \in flows : h.life = "mounted" => \E k \in flows' : k.life = "mounted"
        BY <3>2, <3>3
      <4> QED BY <1>1, <1>3, <1>8, <3>1, <3>3, <4>1, UploadKept
    <3>4. CASE f.life = "mounted"
      <4>1. upload' = [upload EXCEPT !.step = step, !.doc = doc,
                         !.storageError = upload.storageError, !.confirmError = confirmError]
        BY <1>8, <3>4
      <4>2. upload.storageError \in BOOLEAN
        BY <1>7, <3>4
      <4> QED BY <1>1, <1>3, <3>1, <3>2, <3>4, <4>1, <4>2, FlowSets
    <3> QED BY <3>3, <3>4
  <2> QED BY <1>3, <2>1, <2>2, <2>3 DEF DocumentInv
<1>9. ASSUME flows' = flows \ {f}, NEW step \in {"confirmed", "uploaded"},
             NEW confirmError \in BOOLEAN,
             \/ pushing' = pushing
             \/ pushing' = [to |-> "processing", id |-> f.doc] /\ f.stage # "create",
             f.life = "mounted" =>
               upload' = [upload EXCEPT !.step = step, !.confirmError = confirmError],
             f.life # "mounted" => upload' = upload
      PROVE  DocumentInv' /\ PushInv'
  <2>1. FlowInv'
    BY <1>1, <1>3, <1>9, FlowsEnd DEF DocumentInv
  <2>2. PushInv'
    <3>1. f.stage # "create" => f.doc \in DOMAIN docs'
      BY <1>3, <1>4
    <3> QED BY <1>3, <1>9, <3>1, PushStays
  <2>3. UploadInv'
    <3>1. step \in Steps /\ step \notin InProgress
      BY <1>9 DEF Steps, InProgress
    <3>2. CASE f.life # "mounted"
      BY <1>1, <1>3, <1>9, <3>2, UploadKept DEF DocumentInv
    <3>3. CASE f.life = "mounted"
      <4>1. upload' = [upload EXCEPT !.step = step, !.doc = upload.doc,
                         !.storageError = upload.storageError, !.confirmError = confirmError]
        BY <1>4, <1>9, <3>3 DEF UploadType
      <4> QED BY <1>1, <1>3, <1>7, <1>9, <3>1, <3>3, <4>1, FlowSets DEF DocumentInv
    <3> QED BY <3>2, <3>3
  <2> QED BY <1>3, <2>1, <2>2, <2>3 DEF DocumentInv
<1>10. CASE CreateReturns(f) /\ ~FlowFails(f)
  <2> DEFINE g == [f EXCEPT !.stage = "upload", !.doc = Len(docs) + 1]
  <2>1. /\ f.stage = "create" /\ docs' = ServerEffect(f) /\ pushing' = pushing
        /\ flows' = (flows \ {f}) \cup {g}
        /\ SetUpload(f, [upload EXCEPT !.step = "uploading", !.doc = Len(docs) + 1])
    BY <1>10 DEF CreateReturns
  <2>2. Len(docs) + 1 \in DOMAIN docs'
    <3>1. docs' = Append(docs, NewDocument) /\ docs \in Seq(RowType)
      BY <2>1 DEF ServerEffect, CreateUploadUrl, DocumentInv, RowsInv
    <3> QED BY <3>1
  <2>3. /\ g = [id |-> g.id, stage |-> g.stage, doc |-> g.doc, life |-> g.life]
        /\ g.stage = "upload" /\ g.doc = Len(docs) + 1 /\ g.life = f.life
    <3>1. PICK id, stage, doc, life :
            f = [id |-> id, stage |-> stage, doc |-> doc, life |-> life]
      BY <1>4
    <3> DEFINE h == [f EXCEPT !.stage = "upload"]
    <3>2. h = [id |-> id, stage |-> "upload", doc |-> doc, life |-> life]
      BY <3>1
    <3>3. g = [h EXCEPT !.doc = Len(docs) + 1]
      OBVIOUS
    <3> HIDE DEF g, h
    <3>4. g = [id |-> id, stage |-> "upload", doc |-> Len(docs) + 1, life |-> life]
      BY <3>2, <3>3
    <3> QED BY <3>1, <3>4
  <2>4. /\ f.life = "mounted" =>
             upload' = [upload EXCEPT !.step = "uploading", !.doc = Len(docs) + 1,
                          !.storageError = upload.storageError,
                          !.confirmError = upload.confirmError]
        /\ f.life # "mounted" => upload' = upload
    BY <1>4, <2>1 DEF SetUpload, UploadType
  <2>5. "uploading" \in Steps
    BY DEF Steps
  <2>6. PICK confirmError \in BOOLEAN :
          f.life = "mounted" => confirmError = upload.confirmError
    BY <1>7
  <2>7. f.life = "mounted" =>
          upload' = [upload EXCEPT !.step = "uploading", !.doc = Len(docs) + 1,
                       !.storageError = upload.storageError, !.confirmError = confirmError]
    BY <2>4, <2>6
  <2> HIDE DEF g
  <2>8. PICK doc \in DOMAIN docs' : doc = Len(docs) + 1
    BY <2>2
  <2>9. f.life = "mounted" =>
          upload' = [upload EXCEPT !.step = "uploading", !.doc = doc,
                       !.storageError = upload.storageError, !.confirmError = confirmError]
    BY <2>7, <2>8
  <2>10. doc \in {0} \cup DOMAIN docs' /\ g.doc \in DOMAIN docs'
    BY <2>3, <2>8
  <2>11. /\ flows' = (flows \ {f}) \cup {g} /\ pushing' = pushing
         /\ g.stage \in {"upload", "confirm"}
         /\ f.life # "mounted" => upload' = upload
    BY <2>1, <2>3, <2>4
  <2> QED BY <1>8, <2>3, <2>5, <2>6, <2>9, <2>10, <2>11
<1>11. CASE UploadReturns(f) /\ ~FlowFails(f)
  <2> DEFINE g == [f EXCEPT !.stage = "confirm"]
  <2>1. /\ f.stage = "upload" /\ pushing' = pushing /\ flows' = (flows \ {f}) \cup {g}
        /\ SetUpload(f, [upload EXCEPT !.step = "confirming", !.confirmError = FALSE])
    BY <1>11 DEF UploadReturns
  <2>2. /\ g = [id |-> g.id, stage |-> g.stage, doc |-> g.doc, life |-> g.life]
        /\ g.stage = "confirm" /\ g.doc \in DOMAIN docs' /\ g.life = f.life
    BY <1>3, <1>4, <2>1
  <2>3. /\ f.life = "mounted" =>
             upload' = [upload EXCEPT !.step = "confirming", !.doc = upload.doc,
                          !.storageError = upload.storageError, !.confirmError = FALSE]
        /\ f.life # "mounted" => upload' = upload
    BY <1>4, <2>1 DEF SetUpload, UploadType
  <2>4. "confirming" \in Steps
    BY DEF Steps
  <2>5. PICK doc \in {0} \cup DOMAIN docs' : f.life = "mounted" => doc = upload.doc
    BY <1>7
  <2>6. f.life = "mounted" =>
          upload' = [upload EXCEPT !.step = "confirming", !.doc = doc,
                       !.storageError = upload.storageError, !.confirmError = FALSE]
    BY <2>3, <2>5
  <2> HIDE DEF g
  <2> QED BY <1>8, <2>1, <2>2, <2>3, <2>4, <2>5, <2>6
<1>12. CASE ConfirmReturns(f) /\ ~FlowFails(f)
  <2>1. /\ f.stage = "confirm" /\ flows' = flows \ {f}
        /\ \/ /\ SetUpload(f, [upload EXCEPT !.step = "confirmed"])
              /\ pushing' = [to |-> "processing", id |-> f.doc]
           \/ /\ SetUpload(f, [upload EXCEPT !.step = "uploaded", !.confirmError = TRUE])
              /\ pushing' = pushing
    BY <1>12 DEF ConfirmReturns, Push
  <2>2. CASE /\ SetUpload(f, [upload EXCEPT !.step = "uploaded", !.confirmError = TRUE])
             /\ pushing' = pushing
    BY <1>9, <2>1, <2>2 DEF SetUpload
  <2>3. CASE /\ SetUpload(f, [upload EXCEPT !.step = "confirmed"])
             /\ pushing' = [to |-> "processing", id |-> f.doc]
    <3>1. CASE f.life # "mounted"
      BY <1>9, <2>1, <2>3, <3>1 DEF SetUpload
    <3>2. CASE f.life = "mounted"
      <4>1. upload' = [upload EXCEPT !.step = "confirmed", !.confirmError = upload.confirmError]
        BY <1>4, <2>3, <3>2 DEF SetUpload, UploadType
      <4> QED BY <1>7, <1>9, <2>1, <2>3, <3>2, <4>1
    <3> QED BY <3>1, <3>2
  <2> QED BY <2>1, <2>2, <2>3
<1> QED BY <1>5, <1>6, <1>10, <1>11, <1>12

(***************************************************************************)
(* Processing, and the screens that follow it                              *)
(***************************************************************************)

\* The pipeline ends a document's processing, with its quiz or without.
LEMMA ProcessingKeeps ==
  ASSUME DocumentInv, PushInv, attempts' = attempts, NEW d \in DOMAIN docs,
         QuizPersisted(d) \/ ProcessingEnds(d)
  PROVE  DocumentInv' /\ PushInv'
<1>1. /\ page' = page /\ pushing' = pushing /\ flows' = flows /\ upload' = upload
      /\ estimates' = estimates /\ watch' = watch /\ docs[d].status = "PROCESSING"
  BY DEF QuizPersisted, ProcessingEnds, screens
<1>2. docs[d] \in RowType /\ Ordered(docs[d])
  BY RowTyped DEF DocumentInv
<1>3. /\ docs[d].events \in Nat /\ docs[d].failures \in Nat /\ docs[d].events > 0
      /\ docs[d].stored /\ docs[d].events <= 1 + docs[d].failures
  BY <1>1, <1>2 DEF RowType, Ordered
<1>4. ASSUME NEW n \in RowType, Ordered(n), RowStep(docs[d], n), docs' = [docs EXCEPT ![d] = n]
      PROVE  DocsStep
  BY <1>4, RowSteps DEF DocumentInv
<1>5. DocsStep
  <2>1. CASE docs' = [docs EXCEPT ![d].quiz = TRUE]
    <3> DEFINE n == [docs[d] EXCEPT !.quiz = TRUE]
    <3>1. n \in RowType /\ Ordered(n) /\ RowStep(docs[d], n)
      BY <1>2 DEF RowType, Ordered, RowStep, SameRow
    <3>2. docs' = [docs EXCEPT ![d] = n]
      BY <2>1
    <3> QED BY <1>4, <3>1, <3>2
  <2>2. CASE docs' = [docs EXCEPT ![d].status = "READY"]
    <3> DEFINE n == [docs[d] EXCEPT !.status = "READY"]
    <3>1. n \in RowType /\ Ordered(n) /\ RowStep(docs[d], n)
      BY <1>1, <1>2, <1>3 DEF RowType, DocumentStatus, Ordered, RowStep, Ended, Terminal
    <3>2. docs' = [docs EXCEPT ![d] = n]
      BY <2>2
    <3> QED BY <1>4, <3>1, <3>2
  <2>3. ASSUME NEW retryable \in BOOLEAN,
               docs' = [docs EXCEPT ![d].status = "FAILED", ![d].retryable = retryable,
                                    ![d].failures = @ + 1]
        PROVE  DocsStep
    <3> DEFINE n == [docs[d] EXCEPT !.status = "FAILED", !.retryable = retryable,
                                    !.failures = @ + 1]
    <3>1. n \in RowType
      <4>1. docs[d].failures + 1 \in Nat /\ "FAILED" \in DocumentStatus
        BY <1>3 DEF DocumentStatus
      <4> QED BY <1>2, <4>1 DEF RowType
    <3>2. /\ n.status = "FAILED" /\ n.events = docs[d].events /\ n.by = docs[d].by
          /\ n.failures = docs[d].failures + 1 /\ n.stored = docs[d].stored
      BY <1>2 DEF RowType
    <3>3. docs' = [docs EXCEPT ![d] = n]
      BY <2>3
    <3> HIDE DEF n
    <3>4. Ordered(n) /\ RowStep(docs[d], n)
      BY <1>1, <1>3, <3>2 DEF Ordered, RowStep, Ended, Terminal
    <3> QED BY <1>4, <3>1, <3>3, <3>4
  <2> QED BY <2>1, <2>2, <2>3 DEF QuizPersisted, ProcessingEnds
<1>6. FlowInv' /\ UploadInv' /\ WatchInv' /\ PushInv' /\ RowsInv'
  BY <1>1, <1>5, FlowsKept, UploadKept, WatchKept, PushStays DEF DocumentInv, DocsStep
<1> QED BY <1>6 DEF DocumentInv

\* The processing screen has changed and is still true.
LEMMA WatchChanged ==
  ASSUME page' = "processing", NEW w \in WatchType, watch' = w, w.doc \in DOMAIN docs',
         DOMAIN docs' = DOMAIN docs, Followed(w, docs'[w.doc])
  PROVE  WatchInv'
<1>1. (watch \in WatchType)'
  BY DEF WatchType
<1>2. Followed(watch, docs[watch.doc])'
  BY DEF Followed, Final
<1> QED BY <1>1, <1>2 DEF WatchInv

\* Polls: what is read is the row's status; a final one ends the polling. The retry's
\* own confirm excuses the screen until the poll after it.
LEMMA PollsKeep ==
  ASSUME DocumentInv, PushInv, attempts' = attempts,
         \/ PollAnswered \/ PollLost \/ PollReturns \/ PollDue
         \/ RetryDocumentProcessing \/ RetryEnds
  PROVE  DocumentInv' /\ PushInv'
<1>1. /\ page = "processing" /\ page' = page /\ pushing' = pushing /\ docs' = docs
      /\ flows' = flows /\ upload' = upload /\ estimates' = estimates
  BY DEF PollAnswered, PollLost, PollReturns, PollDue, RetryDocumentProcessing, RetryEnds
<1>2. RowsInv' /\ FlowInv' /\ UploadInv' /\ PushInv'
  BY <1>1, RowsKept, FlowsKept, UploadKept, PushStays DEF DocumentInv, DocsStep
<1> DEFINE r == docs[watch.doc]
<1>3. watch \in WatchType /\ Followed(watch, r) /\ watch.doc \in DOMAIN docs
  BY <1>1 DEF DocumentInv, WatchInv, WatchType
<1>4. r.status \in DocumentStatus /\ r.retryable \in BOOLEAN
  BY <1>3, RowTyped DEF DocumentInv, RowType
<1> DEFINE AnswerType == [status: DocumentStatus \cup {"none"}, retryable: BOOLEAN]
<1>5. watch.answer \in AnswerType
  BY <1>3 DEF WatchType
<1>6. NoAnswer \in AnswerType
  BY DEF NoAnswer
<1> HIDE DEF r
<1>7. watch' \in WatchType /\ watch'.doc = watch.doc /\ Followed(watch', r)
  <2>1. CASE PollAnswered
    <3> DEFINE read == GetDocument(watch.doc)
    <3>1. read \in AnswerType /\ read.status = r.status
      BY <1>4 DEF GetDocument, r
    <3>2. watch' = [watch EXCEPT !.poll = "answered", !.answer = read]
      BY <2>1 DEF PollAnswered
    <3> HIDE DEF read
    <3>3. /\ watch' \in WatchType /\ watch'.doc = watch.doc /\ watch'.poll = "answered"
          /\ watch'.answer = read
      BY <1>3, <3>1, <3>2 DEF WatchType
    <3> QED BY <3>1, <3>3 DEF Followed, Final
  <2>2. CASE PollLost
    <3>1. watch' = [watch EXCEPT !.poll = "answered", !.answer = NoAnswer]
      BY <2>2 DEF PollLost
    <3>2. /\ watch' \in WatchType /\ watch'.doc = watch.doc /\ watch'.poll = "answered"
          /\ watch'.answer = NoAnswer
      BY <1>3, <1>6, <3>1 DEF WatchType
    <3> QED BY <3>2 DEF Followed, NoAnswer, Terminal
  <2>3. CASE PollReturns
    <3>1. CASE watch.answer = NoAnswer
      <4>1. watch' = [watch EXCEPT !.error = TRUE, !.poll = "timer"]
        BY <2>3, <3>1 DEF PollReturns
      <4>2. watch' \in WatchType /\ watch'.doc = watch.doc /\ watch'.poll = "timer"
        BY <1>3, <4>1 DEF WatchType
      <4> QED BY <4>2 DEF Followed
    <3>2. CASE watch.answer # NoAnswer
      <4>1. PICK poll \in {"stopped", "timer"} :
              /\ poll = "stopped" => watch.answer.status \in Terminal
              /\ watch' = [watch EXCEPT !.shown = watch.answer.status, !.error = FALSE,
                             !.retryable = watch.answer.retryable, !.answer = NoAnswer,
                             !.poll = poll]
        <5>1. CASE watch.answer.status \in Terminal
          BY <2>3, <3>2, <5>1 DEF PollReturns
        <5>2. CASE watch.answer.status \notin Terminal
          BY <2>3, <3>2, <5>2 DEF PollReturns
        <5> QED BY <5>1, <5>2
      <4>2. watch.answer.status \in DocumentStatus \cup {"none"} /\ watch.answer.retryable \in BOOLEAN
        BY <1>5
      <4>3. /\ watch' \in WatchType /\ watch'.doc = watch.doc /\ watch'.poll = poll
            /\ watch'.shown = watch.answer.status
            /\ watch'.retrying = watch.retrying /\ watch'.retryError = watch.retryError
        BY <1>3, <1>6, <4>1, <4>2 DEF WatchType
      <4>4. watch.poll = "answered"
        BY <2>3 DEF PollReturns
      <4>5. poll = "stopped" => Final(watch, r, watch.answer.status)
        BY <1>3, <4>1, <4>4 DEF Followed
      <4> QED BY <4>1, <4>3, <4>5 DEF Followed, Final
    <3> QED BY <3>1, <3>2
  <2>4. CASE PollDue
    <3>1. watch' = [watch EXCEPT !.poll = "asked"]
      BY <2>4 DEF PollDue
    <3>2. watch' \in WatchType /\ watch'.doc = watch.doc /\ watch'.poll = "asked"
      BY <1>3, <3>1 DEF WatchType
    <3> QED BY <3>2 DEF Followed
  <2>5. CASE RetryDocumentProcessing
    <3>1. watch' = [watch EXCEPT !.retrying = "confirm", !.retryError = FALSE]
      BY <2>5 DEF RetryDocumentProcessing
    <3>2. /\ watch' \in WatchType /\ watch'.doc = watch.doc /\ watch'.poll = watch.poll
          /\ watch'.shown = watch.shown /\ watch'.answer = watch.answer
          /\ watch'.retrying = "confirm"
      BY <1>3, <3>1 DEF WatchType
    <3> QED BY <1>3, <3>2 DEF Followed, Final
  <2>6. CASE RetryEnds
    <3>1. watch' = [watch EXCEPT !.retrying = "no"] /\ watch.retrying = "refresh"
      BY <2>6 DEF RetryEnds
    <3>2. /\ watch' \in WatchType /\ watch'.doc = watch.doc /\ watch'.poll = watch.poll
          /\ watch'.shown = watch.shown /\ watch'.answer = watch.answer
          /\ watch'.retryError = watch.retryError
      BY <1>3, <3>1 DEF WatchType
    <3> QED BY <1>3, <3>1, <3>2 DEF Followed, Final
  <2> QED BY <2>1, <2>2, <2>3, <2>4, <2>5, <2>6
<1>8. WatchInv'
  <2>1. Followed(watch', docs'[watch'.doc])
    BY <1>1, <1>7 DEF r
  <2> QED BY <1>1, <1>3, <1>7, <2>1, WatchChanged
<1> QED BY <1>2, <1>8 DEF DocumentInv

\* The retry's confirm is answered, or its answer is lost.
LEMMA RetryReturnsKeeps ==
  ASSUME DocumentInv, PushInv, attempts' = attempts, RetryReturns
  PROVE  DocumentInv' /\ PushInv'
<1>1. /\ page = "processing" /\ page' = page /\ pushing' = pushing
      /\ flows' = flows /\ upload' = upload /\ estimates' = estimates
      /\ docs' = docs \/ docs' = ConfirmDocument(watch.doc, "here")
  BY DEF RetryReturns
<1>2. watch \in WatchType /\ Followed(watch, docs[watch.doc]) /\ watch.doc \in DOMAIN docs
  BY <1>1 DEF DocumentInv, WatchInv, WatchType
<1>3. RowsInv' /\ DOMAIN docs' = DOMAIN docs
  <2>1. CASE docs' = docs
    BY <2>1, RowsKept DEF DocumentInv, DocsStep
  <2>2. CASE docs' # docs
    <3>1. docs[watch.doc].stored /\ docs' = ConfirmProcessing(watch.doc, "here")
      BY <1>1, <2>2 DEF ConfirmDocument
    <3> QED BY <1>2, <3>1, ConfirmedRow DEF DocumentInv
  <2> QED BY <2>1, <2>2
<1>4. FlowInv' /\ UploadInv' /\ PushInv'
  BY <1>1, <1>3, FlowsKept, UploadKept, PushStays DEF DocumentInv
<1>5. /\ watch' \in WatchType /\ watch'.doc = watch.doc
      /\ \/ watch'.poll = "asked"
         \/ /\ watch'.retryError /\ watch'.poll = watch.poll /\ watch'.shown = watch.shown
            /\ watch'.answer = watch.answer
  <2>1. CASE watch' = [watch EXCEPT !.retrying = "refresh", !.poll = "asked", !.answer = NoAnswer]
    <3>1. NoAnswer \in [status: DocumentStatus \cup {"none"}, retryable: BOOLEAN]
      BY DEF NoAnswer
    <3> QED BY <1>2, <2>1, <3>1 DEF WatchType
  <2>2. CASE watch' = [watch EXCEPT !.retrying = "no", !.retryError = TRUE]
    BY <1>2, <2>2 DEF WatchType
  <2> QED BY <2>1, <2>2 DEF RetryReturns
<1>6. Followed(watch', docs'[watch'.doc])
  BY <1>2, <1>5 DEF Followed, Final
<1>7. WatchInv'
  BY <1>1, <1>2, <1>3, <1>5, <1>6, WatchChanged
<1> QED BY <1>3, <1>4, <1>7 DEF DocumentInv

(***************************************************************************)
(* The tab                                                                 *)
(***************************************************************************)

\* The quiz screens while other calls return.
LEMMA QuizFrame ==
  ASSUME QuizInv, UNCHANGED quizVars, page' = page, pushing # NoPush => pushing' # NoPush, PushInv'
  PROVE  QuizInv'
<1>1. /\ start' = start /\ play' = play /\ drafts' = drafts /\ storage' = storage
      /\ checks' = checks /\ submissions' = submissions /\ attempts' = attempts
      /\ visits' = visits
  BY DEF quizVars
<1>2. PlayInv'
  BY <1>1 DEF QuizInv, PlayInv, Rendered, Checked, Awaited
<1>3. StoreInv'
  BY <1>1, StoreKept DEF QuizInv
<1>4. SubmissionInv'
  BY <1>1, SubmissionKept DEF QuizInv
<1> QED BY <1>2, <1>3, <1>4 DEF QuizInv

\* Every step of the document screens.
LEMMA DocumentStepKeeps ==
  ASSUME TabInv, DocumentStep, UNCHANGED quizVars
  PROVE  TabInv'
<1>1. QuizInv /\ DocumentInv /\ PushInv /\ attempts' = attempts
  BY DEF TabInv, quizVars
<1>2. CASE ReloadPage
  <2>1. /\ page \in {"processing", "document"} /\ page' = page /\ pushing' = NoPush
        /\ docs' = docs /\ FlowsKilled
        /\ page = "processing" => watch' = Watching(watch.doc)
        /\ page # "processing" => watch' = watch
    BY <1>2 DEF ReloadPage, Show
  <2>2. QuizInv' /\ PushInv'
    BY <1>1, <2>1, QuizStays
  <2>3. page = "processing" => watch.doc \in DOMAIN docs
    BY <1>1 DEF DocumentInv, WatchInv, WatchType
  <2>4. page # "processing" => watch = NoWatch
    BY <1>1 DEF DocumentInv, WatchInv
  <2>5. DocumentInv'
    BY <1>1, <2>1, <2>3, <2>4, DocumentPage
  <2> QED BY <2>2, <2>5 DEF TabInv
<1>3. CASE ~ReloadPage
  <2>1. DocumentInv' /\ PushInv'
    <3>1. CASE \/ \E file \in Files \cup Rejected \cup {"none"} : HandleFileChange(file)
               \/ \E model \in Models \cup {"none"} : HandleModelChange(model)
               \/ ModelsReturn \/ \E call \in estimates : EstimateReturns(call)
      BY <1>1, <3>1, ChoosingKeeps
    <3>2. CASE HandleUploadSubmit \/ HandleRetryConfirm
      BY <1>1, <3>2, BeginKeeps
    <3>3. CASE \E f \in flows :
                 CreateReturns(f) \/ UploadReturns(f) \/ ConfirmReturns(f) \/ OrphanCallEnds(f)
      BY <1>1, <3>3, FlowReturnsKeeps
    <3>4. CASE \E d \in DOMAIN docs : QuizPersisted(d) \/ ProcessingEnds(d)
      BY <1>1, <3>4, ProcessingKeeps
    <3>5. CASE \/ PollAnswered \/ PollLost \/ PollReturns \/ PollDue
               \/ RetryDocumentProcessing \/ RetryEnds
      BY <1>1, <3>5, PollsKeep
    <3>6. CASE RetryReturns
      BY <1>1, <3>6, RetryReturnsKeeps
    <3>7. CASE \/ QuizDiscoveryReturns \/ LibraryLoads \/ ClearFilters
               \/ \E raw \in DocumentStatus \cup {"all", "other"} : UpdateStatusFilter(raw)
      <4>1. /\ page' = page /\ pushing' = pushing /\ upload' = upload /\ estimates' = estimates
            /\ flows' = flows /\ watch' = watch /\ docs' = docs
        BY <3>7 DEF QuizDiscoveryReturns, LibraryLoads, ClearFilters, UpdateStatusFilter
      <4>2. DocsStep /\ RowsInv' /\ DOMAIN docs \subseteq DOMAIN docs'
        BY <1>1, <4>1, RowsKept DEF DocumentInv, DocsStep
      <4>3. FlowInv' /\ UploadInv' /\ WatchInv' /\ PushInv'
        BY <1>1, <4>1, <4>2, FlowsKept, UploadKept, WatchKept, PushStays DEF DocumentInv
      <4> QED BY <4>2, <4>3 DEF DocumentInv
    <3> QED BY <1>3, <3>1, <3>2, <3>3, <3>4, <3>5, <3>6, <3>7
            DEF DocumentStep, UploadWorkspaceForm, UploadModelPanel, UploadStatusPanel,
                UploadCalls, ProcessingStatusPanel, ProcessingCalls, LibraryBrowser
  <2>2. page' = page
    BY <1>3 DEF DocumentStep, UploadWorkspaceForm, UploadModelPanel, UploadStatusPanel,
                UploadCalls, ProcessingStatusPanel, ProcessingCalls, LibraryBrowser,
                HandleFileChange, HandleModelChange, ModelsReturn, EstimateReturns,
                HandleUploadSubmit, HandleRetryConfirm, CreateReturns, UploadReturns,
                ConfirmReturns, OrphanCallEnds, QuizPersisted, ProcessingEnds,
                PollAnswered, PollLost, PollReturns, PollDue, RetryDocumentProcessing,
                RetryEnds, RetryReturns, QuizDiscoveryReturns, LibraryLoads, ClearFilters,
                UpdateStatusFilter
  <2>3. pushing' = pushing \/ pushing'.to = "processing"
    <3>1. CASE \E f \in flows : ConfirmReturns(f)
      BY <3>1 DEF ConfirmReturns, FlowFails, Push
    <3>2. CASE \E f \in flows : CreateReturns(f) \/ UploadReturns(f) \/ OrphanCallEnds(f)
      BY <3>2 DEF CreateReturns, UploadReturns, OrphanCallEnds, FlowFails
    <3>3. CASE ~ \E f \in flows : \/ CreateReturns(f) \/ UploadReturns(f)
                                  \/ ConfirmReturns(f) \/ OrphanCallEnds(f)
      BY <1>3, <3>3
         DEF DocumentStep, UploadWorkspaceForm, UploadModelPanel, UploadStatusPanel,
             UploadCalls, ProcessingStatusPanel, ProcessingCalls, LibraryBrowser,
             HandleFileChange, HandleModelChange, ModelsReturn, EstimateReturns,
             HandleUploadSubmit, HandleRetryConfirm, QuizPersisted, ProcessingEnds,
             PollAnswered, PollLost, PollReturns, PollDue, RetryDocumentProcessing,
             RetryEnds, RetryReturns, QuizDiscoveryReturns, LibraryLoads, ClearFilters,
             UpdateStatusFilter
    <3> QED BY <3>1, <3>2, <3>3
  <2>4. pushing # NoPush => pushing' # NoPush
    BY <2>3 DEF NoPush
  <2>5. QuizInv'
    BY <1>1, <2>1, <2>2, <2>4, QuizFrame
  <2> QED BY <2>1, <2>5 DEF TabInv
<1> QED BY <1>2, <1>3

\* Links and pushes.
LEMMA NavigationKeeps ==
  ASSUME TabInv,
         \/ NavLibrary \/ NavUpload \/ QuizLink \/ ShowProcessing
         \/ \E d \in DOMAIN docs : DocumentLink(d) \/ ProcessingLink(d)
         \/ ShowResult /\ DocumentsLeft /\ UNCHANGED <<docs, losses>>
  PROVE  TabInv'
<1>1. QuizInv /\ DocumentInv /\ PushInv
  BY DEF TabInv
<1>2. docs' = docs /\ UNCHANGED <<storage, submissions, attempts, visits>>
  BY DEF NavLibrary, NavUpload, QuizLink, ShowProcessing, DocumentLink, ProcessingLink,
         ShowResult, Calls
<1>3. CASE NavLibrary \/ (ShowResult /\ DocumentsLeft)
  <2>1. /\ \E next \in {"library", "result"} : Show(next)
        /\ QuizLeft /\ watch' = NoWatch /\ flows' = Unmounted
    BY <1>3 DEF NavLibrary, OpenLibrary, ShowResult, DocumentsLeft
  <2>2. page' \in {"library", "result"}
    BY <2>1 DEF Show
  <2>3. QuizInv' /\ PushInv'
    BY <1>1, <1>2, <2>1, QuizLeftKeeps
  <2>4. DocumentInv'
    BY <1>1, <1>2, <2>1, <2>2, DocumentPage
  <2> QED BY <2>3, <2>4 DEF TabInv
<1>4. CASE NavUpload
  <2>1. /\ Show("upload") /\ page' = "upload" /\ QuizLeft /\ watch' = NoWatch
        /\ flows' = Unmounted /\ upload' = EmptyUpload /\ estimates' = {}
    BY <1>4 DEF NavUpload, OpenUpload, Show
  <2>2. QuizInv' /\ PushInv'
    BY <1>1, <1>2, <2>1, QuizLeftKeeps
  <2>3. DocumentInv'
    BY <1>1, <1>2, <2>1, DocumentPage
  <2> QED BY <2>2, <2>3 DEF TabInv
<1>5. CASE \E d \in DOMAIN docs : DocumentLink(d)
  <2>1. /\ Show("document") /\ page' = "document" /\ QuizLeft /\ watch' = NoWatch
        /\ flows' = Unmounted
    BY <1>5 DEF DocumentLink, OpenDocument, Show
  <2>2. QuizInv' /\ PushInv'
    BY <1>1, <1>2, <2>1, QuizLeftKeeps
  <2>3. DocumentInv'
    BY <1>1, <1>2, <2>1, DocumentPage
  <2> QED BY <2>2, <2>3 DEF TabInv
<1>6. CASE ShowProcessing \/ \E d \in DOMAIN docs : ProcessingLink(d)
  <2>1. PICK d \in DOMAIN docs : /\ Show("processing") /\ page' = "processing" /\ QuizLeft
                                 /\ watch' = Watching(d) /\ flows' = Unmounted
    <3>1. pushing.to = "processing" => pushing.id \in DOMAIN docs
      BY <1>1 DEF PushInv
    <3> QED BY <1>6, <3>1 DEF ShowProcessing, ProcessingLink, OpenProcessing, Show
  <2>2. QuizInv' /\ PushInv'
    BY <1>1, <1>2, <2>1, QuizLeftKeeps
  <2>3. DocumentInv'
    BY <1>1, <1>2, <2>1, DocumentPage
  <2> QED BY <2>2, <2>3 DEF TabInv
<1>7. CASE QuizLink
  <2>1. OpenStart /\ watch' = NoWatch /\ flows' = Unmounted
    BY <1>7 DEF QuizLink, DocumentsLeft
  <2>2. QuizInv' /\ PushInv' /\ page' = "start"
    BY <1>1, <1>2, <2>1, OpenStartKeeps
  <2>3. DocumentInv'
    BY <1>1, <1>2, <2>1, <2>2, DocumentPage
  <2> QED BY <2>2, <2>3 DEF TabInv
<1> QED BY <1>3, <1>4, <1>5, <1>6, <1>7

\* A quiz page loads again, and what the learner had under way elsewhere is not heard.
LEMMA PageLoadKeeps ==
  ASSUME TabInv, QuizPageLoad, FlowsKilled, UNCHANGED <<screens, docs, losses>>
  PROVE  TabInv'
<1>1. QuizInv /\ DocumentInv /\ PushInv /\ docs' = docs
  BY DEF TabInv
<1>2. page = "play" /\ watch' = watch
  BY DEF QuizPageLoad, LeaveArrives, ReloadPlay, screens
<1>3. QuizInv' /\ PushInv' /\ page' \in {"start", "play"}
  <2>1. CASE LeaveArrives
    BY <1>1, <2>1, OpenStartKeeps DEF LeaveArrives
  <2>2. CASE ReloadPlay
    BY <1>1, <2>2, ReloadPlayKeeps
  <2> QED BY <2>1, <2>2 DEF QuizPageLoad
<1>4. watch' = NoWatch
  BY <1>1, <1>2 DEF DocumentInv, WatchInv
<1>5. DocumentInv'
  BY <1>1, <1>3, <1>4, DocumentPage
<1> QED BY <1>3, <1>5 DEF TabInv

\* The inductive invariant holds at first.
LEMMA TabStarts ==
  ASSUME Init
  PROVE  TabInv
<1>1. page = "home" /\ pushing = NoPush
  BY DEF Init
<1>2. PlayInv
  BY <1>1 DEF Init, QuizInit, PlayInv
<1>3. StoreInv
  BY <1>1 DEF Init, QuizInit, StoreInv, SessionIsSaved
<1>4. SubmissionInv
  <2>1. submissions = {} /\ attempts = <<>> /\ visits = 0
    BY DEF Init, QuizInit
  <2> QED BY <1>1, <2>1, FS_EmptySet DEF SubmissionInv
<1>5. RowsInv /\ FlowInv
  BY DEF Init, DocumentInit, RowsInv, FlowInv
<1>6. UploadInv /\ WatchInv
  BY <1>1 DEF Init, DocumentInit, UploadInv, WatchInv
<1>7. PushInv
  BY <1>1 DEF PushInv, NoPush
<1> QED BY <1>2, <1>3, <1>4, <1>5, <1>6, <1>7 DEF TabInv, QuizInv, DocumentInv

\* And every step keeps it.
LEMMA TabStepKeeps ==
  ASSUME TabInv, [Next]_vars
  PROVE  TabInv'
<1>1. QuizInv /\ DocumentInv /\ PushInv
  BY DEF TabInv
<1>2. CASE page # "mock" /\ LearnerStep
  <2>1. CASE QuizStep /\ UNCHANGED documentVars
    <3>1. docs' = docs
      BY <2>1 DEF documentVars
    <3>2. QuizInv' /\ PushInv' /\ (page' = page \/ (page = "start" /\ page' = "play"))
      BY <1>1, <2>1, <3>1, QuizStepKeeps
    <3>3. page' = page \/ {page, page'} \cap {"upload", "processing"} = {}
      BY <3>2
    <3>4. DocumentInv'
      BY <1>1, <2>1, <3>3, DocumentStays
    <3> QED BY <3>2, <3>4 DEF TabInv
  <2>2. CASE QuizPageLoad /\ FlowsKilled /\ UNCHANGED <<screens, docs, losses>>
    BY <2>2, PageLoadKeeps
  <2>3. CASE DocumentStep /\ UNCHANGED quizVars
    BY <2>3, DocumentStepKeeps
  <2>4. CASE \/ NavLibrary \/ NavUpload \/ QuizLink \/ ShowProcessing
             \/ \E d \in DOMAIN docs : DocumentLink(d) \/ ProcessingLink(d)
             \/ ShowResult /\ DocumentsLeft /\ UNCHANGED <<docs, losses>>
    BY <2>4, NavigationKeeps
  <2> QED BY <1>2, <2>1, <2>2, <2>3, <2>4 DEF LearnerStep
<1>3. CASE OpenMock \/ LeaveMock
  <2>1. /\ page \notin {"play", "upload", "processing"}
        /\ page' \notin {"play", "start", "upload", "processing"}
        /\ pushing' = NoPush /\ UNCHANGED quizVars /\ UNCHANGED documentVars
    BY <1>3 DEF OpenMock, LeaveMock, Show
  <2>2. QuizInv' /\ PushInv'
    BY <1>1, <2>1, QuizStays
  <2>3. DocumentInv'
    BY <1>1, <2>1, DocumentStays
  <2> QED BY <2>2, <2>3 DEF TabInv
<1>4. ASSUME page' = page, pushing' = pushing, UNCHANGED quizVars, UNCHANGED documentVars
      PROVE  TabInv'
  <2>1. DocumentInv'
    BY <1>1, <1>4, DocumentStays
  <2>2. PushInv'
    BY <1>1, <1>4, PushStays DEF quizVars, documentVars
  <2>3. QuizInv'
    BY <1>1, <1>4, <2>2, QuizFrame
  <2> QED BY <2>1, <2>2, <2>3 DEF TabInv
<1>5. CASE page = "mock" /\ UNCHANGED <<page, pushing, clicks, quizVars, documentVars>>
  BY <1>4, <1>5
<1>6. CASE UNCHANGED vars
  BY <1>4, <1>6 DEF vars
<1> QED BY <1>2, <1>3, <1>5, <1>6 DEF Next

\* Every reachable state of the tab satisfies the inductive invariant.
LEMMA TabInvariant == Spec => []TabInv
<1> QED BY TabStarts, TabStepKeeps, PTL DEF Spec

(***************************************************************************)
(* Work in storage                                                         *)
(***************************************************************************)

\* A draft in storage has the answers of the screen that shows its mode, and there
\* is none where storage takes nothing.
KeptOnScreen ==
    /\ storage \/ \A m \in Modes : drafts[m] = NoDraft
    /\ page = "play" /\ drafts[play.mode] # NoDraft =>
           drafts[play.mode].answers = play.state.answers

\* WorkIsKept, of one step.
KeptStep ==
    \A m \in Modes, q \in Questions :
        Answered(drafts[m], q) => SameAnswer(m, q) \/ Reselected(m, q) \/ Discarded(m)

\* No draft of a quiz looks like none.
LEMMA DraftsAreSome == NoDraft \notin Drafts
<1>1. NoDraft.index \notin Questions
  BY DEF NoDraft, Questions
<1>2. \A d \in Drafts : d.index \in Questions
  BY DEF Drafts
<1> QED BY <1>1, <1>2

\* Nothing is written and no play screen changes its answers.
LEMMA WorkStays ==
  ASSUME KeptOnScreen, storage' = storage, drafts' = drafts,
         page' = "play" => /\ page = "play" /\ play'.mode = play.mode
                           /\ play'.state.answers = play.state.answers
  PROVE  KeptOnScreen' /\ KeptStep
<1>1. KeptOnScreen'
  BY DEF KeptOnScreen
<1>2. KeptStep
  BY DEF KeptStep, Answered, SameAnswer
<1> QED BY <1>1, <1>2

\* The play screen writes a draft with the answers it shows, and stays or goes.
LEMMA WorkWritten ==
  ASSUME StoreInv, KeptOnScreen, page = "play", play.mode \in Modes, storage' = storage,
         NEW draft \in Drafts, draft.answers = play.state.answers,
         drafts' = StoredAs(play.mode, draft),
         page' = "play" => play'.mode = play.mode /\ play'.state.answers = draft.answers
  PROVE  KeptOnScreen' /\ KeptStep
<1>1. drafts \in [Modes -> Drafts \cup {NoDraft}] /\ storage \in BOOLEAN
  BY DEF StoreInv
<1>2. CASE ~storage
  <2>1. drafts' = drafts
    BY <1>2 DEF StoredAs
  <2>2. \A m \in Modes : drafts[m] = NoDraft
    BY <1>2 DEF KeptOnScreen
  <2>3. KeptOnScreen'
    BY <2>1, <2>2 DEF KeptOnScreen
  <2>4. KeptStep
    BY <2>2 DEF KeptStep, Answered
  <2> QED BY <2>3, <2>4
<1>3. CASE storage
  <2>1. drafts' = [drafts EXCEPT ![play.mode] = draft] /\ draft # NoDraft
    BY <1>3, DraftsAreSome DEF StoredAs
  <2>2. KeptOnScreen'
    BY <1>1, <1>3, <2>1 DEF KeptOnScreen
  <2>3. ASSUME NEW m \in Modes, NEW q \in Questions, Answered(drafts[m], q)
        PROVE  SameAnswer(m, q)
    <3>1. CASE m # play.mode
      BY <1>1, <2>1, <2>3, <3>1 DEF SameAnswer, Answered
    <3>2. CASE m = play.mode
      <4>1. drafts[m].answers = play.state.answers
        BY <2>3, <3>2 DEF KeptOnScreen, Answered
      <4> QED BY <1>1, <2>1, <3>2, <4>1 DEF SameAnswer
    <3> QED BY <3>1, <3>2
  <2> QED BY <2>2, <2>3 DEF KeptStep
<1> QED BY <1>1, <1>2, <1>3

\* A page goes, its pending effects run.
LEMMA WorkLeft ==
  ASSUME PlayInv, StoreInv, KeptOnScreen, storage' = storage, page' # "play",
         drafts' = LeftDrafts
  PROVE  KeptOnScreen' /\ KeptStep
<1>1. CASE page = "play" /\ play.dirty
  <2>1. play.mode \in Modes /\ play.state \in Drafts
    BY <1>1 DEF PlayInv, ScreenType
  <2> QED BY <1>1, <2>1, WorkWritten DEF LeftDrafts
<1>2. CASE ~(page = "play" /\ play.dirty)
  BY <1>2, WorkStays DEF LeftDrafts
<1> QED BY <1>1, <1>2

\* sanitizeDraft keeps every answer that was given.
LEMMA SanitizeKeepsAnswers ==
  ASSUME NEW draft \in Drafts, NEW q \in Questions, draft.answers[q] # Unanswered
  PROVE  SanitizeDraft(draft).answers[q] = draft.answers[q]
<1>1. draft # NoDraft /\ draft.answers[q] \in Options
  BY DraftsAreSome DEF Drafts
<1> DEFINE answers == [p \in Questions |->
             IF draft.answers[p] \in Options THEN draft.answers[p] ELSE Unanswered]
           index == Max({1, Min({draft.index, QuestionCount})})
           flagged == draft.flagged \cap Questions
<1>2. SanitizeDraft(draft) = [draft EXCEPT !.answers = answers, !.index = index,
                                          !.flagged = flagged]
  BY <1>1 DEF SanitizeDraft
<1>3. answers[q] = draft.answers[q]
  BY <1>1
<1> HIDE DEF answers, index, flagged
<1>4. SanitizeDraft(draft).answers = answers
  BY <1>2 DEF Drafts
<1> QED BY <1>3, <1>4

\* A play screen opens with what it writes: its own mode's draft loses nothing, or
\* is discarded.
LEMMA WorkOpened ==
  ASSUME StoreInv, storage' = storage, NEW mode \in Modes, NEW draft \in Drafts,
         storage \/ \A m \in Modes : drafts[m] = NoDraft,
         WriteDraft(mode, draft), play'.mode = mode, play'.state = draft,
         \/ Discarded(mode)
         \/ storage => \A q \in Questions :
              Answered(drafts[mode], q) => draft.answers[q] = drafts[mode].answers[q]
  PROVE  KeptOnScreen' /\ KeptStep
<1>1. drafts \in [Modes -> Drafts \cup {NoDraft}] /\ storage \in BOOLEAN
  BY DEF StoreInv
<1>2. CASE ~storage
  <2>1. drafts' = drafts
    BY <1>2 DEF WriteDraft, StoredAs
  <2>2. \A m \in Modes : drafts[m] = NoDraft
    BY <1>2
  <2>3. KeptOnScreen'
    BY <2>1, <2>2 DEF KeptOnScreen
  <2>4. KeptStep
    BY <2>2 DEF KeptStep, Answered
  <2> QED BY <2>3, <2>4
<1>3. CASE storage
  <2>1. drafts' = [drafts EXCEPT ![mode] = draft] /\ draft # NoDraft
    BY <1>3, DraftsAreSome DEF WriteDraft, StoredAs
  <2>2. KeptOnScreen'
    BY <1>1, <1>3, <2>1 DEF KeptOnScreen
  <2>3. ASSUME NEW m \in Modes, NEW q \in Questions, Answered(drafts[m], q)
        PROVE  SameAnswer(m, q) \/ Discarded(m)
    <3>1. CASE m # mode
      BY <1>1, <2>1, <2>3, <3>1 DEF SameAnswer, Answered
    <3>2. CASE m = mode
      <4>1. drafts'[m] = draft
        BY <1>1, <2>1, <3>2
      <4> QED BY <1>3, <2>1, <2>3, <3>2, <4>1 DEF SameAnswer
    <3> QED BY <3>1, <3>2
  <2> QED BY <2>2, <2>3 DEF KeptStep
<1> QED BY <1>1, <1>2, <1>3

\* The start screen begins a quiz anew, or goes on with it.
LEMMA WorkStarted ==
  ASSUME QuizInv, KeptOnScreen, StartQuiz \/ ResumeQuiz
  PROVE  KeptOnScreen' /\ KeptStep
<1>1. /\ page = "start" /\ start.mode \in Modes /\ storage' = storage /\ StoreInv
      /\ drafts[start.mode] \in Drafts \cup {NoDraft}
      /\ storage \/ \A m \in Modes : drafts[m] = NoDraft
  BY DEF QuizInv, PlayInv, StoreInv, StartQuiz, ResumeQuiz, KeptOnScreen
<1>2. CASE StartQuiz
  <2>1. WriteDraft(start.mode, EmptyDraft) /\ play' = PlayScreen(start.mode, FALSE, EmptyDraft)
    BY <1>2 DEF StartQuiz, OpenPlay
  <2>2. play'.mode = start.mode /\ play'.state = EmptyDraft
    BY <2>1 DEF PlayScreen
  <2>3. Discarded(start.mode)
    BY <1>2 DEF Discarded
  <2> QED BY <1>1, <2>1, <2>2, <2>3, QuizConstants, WorkOpened
<1>3. CASE ResumeQuiz
  <2> DEFINE draft == SanitizeDraft(drafts[start.mode])
  <2>1. WriteDraft(start.mode, draft) /\ play' = PlayScreen(start.mode, TRUE, draft)
    BY <1>3 DEF ResumeQuiz, OpenPlay
  <2>2. draft \in Drafts
    BY <1>1, SanitizedDraft
  <2>3. play'.mode = start.mode /\ play'.state = draft
    BY <2>1 DEF PlayScreen
  <2>4. \A q \in Questions :
          Answered(drafts[start.mode], q) => draft.answers[q] = drafts[start.mode].answers[q]
    BY <1>1, SanitizeKeepsAnswers DEF Answered
  <2> HIDE DEF draft
  <2> QED BY <1>1, <2>1, <2>2, <2>3, <2>4, WorkOpened
<1> QED BY <1>2, <1>3

\* A reload starts from what handleBeforeUnload has written, if the address says so.
LEMMA WorkReloaded ==
  ASSUME QuizInv, KeptOnScreen, ReloadPlay
  PROVE  KeptOnScreen' /\ KeptStep
<1> DEFINE saved == StoredAs(play.mode, play.ref)[play.mode]
           draft == IF play.resume THEN SanitizeDraft(saved) ELSE EmptyDraft
<1>1. /\ page = "play" /\ storage' = storage /\ WriteDraft(play.mode, draft)
      /\ play' = PlayScreen(play.mode, play.resume, draft)
  BY DEF ReloadPlay
<1>2. /\ play \in ScreenType /\ Rendered(play) /\ StoreInv
      /\ play.mode \in Modes /\ play.ref \in Drafts
      /\ storage \/ \A m \in Modes : drafts[m] = NoDraft
  BY <1>1 DEF QuizInv, PlayInv, ScreenType, KeptOnScreen
<1>3. saved \in Drafts \cup {NoDraft} /\ (storage => saved = play.ref)
  BY <1>2, StoredDrafts
<1>4. play'.mode = play.mode /\ play'.state = draft
  BY <1>1 DEF PlayScreen
<1>5. draft \in Drafts
  <2> HIDE DEF saved
  <2> QED BY <1>3, SanitizedDraft, QuizConstants
<1>6. CASE ~play.resume
  <2>1. Discarded(play.mode)
    BY <1>6 DEF Discarded
  <2> HIDE DEF draft
  <2> QED BY <1>1, <1>2, <1>4, <1>5, <2>1, WorkOpened
<1>7. CASE play.resume
  <2>1. ASSUME storage, NEW q \in Questions, Answered(drafts[play.mode], q)
        PROVE  draft.answers[q] = drafts[play.mode].answers[q]
    <3>1. drafts[play.mode].answers = play.ref.answers
      BY <1>1, <1>2, <2>1 DEF KeptOnScreen, Answered, Rendered
    <3>2. play.ref.answers[q] # Unanswered
      BY <2>1, <3>1 DEF Answered
    <3>3. draft = SanitizeDraft(play.ref)
      BY <1>3, <1>7, <2>1
    <3>4. SanitizeDraft(play.ref).answers[q] = play.ref.answers[q]
      BY <1>2, <3>2, SanitizeKeepsAnswers
    <3> QED BY <3>1, <3>3, <3>4
  <2> HIDE DEF draft
  <2> QED BY <1>1, <1>2, <1>4, <1>5, <2>1, WorkOpened
<1> QED BY <1>6, <1>7

\* Selecting an option writes it, and no other answer.
LEMMA WorkSelected ==
  ASSUME QuizInv, KeptOnScreen, page = "play", NEW option \in Options, SelectOption(option)
  PROVE  KeptOnScreen' /\ KeptStep
<1> DEFINE p == play.state.index
           screen == [play EXCEPT !.error = FALSE, !.missing = 0]
           shown == IF play.mode = "practice" THEN ResetQuestionFeedback(screen, p, option) ELSE screen
           draft == [play.ref EXCEPT !.answers[p] = option]
<1>1. /\ UpdateDraftState(shown, draft) /\ storage' = storage /\ page' = page
  BY DEF SelectOption
<1>2. /\ play \in ScreenType /\ Rendered(play) /\ StoreInv
      /\ play.mode \in Modes /\ play.ref \in Drafts /\ p \in Questions
      /\ storage \in BOOLEAN /\ drafts \in [Modes -> Drafts \cup {NoDraft}]
  BY DEF QuizInv, PlayInv, ScreenType, StoreInv, Drafts
<1>3. /\ draft \in Drafts
      /\ \A q \in Questions \ {p} : draft.answers[q] = play.ref.answers[q]
  BY <1>2 DEF Drafts
<1>4. shown.mode = play.mode /\ shown = [shown EXCEPT !.mode = play.mode]
  BY <1>2 DEF ResetQuestionFeedback, ScreenType
<1> HIDE DEF draft
<1>5. play' = [shown EXCEPT !.state = draft, !.ref = draft, !.dirty = FALSE]
  BY <1>1 DEF UpdateDraftState
<1>6. play'.mode = play.mode /\ play'.state = draft
  BY <1>2, <1>5 DEF ResetQuestionFeedback, ScreenType
<1>7. drafts' = StoredAs(play.mode, draft)
  BY <1>1 DEF UpdateDraftState, WriteDraft
<1> HIDE DEF shown, screen
<1>8. CASE ~storage
  <2>1. drafts' = drafts
    BY <1>7, <1>8 DEF StoredAs
  <2>2. \A m \in Modes : drafts[m] = NoDraft
    BY <1>8 DEF KeptOnScreen
  <2>3. KeptOnScreen'
    BY <1>2, <1>6, <2>1, <2>2 DEF KeptOnScreen
  <2>4. KeptStep
    BY <2>2 DEF KeptStep, Answered
  <2> QED BY <2>3, <2>4
<1>9. CASE storage
  <2>1. drafts' = [drafts EXCEPT ![play.mode] = draft] /\ draft # NoDraft
    BY <1>3, <1>7, <1>9, DraftsAreSome DEF StoredAs
  <2>2. KeptOnScreen'
    BY <1>1, <1>2, <1>6, <1>9, <2>1 DEF KeptOnScreen
  <2>3. ASSUME NEW m \in Modes, NEW q \in Questions, Answered(drafts[m], q)
        PROVE  SameAnswer(m, q) \/ Reselected(m, q)
    <3>1. CASE m # play.mode
      BY <1>2, <2>1, <2>3, <3>1 DEF SameAnswer, Answered
    <3>2. CASE m = play.mode /\ q = p
      BY <3>2 DEF Reselected
    <3>3. CASE m = play.mode /\ q # p
      <4>1. drafts[m].answers = play.ref.answers
        BY <1>2, <2>3, <3>3 DEF KeptOnScreen, Answered, Rendered
      <4>2. drafts'[m] = draft
        BY <1>2, <2>1, <3>3
      <4> QED BY <1>3, <2>1, <3>3, <4>1, <4>2 DEF SameAnswer
    <3> QED BY <3>1, <3>2, <3>3
  <2> QED BY <2>2, <2>3 DEF KeptStep
<1> QED BY <1>2, <1>8, <1>9

\* A mode's draft goes away, at the learner's word or for a stored attempt.
LEMMA WorkRemoved ==
  ASSUME StoreInv, KeptOnScreen, NEW mode \in Modes, Discarded(mode), storage' = storage,
         drafts' = [drafts EXCEPT ![mode] = NoDraft],
         page' = "play" => /\ page = "play" /\ play.mode \in Modes /\ play'.mode = play.mode
                           /\ play'.state.answers = play.state.answers
  PROVE  KeptOnScreen' /\ KeptStep
<1>1. drafts \in [Modes -> Drafts \cup {NoDraft}] /\ storage \in BOOLEAN
  BY DEF StoreInv
<1>2. \A m \in Modes : drafts'[m] = IF m = mode THEN NoDraft ELSE drafts[m]
  BY <1>1
<1>3. KeptOnScreen'
  BY <1>2 DEF KeptOnScreen
<1>4. KeptStep
  BY <1>2 DEF KeptStep, SameAnswer, Answered
<1> QED BY <1>3, <1>4

\* Every step of the quiz screens.
LEMMA WorkInQuiz ==
  ASSUME QuizInv, KeptOnScreen, QuizStep
  PROVE  KeptOnScreen' /\ KeptStep
<1>1. StoreInv /\ PlayInv /\ SubmissionInv
  BY DEF QuizInv
<1>2. page = "play" => /\ play \in ScreenType /\ Rendered(play) /\ play.mode \in Modes
                       /\ play.state \in Drafts /\ play.ref \in Drafts
                       /\ play.ref.answers = play.state.answers
  BY <1>1 DEF PlayInv, ScreenType, Rendered
<1>3. CASE \/ \E m \in Modes : SelectMode(m)
           \/ OpenLeaveDialog \/ CloseLeaveDialog \/ HandleCheckAnswer \/ Tick
  <2>1. /\ storage' = storage /\ drafts' = drafts
        /\ page' = page /\ (page = "start" \/ page = "play")
    BY <1>3 DEF SelectMode, OpenLeaveDialog, CloseLeaveDialog, HandleCheckAnswer, Tick, PlayClick
  <2>2. page = "play" => play'.mode = play.mode /\ play'.state.answers = play.state.answers
    <3>1. CASE \E m \in Modes : SelectMode(m)
      BY <3>1 DEF SelectMode
    <3>2. CASE OpenLeaveDialog \/ CloseLeaveDialog \/ HandleCheckAnswer
      BY <1>2, <3>2 DEF OpenLeaveDialog, CloseLeaveDialog, HandleCheckAnswer, ScreenType
    <3>3. CASE Tick
      <4>1. play' = [play EXCEPT !.state = [play.state EXCEPT !.elapsed = play.state.elapsed + 1],
                                 !.dirty = TRUE]
        BY <1>2, <3>3 DEF Tick, ScreenType
      <4> QED BY <1>2, <3>3, <4>1 DEF Tick, ScreenType, Drafts
    <3> QED BY <1>3, <3>1, <3>2, <3>3
  <2> QED BY <2>1, <2>2, WorkStays
<1>4. CASE HandleResetDraft
  <2>1. /\ page = "start" /\ page' = page /\ storage' = storage /\ start.mode \in Modes
        /\ drafts' = [drafts EXCEPT ![start.mode] = NoDraft]
    BY <1>1, <1>4 DEF HandleResetDraft, PlayInv
  <2>2. Discarded(start.mode)
    BY <1>4 DEF Discarded
  <2> QED BY <1>1, <2>1, <2>2, WorkRemoved
<1>5. CASE StartQuiz \/ ResumeQuiz
  BY <1>5, WorkStarted
<1>6. CASE \E o \in Options : SelectOption(o)
  BY <1>6, WorkSelected DEF SelectOption, PlayClick
<1>7. CASE ToggleFlag \/ SubmitIncomplete \/ \E q \in Questions : MoveToQuestion(q)
  <2>1. page = "play" /\ page' = page /\ storage' = storage
    BY <1>7 DEF ToggleFlag, SubmitIncomplete, MoveToQuestion, PlayClick
  <2>2. PICK screen \in ScreenType, draft \in Drafts :
          /\ screen.mode = play.mode /\ screen.feedback = play.feedback
          /\ screen.requests = play.requests /\ screen.submitting = play.submitting
          /\ draft.answers = play.ref.answers
          /\ UpdateDraftState(screen, draft)
    BY <1>2, <1>7, <2>1, MoveUpdates DEF DraftMoved
  <2>3. /\ play'.state = draft /\ play'.mode = play.mode
        /\ drafts' = StoredAs(play.mode, draft)
    BY <2>2, DraftUpdated DEF UpdateDraftState, WriteDraft
  <2> QED BY <1>1, <1>2, <2>1, <2>2, <2>3, WorkWritten
<1>8. CASE HandleSubmit \/ LeaveQuiz \/ HandlePopState \/ StayOnPage
  <2>1. /\ page = "play" /\ page' = page /\ storage' = storage
        /\ drafts' = StoredAs(play.mode, play.ref)
    BY <1>8 DEF HandleSubmit, LeaveQuiz, HandlePopState, StayOnPage, PlayClick,
                ConfirmInternalLeave, WriteDraft
  <2>2. play'.mode = play.mode /\ play'.state.answers = play.state.answers
    BY <1>2, <1>8, <2>1 DEF HandleSubmit, LeaveQuiz, HandlePopState, StayOnPage,
                            ConfirmInternalLeave, ScreenType
  <2> QED BY <1>1, <1>2, <2>1, <2>2, WorkWritten
<1>9. CASE FlushEffects
  <2>1. /\ page = "play" /\ page' = page /\ storage' = storage
        /\ drafts' = StoredAs(play.mode, play.state)
        /\ play' = [play EXCEPT !.ref = play.state, !.dirty = FALSE]
    BY <1>9 DEF FlushEffects, WriteDraft
  <2>2. play'.mode = play.mode /\ play'.state.answers = play.state.answers
    BY <1>2, <2>1 DEF ScreenType
  <2> QED BY <1>1, <1>2, <2>1, <2>2, WorkWritten
<1>10. CASE \E c \in checks : CheckReturns(c)
  <2>1. /\ storage' = storage /\ drafts' = drafts /\ page' = page
        /\ \E c \in checks, status \in {"ready", "error"}, correct \in BOOLEAN :
              play' = ApplyResponse(c, status, correct)
    BY <1>10 DEF CheckReturns, GetPracticeFeedback
  <2>2. page = "play" => play'.mode = play.mode /\ play'.state.answers = play.state.answers
    BY <1>2, <2>1 DEF ApplyResponse, ScreenType
  <2> QED BY <2>1, <2>2, WorkStays
<1>11. CASE \E s \in submissions : SubmitAttempt(s)
  BY <1>11, WorkStays DEF SubmitAttempt
<1>12. ASSUME NEW s \in submissions, SubmissionReturns(s)
       PROVE  KeptOnScreen' /\ KeptStep
  <2>1. storage' = storage /\ page' = page
    BY <1>12 DEF SubmissionReturns
  <2>2. page = "play" => play'.mode = play.mode /\ play'.state.answers = play.state.answers
    <3>1. \/ play' = play
          \/ play' = [play EXCEPT !.submitting = FALSE]
          \/ play' = [play EXCEPT !.submitting = FALSE, !.error = TRUE]
      BY <1>12 DEF SubmissionReturns
    <3> QED BY <1>2, <3>1 DEF ScreenType
  <2>3. CASE s.heard /\ s.stage = "stored"
    <3>1. drafts' = [drafts EXCEPT ![s.mode] = NoDraft]
      BY <1>12, <2>3 DEF SubmissionReturns
    <3>2. s.mode \in Modes
      BY <1>1 DEF SubmissionInv, SubmissionType
    <3>3. Discarded(s.mode)
      BY <1>12, <2>3 DEF Discarded
    <3> QED BY <1>1, <1>2, <2>1, <2>2, <3>1, <3>2, <3>3, WorkRemoved
  <2>4. CASE ~(s.heard /\ s.stage = "stored")
    <3>1. drafts' = drafts
      BY <1>12, <2>4 DEF SubmissionReturns
    <3> QED BY <2>1, <2>2, <3>1, WorkStays
  <2> QED BY <2>3, <2>4
<1>13. \/ \E m \in Modes : SelectMode(m)
       \/ HandleResetDraft \/ StartQuiz \/ ResumeQuiz
       \/ \E o \in Options : SelectOption(o)
       \/ OpenLeaveDialog \/ ToggleFlag \/ HandleCheckAnswer \/ SubmitIncomplete \/ HandleSubmit
       \/ \E q \in Questions : MoveToQuestion(q)
       \/ CloseLeaveDialog \/ LeaveQuiz
       \/ Tick \/ FlushEffects \/ HandlePopState \/ StayOnPage
       \/ \E c \in checks : CheckReturns(c)
       \/ \E s \in submissions : SubmitAttempt(s)
       \/ \E s \in submissions : SubmissionReturns(s)
  BY DEF QuizStep, QuizStartScreen, QuizQuestionCard, QuizActionBar, QuizPalette,
         QuizLeaveDialog, QuizCalls
<1> QED BY <1>3, <1>4, <1>5, <1>6, <1>7, <1>8, <1>9, <1>10, <1>11, <1>12, <1>13

\* Every step of the tab.
LEMMA WorkStep ==
  ASSUME TabInv, KeptOnScreen, [Next]_vars
  PROVE  KeptOnScreen' /\ [KeptStep]_quizVars
<1>1. QuizInv /\ StoreInv /\ PlayInv
  BY DEF TabInv, QuizInv
<1>2. ASSUME UNCHANGED quizVars, page' = "play" => page = "play"
      PROVE  KeptOnScreen' /\ KeptStep
  BY <1>2, WorkStays DEF quizVars
<1>3. CASE page # "mock" /\ LearnerStep
  <2>1. CASE QuizStep
    BY <1>1, <2>1, WorkInQuiz
  <2>2. CASE QuizPageLoad
    <3>1. CASE ReloadPlay
      BY <1>1, <3>1, WorkReloaded
    <3>2. CASE LeaveArrives
      <4>1. storage' = storage /\ page' # "play" /\ drafts' = LeftDrafts
        BY <3>2 DEF LeaveArrives, OpenStart, Show
      <4> QED BY <1>1, <4>1, WorkLeft
    <3> QED BY <2>2, <3>1, <3>2 DEF QuizPageLoad
  <2>3. CASE DocumentStep /\ UNCHANGED quizVars
    <3>1. page' = page
      BY <2>3 DEF DocumentStep, UploadWorkspaceForm, UploadModelPanel, UploadStatusPanel,
                UploadCalls, ProcessingStatusPanel, ProcessingCalls, LibraryBrowser,
                HandleFileChange, HandleModelChange, ModelsReturn, EstimateReturns,
                HandleUploadSubmit, HandleRetryConfirm, CreateReturns, UploadReturns,
                ConfirmReturns, OrphanCallEnds, QuizPersisted, ProcessingEnds,
                PollAnswered, PollLost, PollReturns, PollDue, RetryDocumentProcessing,
                RetryEnds, RetryReturns, QuizDiscoveryReturns, ReloadPage, Show, LibraryLoads,
                ClearFilters, UpdateStatusFilter
    <3> QED BY <1>2, <2>3, <3>1
  <2>4. CASE \/ NavLibrary \/ NavUpload \/ QuizLink \/ ShowProcessing
             \/ \E d \in DOMAIN docs : DocumentLink(d) \/ ProcessingLink(d)
             \/ ShowResult
    <3>1. storage' = storage /\ page' # "play" /\ drafts' = LeftDrafts
      BY <2>4 DEF NavLibrary, NavUpload, QuizLink, ShowProcessing, DocumentLink, ProcessingLink,
                  ShowResult, Show, QuizLeft, OpenStart, Calls
    <3> QED BY <1>1, <3>1, WorkLeft
  <2> QED BY <1>3, <2>1, <2>2, <2>3, <2>4 DEF LearnerStep
<1>4. CASE OpenMock \/ LeaveMock
  BY <1>2, <1>4 DEF OpenMock, LeaveMock, Show, quizVars
<1>5. CASE page = "mock" /\ UNCHANGED <<page, pushing, clicks, quizVars, documentVars>>
  BY <1>2, <1>5
<1>6. CASE UNCHANGED vars
  BY <1>2, <1>6 DEF vars
<1> QED BY <1>3, <1>4, <1>5, <1>6 DEF Next

\* An answer kept in storage stays as given (useQuizSession, writeQuizDraft) until its
\* question is answered again, the learner begins anew (handleResetDraft, the start
\* link, a reload without the resume flag), or a stored submission of its mode is
\* heard (handleSubmit).
THEOREM KeptWorkStays == Spec => WorkIsKept
<1>1. Init => KeptOnScreen
  BY DEF Init, QuizInit, KeptOnScreen
<1>2. TabInv /\ KeptOnScreen /\ [Next]_vars => KeptOnScreen' /\ [KeptStep]_quizVars
  BY WorkStep
<1>3. Spec => [][KeptStep]_quizVars
  BY <1>1, <1>2, TabInvariant, PTL DEF Spec
<1> QED BY <1>3 DEF WorkIsKept, KeptStep

(***************************************************************************)
(* What the runs check, for every value of the constants                   *)
(***************************************************************************)

\* Whatever the learner clicks and leaves, and whatever calls return late: storage
\* (writeQuizDraft) holds what the play screen shows (useQuizSession), or nothing, and
\* then an attempt of the same mode was stored, by this session or an older one
\* (handleSubmit, clearQuizDraft), and a push is under way.
THEOREM SessionStaysSaved == Spec => []SessionIsSaved
<1>1. TabInv => SessionIsSaved
  BY DEF TabInv, QuizInv, StoreInv
<1> QED BY <1>1, TabInvariant, PTL

\* Feedback on screen (PracticeFeedbackPanel) is for the option selected and right
\* about it, whatever order options are selected, checks sent and answers returned in.
THEOREM FeedbackStaysCurrent == Spec => []FeedbackIsCurrent
<1>1. ASSUME TabInv, page = "play", NEW q \in Questions,
             PracticeFeedbackPanel(q) \in {"right", "wrong"}
      PROVE  /\ play.feedback[q].option = play.state.answers[q]
             /\ PracticeFeedbackPanel(q) = IF play.state.answers[q] = Key[q] THEN "right" ELSE "wrong"
  <2>1. play.feedback[q].status = "ready"
    <3>1. play.feedback[q].status = "loading" => PracticeFeedbackPanel(q) = "checking"
      BY DEF PracticeFeedbackPanel
    <3>2. play.feedback[q].status = "error" => PracticeFeedbackPanel(q) = "sorry"
      BY DEF PracticeFeedbackPanel
    <3>3. play.feedback[q].status \notin {"loading", "error", "ready"} =>
            PracticeFeedbackPanel(q) = "none"
      BY DEF PracticeFeedbackPanel
    <3> QED BY <1>1, <3>1, <3>2, <3>3
  <2>2. PracticeFeedbackPanel(q) = IF play.feedback[q].correct THEN "right" ELSE "wrong"
    BY <2>1 DEF PracticeFeedbackPanel
  <2>3. Checked(play, checks)
    BY <1>1 DEF TabInv, QuizInv, PlayInv
  <2>4. /\ play.feedback[q].option = play.state.answers[q]
        /\ play.feedback[q].correct <=> play.state.answers[q] = Key[q]
    BY <2>1, <2>3 DEF Checked
  <2> QED BY <2>2, <2>4
<1>2. TabInv => FeedbackIsCurrent
  BY <1>1 DEF FeedbackIsCurrent
<1> QED BY <1>2, TabInvariant, PTL

\* A play screen has at most one submission whose answer it will hear, and is
\* submitting exactly while it has one: an attempt is stored once per click.
THEOREM OneSubmissionUnderWay == Spec => []OneSubmissionAtATime
<1>1. ASSUME TabInv, page = "play"
      PROVE  LET mine == {s \in submissions : s.heard /\ s.visit = visits}
             IN  Cardinality(mine) <= 1 /\ (play.submitting <=> mine # {})
  <2> DEFINE mine == {s \in submissions : s.heard /\ s.visit = visits}
  <2>1. SubmissionInv
    BY <1>1 DEF TabInv, QuizInv
  <2>2. \A s, t \in mine : s = t
    BY <2>1 DEF SubmissionInv, Current
  <2>3. play.submitting <=> mine # {}
    BY <1>1, <2>1 DEF SubmissionInv, Current
  <2>4. Cardinality(mine) <= 1
    <3> HIDE DEF mine
    <3>1. CASE mine = {}
      BY <3>1, FS_EmptySet
    <3>2. CASE mine # {}
      <4>1. PICK s \in mine : mine = {s}
        BY <2>2, <3>2
      <4>2. Cardinality({s}) = 1
        BY FS_Singleton
      <4> QED BY <4>1, <4>2
    <3> QED BY <3>1, <3>2
  <2> QED BY <2>3, <2>4
<1>2. TabInv => OneSubmissionAtATime
  BY <1>1 DEF OneSubmissionAtATime
<1> QED BY <1>2, TabInvariant, PTL

\* A question that waits for feedback has its last check under way; a step of an
\* upload in progress has its flow, and an estimate being computed has a call for the
\* choice that was not cancelled, but for a rejected file with a model chosen
\* (handleFileChange), whose wait nothing ends.
THEOREM WaitsEnd == Spec => []WaitsAreAwaited
<1>1. TabInv => LoadingIsAwaited
  <2> SUFFICES ASSUME TabInv, page = "play", NEW q \in Questions,
                      PracticeFeedbackPanel(q) = "checking"
               PROVE  \E c \in checks : c.question = q /\ c.request = play.requests[q]
    BY DEF LoadingIsAwaited
  <2>1. play.feedback[q].status = "loading"
    <3>1. play.feedback[q].status = "ready" => PracticeFeedbackPanel(q) \in {"right", "wrong"}
      BY DEF PracticeFeedbackPanel
    <3>2. play.feedback[q].status = "error" => PracticeFeedbackPanel(q) = "sorry"
      BY DEF PracticeFeedbackPanel
    <3>3. play.feedback[q].status \notin {"loading", "error", "ready"} =>
            PracticeFeedbackPanel(q) = "none"
      BY DEF PracticeFeedbackPanel
    <3> QED BY <3>1, <3>2, <3>3
  <2>2. Checked(play, checks)
    BY DEF TabInv, QuizInv, PlayInv
  <2> QED BY <2>1, <2>2 DEF Checked, Awaited
<1>2. TabInv => UploadWaitIsAwaited
  BY DEF TabInv, DocumentInv, UploadInv, Estimated, Stranded, UploadWaitIsAwaited
<1> QED BY <1>1, <1>2, TabInvariant, PTL DEF WaitsAreAwaited

\* What may be submitted was estimated for the file and the model chosen, however
\* choices and estimates overtake each other (estimateModelSelection), and the
\* panel shows one box at most.
THEOREM EstimateFitsChoice == Spec => []EstimateIsOfChoice
<1>1. ASSUME TabInv, page = "upload"
      PROVE  /\ CanSubmit => upload.estimate = upload.choice
             /\ Cardinality(UploadEstimatePanel) <= 1
  <2>1. Estimated(upload, estimates)
    BY <1>1 DEF TabInv, DocumentInv, UploadInv
  <2>2. CanSubmit => upload.estimate = upload.choice
    BY <2>1 DEF Estimated, CanSubmit
  <2>3. \A a, b \in UploadEstimatePanel : a = b
    BY <2>1 DEF Estimated, UploadEstimatePanel
  <2>4. CASE UploadEstimatePanel = {}
    BY <2>2, <2>4, FS_EmptySet
  <2>5. CASE UploadEstimatePanel # {}
    <3>1. PICK box \in UploadEstimatePanel : UploadEstimatePanel = {box}
      BY <2>3, <2>5
    <3>2. Cardinality({box}) = 1
      BY FS_Singleton
    <3> QED BY <2>2, <3>1, <3>2
  <2> QED BY <2>4, <2>5
<1>2. TabInv => EstimateIsOfChoice
  BY <1>1 DEF EstimateIsOfChoice
<1> QED BY <1>2, TabInvariant, PTL

\* However many uploads, retries and lost answers: a document's processing is ordered
\* once, and once more after each failure (confirmProcessing's compare-and-set).
THEOREM WorkStaysOrderedOnce == Spec => []WorkIsOrderedOnce
<1>1. TabInv => WorkIsOrderedOnce
  BY DEF TabInv, DocumentInv, RowsInv, Ordered, WorkIsOrderedOnce
<1> QED BY <1>1, TabInvariant, PTL

\* The processing screen stops polling at a final status only, and shows another one
\* than the document's only for a reason it shows, or when a confirm from elsewhere
\* came after a failure.
THEOREM ScreenStaysTrue == Spec => []ScreenFollowsDocument
<1>1. ASSUME TabInv, page = "processing", watch.poll = "stopped"
      PROVE  \/ watch.shown = docs[watch.doc].status
             \/ watch.retrying # "no" \/ watch.retryError
             \/ docs[watch.doc].by = "elsewhere" /\ docs[watch.doc].events > 1
  <2>1. Followed(watch, docs[watch.doc])
    BY <1>1 DEF TabInv, DocumentInv, WatchInv
  <2> QED BY <1>1, <2>1 DEF Followed, Final
<1>2. TabInv => ScreenFollowsDocument
  BY <1>1 DEF ScreenFollowsDocument
<1> QED BY <1>2, TabInvariant, PTL


(***************************************************************************)
(* The fixture screens                                                     *)
(***************************************************************************)

FormPages == {"login", "signup", "forgot", "reset"}

\* The fields that fail the validation of form p.
Invalid(p, v) ==
    CASE p = "login"      -> ValidateLoginValues(v)
      [] p = "signup"     -> ValidateSignupValues(v)
      [] p = "forgot"     -> ValidateForgotPasswordValues(v)
      [] p = "reset"      -> ValidateResetPasswordValues(v)
      [] p = "onboarding" -> {f \in DOMAIN v : v[f] = "none"}

FormOK ==
    mock.page \in FormPages =>
        /\ {"values", "errors", "awaited", "accepted"} \subseteq DOMAIN mock
        /\ \A v \in mock.awaited \cup mock.accepted : Invalid(mock.page, v) = {}

\* What was chosen in the steps left stays chosen, and while a request runs or a
\* success is shown only the trust note can be taken back.
OnboardingOK ==
    mock.page = "onboarding" =>
        /\ {"step", "values", "errors", "awaited", "accepted"} \subseteq DOMAIN mock
        /\ mock.step \in 1..LastStep
        /\ DOMAIN mock.values = {OnboardingSteps[i] : i \in 1..LastStep}
        /\ \A i \in 1..LastStep :
               i < mock.step \/ (i < LastStep /\ mock.awaited \cup mock.accepted # {}) =>
                   mock.values[OnboardingSteps[i]] # "none"
        /\ \A v \in mock.awaited \cup mock.accepted : Invalid("onboarding", v) = {}

ReviewOK ==
    mock.page = "review" =>
        /\ {"currentIndex", "isAnswerVisible", "ratings"} \subseteq DOMAIN mock
        /\ mock.currentIndex \in 1..(ReviewCards + 1)
        /\ DOMAIN mock.ratings = 1..ReviewCards
        /\ ReviewIsInOrder

SetupOK ==
    mock.page = "setup" =>
        /\ {"course", "selected", "type"} \subseteq DOMAIN mock
        /\ SelectionIsOfCourse

TutorOK ==
    mock.page = "tutor" =>
        /\ {"context", "composer", "latest"} \subseteq DOMAIN mock
        /\ AnswersAreGrounded

UpgradeOK ==
    mock.page = "upgrade" =>
        /\ {"billingCycle", "selectedPlanId", "toast"} \subseteq DOMAIN mock
        /\ mock.billingCycle \in {"monthly", "yearly"}
        /\ mock.selectedPlanId \in DOMAIN PlanCards

MockInv ==
    /\ "page" \in DOMAIN mock
    /\ FormOK /\ OnboardingOK /\ ReviewOK /\ SetupOK /\ TutorOK /\ UpgradeOK

\* Every fixture screen opens with nothing sent, nothing shown as done, no card
\* rated and no document ticked but the course's.
LEMMA MockOpens ==
  ASSUME mock' \in OpenScreens \cup {NoMock}
  PROVE  MockInv'
<1>1. CASE mock' = NoMock
  BY <1>1 DEF NoMock, MockInv, FormPages, FormOK, OnboardingOK, ReviewOK, SetupOK, TutorOK, UpgradeOK
<1>2. CASE \E p \in FormPages : mock' = OpenForm(p)
  BY <1>2 DEF OpenForm, MockInv, FormPages, FormOK, OnboardingOK, ReviewOK, SetupOK, TutorOK, UpgradeOK
<1>3. CASE mock' = OpenOnboarding
  <2>1. LastStep = 5
    BY DEF LastStep, OnboardingSteps
  <2>2. OnboardingOK'
    BY <1>3, <2>1 DEF OpenOnboarding, OnboardingOK
  <2> QED
    BY <1>3, <2>2 DEF OpenOnboarding, MockInv, FormPages, FormOK, ReviewOK, SetupOK, TutorOK, UpgradeOK
<1>4. CASE mock' \in {OpenVerify, OpenCourses, OpenExam, OpenSettings, OpenAssignment, OpenJobs}
  BY <1>4 DEF OpenVerify, OpenCourses, OpenExam, OpenSettings, OpenAssignment, OpenJobs,
              MockInv, FormPages, FormOK, OnboardingOK, ReviewOK, SetupOK, TutorOK, UpgradeOK
<1>5. CASE mock' = OpenReview
  <2>1. ReviewOK'
    BY <1>5, MockAssumption DEF OpenReview, ReviewOK, ReviewIsInOrder
  <2> QED
    BY <1>5, <2>1 DEF OpenReview, MockInv, FormPages, FormOK, OnboardingOK, SetupOK, TutorOK, UpgradeOK
<1>6. CASE mock' = OpenExamSetup
  BY <1>6 DEF OpenExamSetup, SelectionIsOfCourse, CourseDocuments,
              MockInv, FormPages, FormOK, OnboardingOK, ReviewOK, SetupOK, TutorOK, UpgradeOK
<1>7. CASE mock' = OpenUpgrade
  BY <1>7 DEF OpenUpgrade, PlanCards,
              MockInv, FormPages, FormOK, OnboardingOK, ReviewOK, SetupOK, TutorOK, UpgradeOK
<1>8. CASE \E c \in DOMAIN ContextDocuments : mock' = OpenTutor(c)
  BY <1>8 DEF OpenTutor, BuildGreetingMessage, AnswersAreGrounded,
              MockInv, FormPages, FormOK, OnboardingOK, ReviewOK, SetupOK, TutorOK, UpgradeOK
<1> QED
  BY <1>1, <1>2, <1>3, <1>4, <1>5, <1>6, <1>7, <1>8 DEF OpenScreens, FormPages

\* A step of an account form: a request runs with values that passed, and what it was
\* given is what the success shown is about.
LEMMA FormKeeps ==
  ASSUME MockInv, mock.page \in FormPages,
         LoginForm \/ SignupForm \/ ForgotPasswordForm \/ ResetPasswordForm
  PROVE  MockInv'
<1>1. /\ {"page", "values", "errors", "awaited", "accepted"} \subseteq DOMAIN mock
      /\ \A v \in mock.awaited \cup mock.accepted : Invalid(mock.page, v) = {}
  BY DEF MockInv, FormOK
<1>2. CASE EditAny \/ \E x \in FieldChoices("email") :
             mock' = [mock EXCEPT !.values.email = x, !.errors = RemoveFieldError(@, "email")]
  <2>1. /\ DOMAIN mock' = DOMAIN mock /\ mock'.page = mock.page
        /\ mock'.awaited = mock.awaited /\ mock'.accepted \in {mock.accepted, {}}
    BY <1>1, <1>2 DEF EditAny, UpdateValue
  <2> QED
    BY <1>1, <2>1 DEF MockInv, FormPages, FormOK, OnboardingOK, ReviewOK, SetupOK, TutorOK, UpgradeOK
<1>3. CASE HandleFormSubmit(Invalid(mock.page, mock.values))
  <2>1. /\ DOMAIN mock' = DOMAIN mock /\ mock'.page = mock.page /\ mock'.accepted = {}
        /\ \A v \in mock'.awaited : Invalid(mock.page, v) = {}
    BY <1>1, <1>3 DEF HandleFormSubmit
  <2> QED
    BY <1>1, <2>1 DEF MockInv, FormPages, FormOK, OnboardingOK, ReviewOK, SetupOK, TutorOK, UpgradeOK
<1>4. CASE WaitForMockRequest \/ mock' = [mock EXCEPT !.accepted = {}]
  <2>1. /\ DOMAIN mock' = DOMAIN mock /\ mock'.page = mock.page
        /\ mock'.awaited \cup mock'.accepted \subseteq mock.awaited \cup mock.accepted
    BY <1>1, <1>4 DEF WaitForMockRequest
  <2> QED
    BY <1>1, <2>1 DEF MockInv, FormPages, FormOK, OnboardingOK, ReviewOK, SetupOK, TutorOK, UpgradeOK
<1>5. /\ mock.page = "login" => Invalid(mock.page, mock.values) = ValidateLoginValues(mock.values)
      /\ mock.page = "signup" => Invalid(mock.page, mock.values) = ValidateSignupValues(mock.values)
      /\ mock.page = "forgot" => Invalid(mock.page, mock.values) = ValidateForgotPasswordValues(mock.values)
      /\ mock.page = "reset" => Invalid(mock.page, mock.values) = ValidateResetPasswordValues(mock.values)
  BY DEF Invalid
<1> QED
  BY <1>2, <1>3, <1>4, <1>5 DEF LoginForm, SignupForm, ForgotPasswordForm, ResetPasswordForm

\* A step of the onboarding: a step is left with its field chosen, and a choice is
\* never undone but the last.
LEMMA OnboardingKeeps ==
  ASSUME MockInv, OnboardingFlow
  PROVE  MockInv'
<1>0. LastStep = 5 /\ OnboardingSteps = <<"goal", "language", "level", "firstAction", "acceptsTrustNote">>
  BY DEF LastStep, OnboardingSteps
<1>1. /\ mock.page = "onboarding"
      /\ {"page", "step", "values", "errors", "awaited", "accepted"} \subseteq DOMAIN mock
      /\ mock.step \in 1..5
      /\ DOMAIN mock.values = {OnboardingSteps[i] : i \in 1..5}
      /\ \A i \in 1..5 :
             i < mock.step \/ (i < 5 /\ mock.awaited \cup mock.accepted # {}) =>
                 mock.values[OnboardingSteps[i]] # "none"
      /\ \A v \in mock.awaited \cup mock.accepted : Invalid("onboarding", v) = {}
  BY <1>0 DEF OnboardingFlow, MockInv, OnboardingOK
<1>2. \A i, j \in 1..5 : i # j => OnboardingSteps[i] # OnboardingSteps[j]
  BY <1>0
<1>3. SUFFICES /\ DOMAIN mock' = DOMAIN mock /\ mock'.page = mock.page
               /\ mock'.step \in 1..5
               /\ DOMAIN mock'.values = DOMAIN mock.values
               /\ \A i \in 1..5 :
                      i < mock'.step \/ (i < 5 /\ mock'.awaited \cup mock'.accepted # {}) =>
                          mock'.values[OnboardingSteps[i]] # "none"
               /\ \A v \in mock'.awaited \cup mock'.accepted : Invalid("onboarding", v) = {}
  BY <1>0, <1>1, <1>3 DEF MockInv, FormPages, FormOK, OnboardingOK, ReviewOK, SetupOK, TutorOK, UpgradeOK
<1>4. CASE ChooseOption
  <2> DEFINE f == OnboardingSteps[mock.step]
  <2>1. PICK x \in OnboardingOptions[f] :
            mock' = [mock EXCEPT !.values[f] = x, !.errors = RemoveFieldError(@, f), !.accepted = {}]
    BY <1>4 DEF ChooseOption, UpdateValue
  <2>2. mock.step < 5 => x # "none"
    BY <1>0, <1>1, <2>1 DEF OnboardingOptions
  <2>3. /\ DOMAIN mock' = DOMAIN mock /\ mock'.page = mock.page /\ mock'.step = mock.step
        /\ mock'.awaited = mock.awaited /\ mock'.accepted = {}
        /\ mock'.values = [mock.values EXCEPT ![f] = x]
    BY <1>1, <2>1
  <2>4. ASSUME NEW i \in 1..5, i < mock.step \/ (i < 5 /\ mock.awaited # {})
        PROVE  mock'.values[OnboardingSteps[i]] # "none"
    <3>1. mock.values[OnboardingSteps[i]] # "none"
      BY <1>1, <2>4
    <3>2. CASE i = mock.step
      BY <1>1, <2>2, <2>3, <2>4, <3>2
    <3>3. CASE i # mock.step
      <4>1. OnboardingSteps[i] # f
        BY <1>1, <1>2, <3>3
      <4> QED BY <1>1, <2>3, <3>1, <4>1
    <3> QED BY <3>2, <3>3
  <2> HIDE DEF f
  <2> QED BY <1>1, <2>3, <2>4
<1>5. CASE GoBack
  <2>1. /\ DOMAIN mock' = DOMAIN mock /\ mock'.page = mock.page /\ mock'.values = mock.values
        /\ mock'.awaited = mock.awaited /\ mock'.accepted = mock.accepted
        /\ mock.step > 1 /\ mock'.step = mock.step - 1
    BY <1>1, <1>5 DEF GoBack
  <2> QED BY <1>1, <2>1
<1>6. CASE GoNext
  <2>1. /\ DOMAIN mock' = DOMAIN mock /\ mock'.page = mock.page /\ mock'.values = mock.values
        /\ mock'.awaited = mock.awaited /\ mock'.accepted = mock.accepted
        /\ mock.step < 5
        /\ \/ mock'.step = mock.step
           \/ mock'.step = mock.step + 1 /\ GetStepValidationErrors(mock.step, mock.values) = {}
    BY <1>0, <1>1, <1>6 DEF GoNext
  <2>2. GetStepValidationErrors(mock.step, mock.values) = {} =>
            mock.values[OnboardingSteps[mock.step]] # "none"
    BY DEF GetStepValidationErrors
  <2> QED BY <1>1, <2>1, <2>2
<1>7. CASE HandleFinish
  <2> DEFINE invalid == GetStepValidationErrors(mock.step, mock.values)
  <2>1. /\ DOMAIN mock' = DOMAIN mock /\ mock'.page = mock.page /\ mock'.values = mock.values
        /\ mock'.step = mock.step /\ mock.step = 5 /\ mock'.accepted = mock.accepted
        /\ mock'.awaited = IF invalid = {} THEN {mock.values} ELSE {}
    BY <1>0, <1>1, <1>7 DEF HandleFinish
  <2>2. ASSUME invalid = {}
        PROVE  Invalid("onboarding", mock.values) = {}
    <3>1. mock.values[OnboardingSteps[5]] # "none"
      BY <2>1, <2>2 DEF GetStepValidationErrors
    <3>2. \A i \in 1..5 : mock.values[OnboardingSteps[i]] # "none"
      BY <1>1, <2>1, <3>1
    <3> QED BY <1>1, <3>2 DEF Invalid
  <2>3. \A v \in mock'.awaited : Invalid("onboarding", v) = {}
    BY <2>1, <2>2
  <2> HIDE DEF invalid
  <2> QED BY <1>1, <2>1, <2>3
<1>8. CASE WaitForMockRequest
  <2>1. /\ DOMAIN mock' = DOMAIN mock /\ mock'.page = mock.page /\ mock'.values = mock.values
        /\ mock'.step = mock.step
        /\ mock'.awaited = {} /\ mock'.accepted = mock.awaited
    BY <1>1, <1>8 DEF WaitForMockRequest
  <2> QED BY <1>1, <2>1
<1> QED BY <1>4, <1>5, <1>6, <1>7, <1>8 DEF OnboardingFlow

\* A step of a review: the card shown is rated, and the next is shown.
LEMMA ReviewKeeps ==
  ASSUME MockInv, FlashcardReviewExperience
  PROVE  MockInv'
<1>1. /\ mock.page = "review"
      /\ {"page", "currentIndex", "isAnswerVisible", "ratings"} \subseteq DOMAIN mock
      /\ mock.currentIndex \in 1..(ReviewCards + 1)
      /\ DOMAIN mock.ratings = 1..ReviewCards
      /\ \A c \in 1..ReviewCards : (mock.ratings[c] # "none") <=> (c < mock.currentIndex)
      /\ ReviewCards \in Nat
  BY MockAssumption DEF FlashcardReviewExperience, MockInv, ReviewOK, ReviewIsInOrder
<1>2. CASE RevealAnswer
  <2>1. /\ DOMAIN mock' = DOMAIN mock /\ mock'.page = mock.page
        /\ mock'.currentIndex = mock.currentIndex /\ mock'.ratings = mock.ratings
    BY <1>1, <1>2 DEF RevealAnswer
  <2> QED
    BY <1>1, <2>1
    DEF ReviewIsInOrder, MockInv, FormPages, FormOK, OnboardingOK, ReviewOK, SetupOK, TutorOK, UpgradeOK
<1>3. CASE HandleRateCard
  <2>1. PICK rating \in Ratings :
            mock' = [mock EXCEPT !.ratings[mock.currentIndex] = rating, !.isAnswerVisible = FALSE,
                                 !.currentIndex = @ + 1]
    BY <1>3 DEF HandleRateCard
  <2>2. mock.currentIndex \in 1..ReviewCards
    BY <1>1, <1>3 DEF HandleRateCard, IsComplete
  <2>3. /\ DOMAIN mock' = DOMAIN mock /\ mock'.page = mock.page
        /\ mock'.currentIndex = mock.currentIndex + 1
        /\ mock'.ratings = [mock.ratings EXCEPT ![mock.currentIndex] = rating]
    BY <1>1, <2>1
  <2>4. rating # "none"
    BY DEF Ratings
  <2>5. \A c \in 1..ReviewCards : (mock'.ratings[c] # "none") <=> (c < mock'.currentIndex)
    BY <1>1, <2>2, <2>3, <2>4
  <2> QED
    BY <1>1, <2>2, <2>3, <2>5
    DEF ReviewIsInOrder, MockInv, FormPages, FormOK, OnboardingOK, ReviewOK, SetupOK, TutorOK, UpgradeOK
<1>4. CASE ResetReview
  BY <1>4, MockOpens DEF ResetReview, OpenScreens
<1> QED BY <1>2, <1>3, <1>4 DEF FlashcardReviewExperience

\* A step of exam setup or tutor: documents ticked are of the course chosen, and an
\* answer keeps the context it was asked in.
LEMMA SetupAndTutorKeep ==
  ASSUME MockInv, ExamSetupScreen \/ TutorPageContent
  PROVE  MockInv'
<1>1. CASE ExamSetupScreen
  <2>1. /\ mock.page = "setup" /\ {"page", "course", "selected", "type"} \subseteq DOMAIN mock
        /\ mock.selected \subseteq CourseDocuments[mock.course]
    BY <1>1 DEF ExamSetupScreen, MockInv, SetupOK, SelectionIsOfCourse
  <2>2. /\ DOMAIN mock' = DOMAIN mock /\ mock'.page = mock.page
        /\ mock'.selected \subseteq CourseDocuments[mock'.course]
    <3>1. CASE ToggleDocument
      BY <2>1, <3>1 DEF ToggleDocument
    <3>2. CASE \E c \in DOMAIN CourseDocuments : SelectCourse(c)
      BY <2>1, <3>2 DEF SelectCourse
    <3>3. CASE \E t \in {"mixed", "conceptual", "timed"} : mock' = [mock EXCEPT !.type = t]
      BY <2>1, <3>3
    <3> QED BY <1>1, <3>1, <3>2, <3>3 DEF ExamSetupScreen
  <2> QED
    BY <2>1, <2>2
    DEF SelectionIsOfCourse, MockInv, FormPages, FormOK, OnboardingOK, ReviewOK, SetupOK, TutorOK, UpgradeOK
<1>2. CASE TutorPageContent
  <2>1. /\ mock.page = "tutor" /\ {"page", "context", "composer", "latest"} \subseteq DOMAIN mock
        /\ mock.latest.citations \subseteq ContextDocuments[mock.latest.asked]
        /\ mock.latest.noEvidence => mock.latest.citations = {}
    BY <1>2 DEF TutorPageContent, MockInv, TutorOK, AnswersAreGrounded
  <2>2. /\ DOMAIN mock' = DOMAIN mock /\ mock'.page = mock.page
        /\ mock'.latest.citations \subseteq ContextDocuments[mock'.latest.asked]
        /\ mock'.latest.noEvidence => mock'.latest.citations = {}
    <3>1. CASE SubmitPrompt
      <4>1. PICK template : mock' = [mock EXCEPT !.latest = BuildAssistantMessage(template, mock.context),
                                                 !.composer = FALSE]
        BY <3>1 DEF SubmitPrompt
      <4>2. PICK cited : /\ BuildAssistantMessage(template, mock.context) =
                              [asked |-> mock.context, citations |-> cited, noEvidence |-> cited = {}]
                         /\ cited \subseteq ContextDocuments[mock.context]
        BY DEF BuildAssistantMessage
      <4> DEFINE message == [asked |-> mock.context, citations |-> cited, noEvidence |-> cited = {}]
      <4>3. message.asked = mock.context /\ message.citations = cited
        OBVIOUS
      <4>4. message.noEvidence = (cited = {})
        OBVIOUS
      <4> HIDE DEF message
      <4>5. DOMAIN mock' = DOMAIN mock /\ mock'.page = mock.page /\ mock'.latest = message
        BY <2>1, <4>1, <4>2 DEF message
      <4> QED BY <4>2, <4>3, <4>4, <4>5, Zenon
    <3>2. CASE \/ \E typed \in BOOLEAN : mock' = [mock EXCEPT !.composer = typed]
               \/ \E c \in DOMAIN ContextDocuments : mock' = [mock EXCEPT !.context = c]
      BY <2>1, <3>2
    <3> QED BY <1>2, <3>1, <3>2 DEF TutorPageContent
  <2> QED
    BY <2>1, <2>2
    DEF AnswersAreGrounded, MockInv, FormPages, FormOK, OnboardingOK, ReviewOK, SetupOK, TutorOK, UpgradeOK
<1> QED BY <1>1, <1>2

\* A step of the other screens.
LEMMA OtherScreensKeep ==
  ASSUME MockInv,
         \/ VerifyEmailPanel \/ CoursesPageContent \/ HandleCreateCourse \/ PracticeExamScreen
         \/ SettingsScreen \/ UpgradeScreen \/ TeacherAssignmentForm \/ AdminJobsBoard
  PROVE  MockInv'
<1> DEFINE Others == {"verify", "courses", "exam", "examResult", "settings", "assignment", "jobs"}
<1>1. "page" \in DOMAIN mock
  BY DEF MockInv
<1>2. ASSUME "page" \in DOMAIN mock', mock'.page \in Others PROVE MockInv'
  BY <1>2 DEF MockInv, FormPages, FormOK, OnboardingOK, ReviewOK, SetupOK, TutorOK, UpgradeOK
<1>3. CASE VerifyEmailPanel
  BY <1>1, <1>2, <1>3 DEF VerifyEmailPanel
<1>4. CASE CoursesPageContent \/ HandleCreateCourse
  BY <1>1, <1>2, <1>4 DEF CoursesPageContent, HandleCreateCourse, OpenCourses
<1>5. CASE PracticeExamScreen
  BY <1>1, <1>2, <1>5
  DEF PracticeExamScreen, ExamClock, SubmitDialog, SubmitExam, SelectExamOption, ToggleExamFlag, GoToQuestion
<1>6. CASE SettingsScreen
  BY <1>1, <1>2, <1>6 DEF SettingsScreen, SelectTab, ChangeSetting
<1>7. CASE TeacherAssignmentForm
  BY <1>1, <1>2, <1>7
  DEF TeacherAssignmentForm, UpdateField, HandleSaveDraft, HandleAssignmentSubmit, ToastEnds
<1>8. CASE AdminJobsBoard
  BY <1>1, <1>2, <1>8 DEF AdminJobsBoard, ToastEnds
<1>9. CASE UpgradeScreen
  <2>1. /\ mock.page = "upgrade"
        /\ {"page", "billingCycle", "selectedPlanId", "toast"} \subseteq DOMAIN mock
        /\ mock.billingCycle \in {"monthly", "yearly"} /\ mock.selectedPlanId \in DOMAIN PlanCards
    BY <1>9 DEF UpgradeScreen, MockInv, UpgradeOK
  <2>2. /\ DOMAIN mock' = DOMAIN mock /\ mock'.page = mock.page
        /\ mock'.billingCycle \in {"monthly", "yearly"} /\ mock'.selectedPlanId \in DOMAIN PlanCards
    BY <1>9, <2>1 DEF UpgradeScreen, SetBillingCycle, SelectPlan, UpgradeToSelectedPlan, ToastEnds
  <2> QED
    BY <2>1, <2>2 DEF MockInv, FormPages, FormOK, OnboardingOK, ReviewOK, SetupOK, TutorOK, UpgradeOK
<1> QED BY <1>3, <1>4, <1>5, <1>6, <1>7, <1>8, <1>9

\* And so does every step of the fixture screens.
LEMMA MockStepKeeps ==
  ASSUME MockInv, MockStep
  PROVE  MockInv'
<1>1. CASE LoginForm \/ SignupForm \/ ForgotPasswordForm \/ ResetPasswordForm
  <2>1. mock.page \in FormPages
    BY <1>1 DEF LoginForm, SignupForm, ForgotPasswordForm, ResetPasswordForm, FormPages
  <2> QED BY <1>1, <2>1, FormKeeps
<1>2. CASE OnboardingFlow
  BY <1>2, OnboardingKeeps
<1>3. CASE FlashcardReviewExperience
  BY <1>3, ReviewKeeps
<1>4. CASE ExamSetupScreen \/ TutorPageContent
  BY <1>4, SetupAndTutorKeep
<1>5. CASE \/ VerifyEmailPanel \/ CoursesPageContent \/ HandleCreateCourse \/ PracticeExamScreen
           \/ SettingsScreen \/ UpgradeScreen \/ TeacherAssignmentForm \/ AdminJobsBoard
  BY <1>5, OtherScreensKeep
<1> QED BY <1>1, <1>2, <1>3, <1>4, <1>5 DEF MockStep

\* An exam shows 100 percent exactly when every question is answered.
LEMMA HundredIsAll ==
  ASSUME NEW whole \in 1..10, NEW part \in 0..whole
  PROVE  RoundedPct(part, whole) = 100 <=> part = whole
BY DEF RoundedPct

\* What the derived figures are derived from.
LEMMA FiguresAreTrue ==
  ASSUME MockInv
  PROVE  FiguresAgree
<1>1. ASSUME mock.page = "exam"
      PROVE  ExamSummary.progressPct = 100 <=> ExamSummary.unanswered = 0
  <2> DEFINE answered == CountAnsweredQuestions
  <2>1. ExamQuestions \in 1..10
    BY MockAssumption
  <2>2. answered \in 0..ExamQuestions
    <3>1. /\ IsFiniteSet(1..ExamQuestions) /\ Cardinality(1..ExamQuestions) = ExamQuestions
      <4>1. ExamQuestions \in Int /\ 1 \in Int /\ ExamQuestions >= 1
        BY <2>1
      <4>2. /\ IsFiniteSet(1..ExamQuestions)
            /\ Cardinality(1..ExamQuestions) = IF 1 > ExamQuestions THEN 0 ELSE ExamQuestions - 1 + 1
        BY <4>1, FS_Interval, Zenon
      <4> QED BY <4>1, <4>2
    <3>2. {q \in 1..ExamQuestions : mock.answers[q] # 0} \subseteq 1..ExamQuestions
      OBVIOUS
    <3> HIDE DEF answered
    <3>3. /\ Cardinality({q \in 1..ExamQuestions : mock.answers[q] # 0}) <= ExamQuestions
          /\ Cardinality({q \in 1..ExamQuestions : mock.answers[q] # 0}) \in Nat
      BY <2>1, <3>1, <3>2, FS_Subset, FS_CardinalityType
    <3>4. answered = Cardinality({q \in 1..ExamQuestions : mock.answers[q] # 0})
      BY DEF answered, CountAnsweredQuestions
    <3> QED BY <2>1, <3>3, <3>4
  <2>3. ExamSummary.progressPct = RoundedPct(answered, ExamQuestions)
        /\ ExamSummary.unanswered = ExamQuestions - answered
    BY DEF ExamSummary
  <2> HIDE DEF answered
  <2>4. RoundedPct(answered, ExamQuestions) = 100 <=> answered = ExamQuestions
    BY <2>1, <2>2, HundredIsAll
  <2> QED BY <2>1, <2>2, <2>3, <2>4
<1>2. ASSUME mock.page = "upgrade"
      PROVE  Price(mock.selectedPlanId) <= 12 * PlanCards[mock.selectedPlanId].monthly
  BY <1>2 DEF MockInv, UpgradeOK, Price, PlanCards
<1>3. CoveragePct \in 0..100
  <2>1. Cardinality(ClassDocuments) = 2
    <3>1. Cardinality({"os"}) = 1 /\ IsFiniteSet({"os"})
      BY FS_Singleton
    <3>2. Cardinality({"os"} \cup {"net"}) = 2
      BY <3>1, FS_AddElement
    <3>3. ClassDocuments = {"os"} \cup {"net"}
      BY DEF ClassDocuments
    <3> QED BY <3>2, <3>3
  <2> QED BY <2>1 DEF CoveragePct, ExistingAssignments, MaxOf, MinOf, RoundedPct
<1>4. ASSUME mock.page = "jobs"
      PROVE  Cardinality(FilteredJobs) = GetFilterCount(mock.activeFilter)
  <2>1. FilteredJobs = {j \in DOMAIN Jobs : mock.activeFilter = "all" \/ Jobs[j] = mock.activeFilter}
    BY DEF FilteredJobs
  <2> QED BY <2>1 DEF GetFilterCount
<1> QED BY <1>1, <1>2, <1>3, <1>4 DEF FiguresAgree

\* The invariant says what the fixture screens report of their past.
LEMMA MockInvAgrees == MockInv => MockScreensAgree
<1> SUFFICES ASSUME MockInv PROVE MockScreensAgree
  OBVIOUS
<1>1. SuccessIsEarned
  <2>1. mock.page \in FormPages \/ mock.page = "onboarding" =>
            \A v \in mock.awaited \cup mock.accepted : Invalid(mock.page, v) = {}
    BY DEF MockInv, FormOK, OnboardingOK
  <2> QED BY <2>1 DEF SuccessIsEarned, Invalid, FormPages
<1>2. SummaryIsComplete
  <2> SUFFICES ASSUME mock.page = "onboarding", mock.accepted # {}
               PROVE  "none" \notin GetCompletionSummary /\ (FirstValueLink = "home" <=> mock.values.firstAction = "sample")
    BY DEF SummaryIsComplete
  <2>1. LastStep = 5 /\ OnboardingSteps = <<"goal", "language", "level", "firstAction", "acceptsTrustNote">>
    BY DEF LastStep, OnboardingSteps
  <2>2. \A i \in 1..4 : mock.values[OnboardingSteps[i]] # "none"
    BY <2>1 DEF MockInv, OnboardingOK
  <2>3. "none" \notin GetCompletionSummary
    BY <2>1, <2>2 DEF GetCompletionSummary
  <2> QED BY <2>3 DEF FirstValueLink
<1>3. ReviewIsInOrder /\ SelectionIsOfCourse /\ AnswersAreGrounded
  BY DEF MockInv, ReviewOK, SetupOK, TutorOK, ReviewIsInOrder, SelectionIsOfCourse, AnswersAreGrounded
<1> QED BY <1>1, <1>2, <1>3, FiguresAreTrue DEF MockScreensAgree

\* It is no other screen's business: the rest of the tab leaves the fixture screen
\* alone until it is left.
LEMMA MockInvariant == Spec => []MockInv
<1>1. Init => MockInv
  BY DEF Init, NoMock, MockInv, FormPages, FormOK, OnboardingOK, ReviewOK, SetupOK, TutorOK, UpgradeOK
<1>2. MockInv /\ [Next]_vars => MockInv'
  <2> SUFFICES ASSUME MockInv, [Next]_vars PROVE MockInv'
    OBVIOUS
  <2>1. CASE mock' = mock
    BY <2>1 DEF MockInv, FormOK, OnboardingOK, ReviewOK, ReviewIsInOrder, SetupOK, SelectionIsOfCourse,
                TutorOK, AnswersAreGrounded, UpgradeOK
  <2>2. CASE MockStep
    BY <2>2, MockStepKeeps
  <2>3. CASE mock' \in OpenScreens \cup {NoMock}
    BY <2>3, MockOpens
  <2> QED BY <2>1, <2>2, <2>3 DEF Next, OpenMock, LeaveMock, vars
<1> QED BY <1>1, <1>2, PTL DEF Spec

\* What a fixture screen reports of its own past is true: a success shown passed every
\* validation (auth forms, onboarding-flow.tsx), no card was skipped, no hidden document
\* is ticked, an answer cites its context, and derived figures agree with their source.
THEOREM FixtureScreensAgree == Spec => []MockScreensAgree
BY MockInvAgrees, MockInvariant, PTL

=============================================================================
