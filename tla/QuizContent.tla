------------------------------ MODULE QuizContent ------------------------------
(***************************************************************************)
(* From the chunks to a graded attempt: what the worker accepts of the     *)
(* provider's answers, the result event, what the return relay and the     *)
(* Quiz aggregate accept of it, the stored quiz, and attempts at it.  The  *)
(* Go worker and the Node path decode with different rules, and the        *)
(* aggregate has rules of its own; the three must fit.                     *)
(***************************************************************************)
EXTENDS SourceText

CONSTANTS
    Answers,       \* provider answers to choose from
    Profiles,      \* transport and structured output mode of the provider
    SourceWords,   \* the words of a chunk: value, length, English-like or not
    MinimumMatchTokens, MinimumMatchCharacters, \* from here on a sequence is a copy
    MaximumTokens, \* words looked at to reach MinimumMatchCharacters
    OptionIds      \* option ids that a client may send

ASSUME MatchAssumption ==
    /\ {MinimumMatchTokens, MinimumMatchCharacters, MaximumTokens} \subseteq Nat \ {0}
    /\ MinimumMatchTokens <= MaximumTokens

Words == [value : STRING, length : Nat, english : BOOLEAN]
Texts == {"blank", "bom", "a", "A", "aBom", "b", "c", "d"}
Asked == [stem : Texts, explanation : Texts, options : Seq([content : Texts, isCorrect : BOOLEAN])]

\* The decoders check the types of what they pass on.
ASSUME AnswersAssumption ==
    /\ SourceWords \in Seq(Words)
    /\ \A answer \in Answers : answer.words \in Seq(Words) /\ answer.questions \in Seq(Asked)

VARIABLES
    profile,  \* the provider's profile
    ready,    \* has the worker passed its preflight?
    quiz,     \* stored questions
    attempt   \* a stored attempt

vars == <<chunkVars, sourceVars, profile, ready, quiz, attempt>>

NoAttempt == [score |-> -1]
NoProfile == [transport |-> Null, mode |-> Null]

Init ==
    /\ SourceInit
    /\ profile \in IF object = NoObject THEN {NoProfile} ELSE Profiles
    /\ ready = (object # NoObject /\ chunker.language = "node")
    /\ quiz = <<>>
    /\ attempt = NoAttempt

-----------------------------------------------------------------------------
(* The provider.  An answer: how the call went, the choices or outputs and *)
(* how they ended, the fence around the text, whether it is JSON and has   *)
(* keys that were not asked for, the questions in it, and the words of a   *)
(* text of theirs.                                                         *)

\* Texts by their normal form: Go trims and folds Unicode space, Node what \s
\* matches, and the byte order mark is in the second only.
GoForm == [blank |-> "", bom |-> "bom", a |-> "a", A |-> "a", aBom |-> "aBom", b |-> "b", c |-> "c", d |-> "d"]
NodeForm == [blank |-> "", bom |-> "", a |-> "a", A |-> "a", aBom |-> "a", b |-> "b", c |-> "c", d |-> "d"]

Correct(options) == {i \in DOMAIN options : options[i].isCorrect}

Distinct(options, Form) ==
    /\ \A i \in DOMAIN options : Form[options[i].content] # ""
    /\ \A i, j \in DOMAIN options : i # j => Form[options[i].content] # Form[options[j].content]

\* decodeResponse and decodeResponsesEnvelope of the worker.
DecodeResponse(answer) ==
    LET responses == profile.transport = "responses"
        unusable == \/ answer.count = 0
                    \/ responses /\ answer.ending # "stop"
                    \/ ~responses /\ answer.count > 1
    IN  IF unusable THEN "GENERATION_OUTPUT_INVALID"
        ELSE IF answer.ending = "length" THEN "GENERATION_OUTPUT_TRUNCATED" ELSE "ok"

\* normalizeGeneratedJSON and decodeJSON.
Decodes(answer) ==
    /\ answer.fence # "other" /\ answer.json # "broken"
    /\ answer.json = "extraKeys" => profile.mode = "json-object"

DecodeQuiz(answer) ==
    /\ Decodes(answer)
    /\ Len(answer.questions) = 1
    /\ LET q == answer.questions[1]
       IN  /\ GoForm[q.stem] # "" /\ GoForm[q.explanation] # ""
           /\ Len(q.options) = 4 /\ Distinct(q.options, GoForm)
           /\ Cardinality(Correct(q.options)) = 1

\* Mutant of GoGenerate: the preflight's classification, used for documents.
GoGeneratePreflight(answer) ==
    IF answer.call = "ok" /\ ~DecodeQuiz(answer) THEN Final("PROVIDER_INCOMPATIBLE")
    ELSE IF answer.call = "ok" THEN NoFailure ELSE Technical("PROVIDER_UNAVAILABLE")

\* request and Generate: NoFailure, or the failure.
GoGenerate(answer) ==
    LET envelope == DecodeResponse(answer)
    IN  CASE answer.call # "ok" -> Technical("PROVIDER_UNAVAILABLE")
          [] answer.call = "ok" /\ envelope = "GENERATION_OUTPUT_TRUNCATED" -> Technical(envelope)
          [] answer.call = "ok" /\ envelope = "GENERATION_OUTPUT_INVALID" -> Final(envelope)
          [] OTHER -> IF DecodeQuiz(answer) THEN NoFailure ELSE Final("GENERATION_OUTPUT_INVALID")

\* parseGeneratedOutput: one text, in no fence but ```json, that is JSON.  Two
\* texts joined are not.
ParseGeneratedOutput(answer, texts) ==
    IF texts = 1 /\ answer.fence # "other" /\ answer.json # "broken" THEN "ok"
    ELSE "GENERATION_OUTPUT_INVALID"

\* The first choice counts, and is looked at before its text.
GenerateChatCompletion(answer) ==
    IF answer.count > 0 /\ answer.ending \in {"length", "max_tokens"} THEN "GENERATION_OUTPUT_TRUNCATED"
    ELSE ParseGeneratedOutput(answer, Min({answer.count, 1}))

\* An answer that was cut off is not completed.
GenerateResponse(answer) ==
    IF answer.ending # "stop" THEN "GENERATION_OUTPUT_INVALID"
    ELSE ParseGeneratedOutput(answer, answer.count)

\* isProviderUnavailableError: no connection, 429, 5xx or no credentials.
IsProviderUnavailableError(answer) == answer.call = "down"

NodeProvider(answer) ==
    IF answer.call # "ok"
      THEN IF IsProviderUnavailableError(answer) THEN "PROVIDER_UNAVAILABLE" ELSE "PROCESSING_FAILED"
    ELSE IF profile.transport = "responses" THEN GenerateResponse(answer) ELSE GenerateChatCompletion(answer)

\* Words in a row that are English-like and reach both minimums; the shortest such
\* sequence at each place is its window.
Qualifies(window) ==
    /\ Len(window) >= MinimumMatchTokens
    /\ \A i \in DOMAIN window : window[i].english
    /\ FoldLeft(LAMBDA n, w : n + w.length, 0, window) >= MinimumMatchCharacters

FindShortestQualifyingLength(words, from) ==
    LET lengths == {n \in 1..MaximumTokens : /\ from + n - 1 <= Len(words)
                                             /\ Qualifies(SubSeq(words, from, from + n - 1))}
    IN  IF lengths = {} THEN 0 ELSE Min(lengths)

QualifyingWindows(words) ==
    {SubSeq(words, from, from + FindShortestQualifyingLength(words, from) - 1) :
        from \in {i \in DOMAIN words : FindShortestQualifyingLength(words, i) > 0}}

RejectIfCopied(words) == QualifyingWindows(words) \cap QualifyingWindows(SourceWords) # {}

\* decodeGeneratedQuestionOutput asks for the exact keys whatever the mode, and
\* for nothing of the texts; the comparison with the source comes after it.
NodeGenerate(answer) ==
    LET envelope == NodeProvider(answer)
    IN  IF envelope # "ok" THEN Final(envelope)
        ELSE IF answer.json = "extraKeys" \/ RejectIfCopied(answer.words)
          THEN Final("GENERATION_OUTPUT_INVALID")
        ELSE NoFailure

Preflight(answer) ==
    /\ object # NoObject /\ ~ready
    /\ ready' = (GoGenerate(answer) = NoFailure)
    /\ UNCHANGED <<chunkVars, sourceVars, profile, quiz, attempt>>

\* Questions are numbered on through the document.
Candidates(answer, n) ==
    [i \in DOMAIN answer.questions |->
        [chunk |-> n, ordinal |-> Len(questions) + i - 1, key |-> <<n, Len(questions) + i - 1>>,
         stem |-> answer.questions[i].stem,
         explanation |-> answer.questions[i].explanation, options |-> answer.questions[i].options,
         words |-> answer.words, locator |-> LocatorOf(chunks[n])]]

\* One chunk after the other; a chunk that fails fails the document.
Generate(answer) ==
    LET n == work.next
        failure == IF chunker.language = "go" THEN GoGenerate(answer) ELSE NodeGenerate(answer)
    IN  /\ work.stage = "generate" /\ n <= Len(chunks)
        /\ IF failure # NoFailure THEN Finish(failure, work.faults)
           ELSE /\ questions' = questions \o Candidates(answer, n)
                /\ work' = [work EXCEPT !.next = n + 1]
                /\ UNCHANGED <<chunkVars, object, pages, event, row>>
        /\ UNCHANGED <<profile, ready, quiz, attempt>>

-----------------------------------------------------------------------------
(* The Quiz aggregate.                                                     *)

IsValidLocator(l) ==
    IF l.kind = "page" THEN l.page > 0 ELSE l.start >= 0 /\ l.end > l.start

QuestionCreate(candidate) ==
    /\ NodeForm[candidate.stem] # "" /\ NodeForm[candidate.explanation] # ""
    /\ IsValidLocator(candidate.locator)
    /\ Len(candidate.options) >= 2 /\ Distinct(candidate.options, NodeForm)
    /\ Cardinality(Correct(candidate.options)) = 1

CompareCandidates(l, r) == l.chunk < r.chunk \/ (l.chunk = r.chunk /\ l.ordinal < r.ordinal)

\* The sort is stable.  Candidates of a document differ in their number, so that
\* chunk id and stem never decide.
Sorted(candidates) ==
    LET Before(i) == {j \in DOMAIN candidates :
                         \/ CompareCandidates(candidates[j], candidates[i])
                         \/ ~CompareCandidates(candidates[i], candidates[j]) /\ j < i}
    IN  [n \in DOMAIN candidates |->
            candidates[CHOOSE i \in DOMAIN candidates : Cardinality(Before(i)) = n - 1]]

\* Mutant of Accept: the question keeps the number it came with.
AcceptKeeping(accepted, c) ==
    IF QuestionCreate(c) THEN Append(accepted, c) ELSE accepted

\* Invalid questions and repeated stems are dropped, the others numbered anew.
Accept(accepted, c) ==
    IF /\ QuestionCreate(c)
       /\ \A i \in DOMAIN accepted : /\ NodeForm[accepted[i].stem] # NodeForm[c.stem]
                                      /\ accepted[i].key # c.key
      THEN Append(accepted, [c EXCEPT !.ordinal = Len(accepted)])
      ELSE accepted

QuizCreate(candidates) ==
    LET sorted == Sorted(candidates)
        accepted[n \in 0..Len(candidates)] ==
            IF n = 0 THEN <<>> ELSE Accept(accepted[n - 1], sorted[n])
    IN  accepted[Len(candidates)]

\* A quiz that exists already is kept.
PersistQuiz(accepted) == quiz' = IF quiz = <<>> THEN accepted ELSE quiz

-----------------------------------------------------------------------------
(* The end of an attempt: Go publishes the questions with the result, Node *)
(* stores the quiz itself.                                                 *)

PersistAndComplete ==
    /\ work.stage = "generate" /\ work.next > Len(chunks) /\ chunker.language = "go"
    /\ IF \A i \in DOMAIN chunks : StoresText(chunks[i])
         THEN /\ Publish("READY", Null, {questions})
              /\ work' = [work EXCEPT !.stage = "ended"]
              /\ UNCHANGED <<chunkVars, object, pages, questions, row>>
         ELSE Finish(Technical("PROCESSING_FAILED"), work.faults)
    /\ UNCHANGED <<profile, ready, quiz, attempt>>

HandoffPersist ==
    LET accepted == QuizCreate(questions)
    IN  /\ work.stage = "generate" /\ work.next > Len(chunks) /\ chunker.language = "node"
        /\ IF accepted = <<>> THEN Finish(Final("INSUFFICIENT_VALID_QUESTIONS"), work.faults)
           ELSE /\ Publish("READY", Null, {})
                /\ work' = [work EXCEPT !.stage = "ended"]
                /\ UNCHANGED <<chunkVars, object, pages, questions, row>>
        /\ IF accepted = <<>> THEN UNCHANGED quiz ELSE PersistQuiz(accepted)
        /\ UNCHANGED <<profile, ready, attempt>>

-----------------------------------------------------------------------------
(* The return relay.                                                       *)

DocumentProcessingFailureCode ==
    {"CHUNK_RESOURCE_LIMIT_EXCEEDED", "BUDGET_EXHAUSTED", "EXTRACTION_OBJECT_NOT_FOUND",
     "EXTRACTION_OBJECT_TOO_LARGE", "GENERATION_OUTPUT_INVALID", "GENERATION_OUTPUT_TRUNCATED",
     "INSUFFICIENT_VALID_QUESTIONS", "PDF_INVALID", "PDF_TEXT_NOT_FOUND", "PROCESSING_FAILED",
     "PROCESSING_TIMED_OUT", "PROVIDER_UNAVAILABLE"}

\* What parseResult refuses it refuses in every cycle, and nothing behind it in
\* the outbox is delivered.  Of the questions it asks for the fields' types only.
ParseResult(e) ==
    /\ e.status \in {"READY", "FAILED"}
    /\ e.code \in DocumentProcessingFailureCode \cup {Null}

\* Only a PROCESSING document takes a result.
Project(status, code) ==
    row' = IF row.status = "PROCESSING" THEN [status |-> status, code |-> code] ELSE row

\* The quiz, the status, then the mark; without the mark the result comes again.
ReturnRelay ==
    LET accepted == {QuizCreate(list) : list \in event.questions}
        insufficient == accepted = {<<>>}
    IN  /\ event.status # "none" /\ ~event.published
        /\ ParseResult(event)
        /\ IF accepted = {} \/ insufficient THEN UNCHANGED quiz ELSE \E a \in accepted : PersistQuiz(a)
        /\ IF insufficient THEN Project("FAILED", "INSUFFICIENT_VALID_QUESTIONS")
           ELSE Project(event.status, event.code)
        /\ \E marked \in BOOLEAN : event' = [event EXCEPT !.published = marked]
        /\ UNCHANGED <<chunkVars, object, pages, work, questions, profile, ready, attempt>>

-----------------------------------------------------------------------------
(* Attempts.  Question ids are the numbers of the stored questions.        *)

FindForGrading(id) == {q \in Range(quiz) : q.ordinal = id}

\* gradePracticeFeedback: one answer, graded without storing anything.
GradePracticeFeedback(selection) ==
    LET found == {q \in FindForGrading(selection.question) : selection.option \in DOMAIN q.options}
    IN  IF found = {} THEN "invalid"
        ELSE IF \E q \in found : q.options[selection.option].isCorrect THEN "correct" ELSE "wrong"

\* Mutant of GradesWhole: answers to some of the questions are enough.
GradesSome(selections) ==
    \A i \in DOMAIN selections : GradePracticeFeedback(selections[i]) # "invalid"

\* Each question once, each with an option of its own.
GradesWhole(selections) ==
    /\ Len(selections) = Len(quiz)
    /\ \A i, j \in DOMAIN selections :
           i # j => selections[i].question # selections[j].question
    /\ \A i \in DOMAIN selections : GradePracticeFeedback(selections[i]) # "invalid"

GradeAttempt(selections) ==
    LET answers == {[question |-> selections[i].question, option |-> selections[i].option,
                     isCorrect |-> GradePracticeFeedback(selections[i]) = "correct"] : i \in DOMAIN selections}
    IN  [questionCount |-> Len(quiz), answers |-> answers,
         score |-> Cardinality({a \in answers : a.isCorrect})]

\* Len(quiz) is no question's.
Selections ==
    BoundedSeq([question : 0..Len(quiz), option : OptionIds], Len(quiz))

\* The attempt and its answers, in one transaction.
PersistAttempt(graded) == quiz # <<>> /\ attempt' = graded

\* A selection that does not grade is a 400 and stores nothing.
SubmitAttempt ==
    /\ attempt = NoAttempt
    /\ \E selections \in Selections \ {<<>>} :
           GradesWhole(selections) /\ PersistAttempt(GradeAttempt(selections))
    /\ UNCHANGED <<chunkVars, sourceVars, profile, ready, quiz>>

\* The stored result as it is read again: nothing, unless every answer still has
\* its question, its option and a correct option to show.
FindAttempt ==
    LET found == {a \in attempt.answers : \E q \in FindForGrading(a.question) :
                     a.option \in DOMAIN q.options /\ Correct(q.options) # {}}
    IN  IF found = attempt.answers THEN found ELSE {}

-----------------------------------------------------------------------------
(* What the server hands out and the web reads.  A response with one field *)
(* that the web's mappers do not know is an error as a whole.              *)

FindServed == [i \in DOMAIN quiz |-> [id |-> quiz[i].ordinal, options |-> DOMAIN quiz[i].options]]

\* findQuiz: the quiz of a document, or the error.
FindQuiz ==
    IF FindServed # <<>> THEN "quiz"
    ELSE CASE row.status \in {"UPLOADED", "PROCESSING"} -> "QUIZ_NOT_READY"
           [] row.status = "FAILED" -> "DOCUMENT_PROCESSING_FAILED"
           [] OTHER -> "QUIZ_INVARIANT_VIOLATION"

IsDocumentProcessingFailureRetryable(code) ==
    code \in {"BUDGET_EXHAUSTED", "GENERATION_OUTPUT_INVALID", "GENERATION_OUTPUT_TRUNCATED",
              "PROCESSING_TIMED_OUT", "PROVIDER_UNAVAILABLE"}

ReadDocumentStatus(status) == status \in {"UPLOADED", "PROCESSING", "READY", "FAILED"}

ReadDocumentProcessingFailureCode(code) ==
    code \in {"BUDGET_EXHAUSTED", "CHUNK_RESOURCE_LIMIT_EXCEEDED", "EXTRACTION_OBJECT_NOT_FOUND",
              "EXTRACTION_OBJECT_TOO_LARGE", "GENERATION_OUTPUT_INVALID", "GENERATION_OUTPUT_TRUNCATED",
              "INSUFFICIENT_VALID_QUESTIONS", "PDF_INVALID", "PDF_TEXT_NOT_FOUND", "PROCESSING_FAILED",
              "PROCESSING_TIMED_OUT", "PROVIDER_UNAVAILABLE"}

MapDocument(document_) ==
    /\ ReadDocumentStatus(document_.status)
    /\ document_.code = Null \/ ReadDocumentProcessingFailureCode(document_.code)

MapCitationLocator(l) == l.kind \in {"page", "text-range", "time"}

\* The selections that the screens can make of a served quiz.
MapQuizQuestion(served) == {[question |-> served.id, option |-> o] : o \in served.options}

IsRetryableDocumentFailureCode(code) ==
    code \in {"BUDGET_EXHAUSTED", "GENERATION_OUTPUT_INVALID", "GENERATION_OUTPUT_TRUNCATED",
              "PROCESSING_TIMED_OUT", "PROVIDER_UNAVAILABLE"}

\* The texts tell the learner to try again, or to bring another file.
GetDocumentFailurePresentation(code) ==
    IF code \in {"BUDGET_EXHAUSTED", "GENERATION_OUTPUT_INVALID", "GENERATION_OUTPUT_TRUNCATED",
                 "PROCESSING_TIMED_OUT", "PROVIDER_UNAVAILABLE"}
    THEN "tryAgain" ELSE "otherFile"

-----------------------------------------------------------------------------
Next ==
    \/ (SourceStep \/ (ready /\ Read)) /\ UNCHANGED <<profile, ready, quiz, attempt>>
    \/ \E answer \in Answers : Preflight(answer) \/ Generate(answer)
    \/ PersistAndComplete \/ HandoffPersist \/ ReturnRelay \/ SubmitAttempt

Spec == Init /\ [][Next]_vars

\* A sequence that the source has too: what the windows are to find.
Copies(words) ==
    \E n \in MinimumMatchTokens..MaximumTokens, i \in DOMAIN words, k \in DOMAIN SourceWords :
        /\ i + n - 1 <= Len(words) /\ k + n - 1 <= Len(SourceWords)
        /\ SubSeq(words, i, i + n - 1) = SubSeq(SourceWords, k, k + n - 1)
        /\ Qualifies(SubSeq(words, i, i + n - 1))

\* The worker, the relay, the aggregate and the web agree.  Whatever the worker
\* publishes the relay can take, so nothing waits behind it, and what becomes of
\* it the web can read; server and screens offer the same retries; and a READY
\* document has its quiz, so that the error for one without is never sent.
\* A stored quiz numbers its questions without gaps, repeats no stem, has one
\* right option of several in each, copies no long English sequence where the
\* path looks for one, and cites a place that a reader finds.
ResultsBecomeSoundQuizzes ==
    /\ event.status # "none" => ParseResult(event)
    /\ MapDocument(row)
    /\ IsRetryableDocumentFailureCode(row.code) = IsDocumentProcessingFailureRetryable(row.code)
    /\ IsRetryableDocumentFailureCode(row.code) = (GetDocumentFailurePresentation(row.code) = "tryAgain")
    /\ FindQuiz # "QUIZ_INVARIANT_VIOLATION"
    /\ \A i \in DOMAIN quiz :
           /\ quiz[i].ordinal = i - 1
           /\ Cardinality(Correct(quiz[i].options)) = 1 /\ Distinct(quiz[i].options, NodeForm)
           /\ \A j \in DOMAIN quiz : i # j => NodeForm[quiz[i].stem] # NodeForm[quiz[j].stem]
           /\ chunker.language = "node" => ~Copies(quiz[i].words)
           /\ IsValidLocator(quiz[i].locator) /\ MapCitationLocator(quiz[i].locator)
           /\ quiz[i].locator.kind = "page" =>
                  TrimSpace(object.texts[quiz[i].locator.page]) # <<>>

\* Whatever a learner can select in the quiz as it is served can be graded; and an
\* attempt that was stored can be read again in full, with one answer to each
\* question, the score it was given and the verdicts that practice gives.
GradedAttemptsReadBack ==
    /\ \A i \in DOMAIN quiz : \A selection \in MapQuizQuestion(FindServed[i]) :
           GradePracticeFeedback(selection) # "invalid"
    /\ attempt # NoAttempt =>
        /\ FindAttempt = attempt.answers
        /\ Cardinality(FindAttempt) = attempt.questionCount
        /\ attempt.score = Cardinality({a \in FindAttempt : GradePracticeFeedback(a) = "correct"})

\* In the Go worker a document fails for a technical reason only if the storage or
\* the file system failed: its own text is never the reason.
TextFailsOnlyByFault ==
    (/\ chunker.language = "go" /\ event.status # "none"
     /\ event.code = "PROCESSING_FAILED") => work.faults > 0
=============================================================================
