--------------------------- MODULE DocumentScreens ---------------------------
(***************************************************************************)
(* A learner's documents in the tab: the upload workspace, the processing  *)
(* screen that polls, the library and the detail page (web/src/components/ *)
(* upload, processing, library), with the ContentService behind them.      *)
(*                                                                         *)
(* An upload is one asynchronous function of three calls. Neither a new    *)
(* choice of file nor leaving the page stops it: what it sets then is seen *)
(* only while its screen is mounted, what it calls happens all the same.   *)
(***************************************************************************)
EXTENDS BrowserTab, Sequences, FiniteSets

CONSTANTS
    Files,          \* files the picker accepts
    Models,         \* models the catalog offers
    MaxDocuments,   \* bound: uploads started
    MaxLosses       \* bound: calls that fail or whose answer is lost

ASSUME DocumentAssumption ==
    /\ {"none", "empty", "otherExtension", "otherMime"} \cap (Files \cup Models) = {}
    /\ {MaxDocuments, MaxLosses} \subseteq Nat

VARIABLES
    upload,     \* the upload workspace
    estimates,  \* the calls for an estimate under way
    flows,      \* handleUploadSubmit and handleRetryConfirm under way
    watch,      \* the processing screen
    detail,     \* the detail page
    library,    \* the library page
    docs,       \* course.documents, with the stored object and the quiz
    losses      \* calls lost so far

documentVars == <<upload, estimates, flows, watch, detail, library, docs, losses>>
screens == <<upload, estimates, watch, detail, library>>

(***************************************************************************)
(* State                                                                   *)
(***************************************************************************)

DocumentStatus == {"UPLOADED", "PROCESSING", "READY", "FAILED"}
Terminal == {"READY", "FAILED"}
Steps == {"idle", "creating", "uploading", "uploaded", "confirming", "confirmed"}
InProgress == {"creating", "uploading", "confirming"}

NewDocument ==
    [stored |-> FALSE, status |-> "UPLOADED",
     retryable |-> FALSE, quiz |-> FALSE, events |-> 0, failures |-> 0, by |-> "none"]

NoSelection == [file |-> "none", model |-> "none"]
NoUpload == [step |-> "none"]
EmptyUpload ==
    [choice |-> NoSelection, models |-> "loading", estimate |-> NoSelection,
     estimateError |-> FALSE, estimating |-> FALSE, invalid |-> FALSE, step |-> "idle",
     doc |-> 0, storageError |-> FALSE, confirmError |-> FALSE]

NoWatch == [doc |-> 0]
NoAnswer == [status |-> "none", retryable |-> FALSE]
\* shown is the status on screen, poll where the current generation stands,
\* answer what its poll has read.
Watching(d) ==
    [doc |-> d, shown |-> "none", retryable |-> FALSE, poll |-> "asked", answer |-> NoAnswer,
     error |-> FALSE, retrying |-> "no", retryError |-> FALSE]

NoDetail == [doc |-> 0, status |-> "none", retryable |-> FALSE, quiz |-> "none"]
DetailOf(d) ==
    [doc |-> d, status |-> docs[d].status, retryable |-> docs[d].retryable, quiz |-> "loading"]
NoLibrary == [shown |-> <<>>, state |-> "none", filter |-> "none"]

DocumentInit ==
    /\ upload = NoUpload /\ estimates = {} /\ flows = {}
    /\ watch = NoWatch /\ detail = NoDetail /\ library = NoLibrary
    /\ docs = <<>>
    /\ losses = 0

\* A call fails, or its answer is lost on the way.
Lose == losses < MaxLosses /\ losses' = losses + 1

(***************************************************************************)
(* Pages                                                                   *)
(***************************************************************************)

\* Two uploads may be at the same call, so each has an id of its own.
FreshId == CHOOSE i \in 1..(Cardinality(flows) + 1) : \A f \in flows : f.id # i

\* A retry's confirm outlives the processing screen, the rest of it does not.
LeftBehind ==
    IF watch.doc # 0 /\ watch.retrying = "confirm"
    THEN {[id |-> FreshId, stage |-> "confirm", doc |-> watch.doc, life |-> "dead"]} ELSE {}

\* Unmounting: what an estimate or a poll answers has no screen left to change;
\* uploads go on unseen.
Unmounted ==
    {IF f.life = "mounted" THEN [f EXCEPT !.life = "unmounted"] ELSE f : f \in flows} \cup LeftBehind
FlowsKilled == flows' = {[f EXCEPT !.life = "dead"] : f \in flows} \cup LeftBehind

DocumentsLeft ==
    /\ upload' = NoUpload /\ estimates' = {} /\ watch' = NoWatch
    /\ detail' = NoDetail /\ library' = NoLibrary
    /\ flows' = Unmounted

OpenUpload ==
    /\ upload' = EmptyUpload /\ estimates' = {} /\ watch' = NoWatch
    /\ detail' = NoDetail /\ library' = NoLibrary
    /\ flows' = Unmounted

OpenProcessing(d) ==
    /\ upload' = NoUpload /\ estimates' = {} /\ watch' = Watching(d)
    /\ detail' = NoDetail /\ library' = NoLibrary
    /\ flows' = Unmounted

\* The page reads the document on the server, the quiz once it is mounted.
OpenDocument(d) ==
    /\ upload' = NoUpload /\ estimates' = {} /\ watch' = NoWatch
    /\ detail' = DetailOf(d)
    /\ library' = NoLibrary
    /\ flows' = Unmounted

OpenLibrary ==
    /\ upload' = NoUpload /\ estimates' = {} /\ watch' = NoWatch
    /\ detail' = NoDetail
    /\ library' = [shown |-> <<>>, state |-> "loading", filter |-> "all"]
    /\ flows' = Unmounted

(***************************************************************************)
(* The upload workspace: choosing                                          *)
(***************************************************************************)

ModelsReturn ==
    /\ page = "upload" /\ upload.models = "loading"
    /\ \/ upload' = [upload EXCEPT !.models = "ready"] /\ UNCHANGED losses
       \/ upload' = [upload EXCEPT !.models = "error"] /\ Lose
    /\ UNCHANGED <<page, pushing, estimates, flows, watch, detail, library, docs, clicks>>

Complete(choice) == choice.file # "none" /\ choice.model # "none"

\* requestEstimate. Calls of the same choice that are cancelled count as one.
Requested(choice) == [choice |-> choice, cancelled |-> FALSE]

\* resetFlowState and a new estimate request, or none while a part is missing; the
\* effect's cleanup cancels the calls of the choices before.
Choose(choice, invalid, estimating) ==
    /\ Click
    /\ upload' = [upload EXCEPT !.choice = choice, !.invalid = invalid,
                    !.estimating = estimating, !.estimate = NoSelection,
                    !.estimateError = FALSE, !.step = "idle", !.doc = 0,
                    !.storageError = FALSE, !.confirmError = FALSE]
    /\ estimates' = {[e EXCEPT !.cancelled = TRUE] : e \in estimates}
                     \cup (IF Complete(choice) THEN {Requested(choice)} ELSE {})

\* What the picker may hand over that is not a file to upload.
Rejected == {"empty", "otherExtension", "otherMime"}
NormalizeFileSelection(file) == IF file \in Rejected THEN "none" ELSE file

\* A rejected file clears the selection, and leaves isEstimating as a chosen
\* model makes it.
HandleFileChange(file) ==
    /\ page = "upload"
    /\ Choose([upload.choice EXCEPT !.file = NormalizeFileSelection(file)], file \in Rejected,
              file # "none" /\ upload.choice.model # "none")
    /\ UNCHANGED <<page, pushing, flows, watch, detail, library, docs, losses>>

HandleModelChange(model) ==
    LET choice == [upload.choice EXCEPT !.model = model] IN
    /\ page = "upload" /\ upload.models = "ready"
    /\ Choose(choice, upload.invalid, Complete(choice))
    /\ UNCHANGED <<page, pushing, flows, watch, detail, library, docs, losses>>

\* estimateModelSelection: a model that has left the owner's catalogue since the
\* list was shown is refused.
EstimateModelSelection(choice) == {choice, NoSelection}

ShowEstimate(call) ==
    \E answer \in EstimateModelSelection(call.choice) :
        upload' = [upload EXCEPT !.estimate = answer, !.estimateError = (answer = NoSelection),
                     !.estimating = FALSE]

\* MUTANT: what a call answers is shown whether or not it was cancelled.
EstimateReturnsLate(call) ==
    /\ page = "upload" /\ call \in estimates
    /\ estimates' = estimates \ {call}
    /\ ShowEstimate(call)
    /\ UNCHANGED <<page, pushing, flows, watch, detail, library, docs, losses, clicks>>

\* A call that fails looks like a refusal; one that was cancelled changes nothing.
EstimateReturns(call) ==
    /\ page = "upload" /\ call \in estimates
    /\ estimates' = estimates \ {call}
    /\ IF call.cancelled THEN UNCHANGED upload ELSE ShowEstimate(call)
    /\ UNCHANGED <<page, pushing, flows, watch, detail, library, docs, losses, clicks>>

(***************************************************************************)
(* The upload workspace: uploading                                         *)
(***************************************************************************)

CanSubmit ==
    /\ Complete(upload.choice)
    /\ upload.estimate # NoSelection /\ ~upload.estimateError
    /\ upload.models # "loading" /\ ~upload.estimating
    /\ upload.step \notin InProgress

HandleUploadSubmit ==
    /\ page = "upload" /\ CanSubmit
    /\ Click
    /\ Len(docs) + Cardinality({f \in flows : f.stage = "create"}) < MaxDocuments
    /\ flows' = flows \cup {[id |-> FreshId, stage |-> "create", doc |-> 0, life |-> "mounted"]}
    /\ upload' = [upload EXCEPT !.step = "creating", !.invalid = FALSE, !.doc = 0,
                    !.storageError = FALSE, !.confirmError = FALSE]
    /\ UNCHANGED <<page, pushing, estimates, watch, detail, library, docs, losses>>

HandleRetryConfirm ==
    /\ page = "upload" /\ upload.confirmError /\ upload.doc # 0
    /\ flows' = flows \cup
         {[id |-> FreshId, stage |-> "confirm", doc |-> upload.doc, life |-> "mounted"]}
    /\ upload' = [upload EXCEPT !.step = "confirming", !.confirmError = FALSE]
    /\ UNCHANGED <<page, pushing, estimates, watch, detail, library, docs, losses, clicks>>

\* What a flow sets is seen on its own screen only.
SetUpload(f, next) == upload' = IF f.life = "mounted" THEN next ELSE upload

\* The catch blocks: the flow ends.
FlowFails(f) ==
    /\ Lose
    /\ flows' = flows \ {f}
    /\ SetUpload(f, IF f.stage = "confirm"
                    THEN [upload EXCEPT !.step = "uploaded", !.confirmError = TRUE]
                    ELSE [upload EXCEPT !.step = "idle", !.storageError = TRUE])
    /\ UNCHANGED pushing

\* MUTANT: the status is set whatever it was.
ConfirmAlways(d, by) ==
    [docs EXCEPT ![d].status = "PROCESSING", ![d].events = @ + 1, ![d].by = by]

\* confirmProcessing: compare-and-set with its outbox row; otherwise nothing.
ConfirmProcessing(d, by) ==
    IF docs[d].status \in {"UPLOADED", "FAILED"}
    THEN [docs EXCEPT ![d].status = "PROCESSING", ![d].events = @ + 1, ![d].by = by]
    ELSE docs

\* POST upload-url stores the document; its object is still to come.
CreateUploadUrl == Append(docs, NewDocument)

\* POST confirm verifies the object first.
ConfirmDocument(d, by) == IF docs[d].stored THEN ConfirmProcessing(d, by) ELSE docs

\* What the call of each stage does; the bucket takes the file the flow began
\* with.
ServerEffect(f) ==
    CASE f.stage = "create"  -> CreateUploadUrl
      [] f.stage = "upload"  -> [docs EXCEPT ![f.doc].stored = TRUE]
      [] f.stage = "confirm" -> ConfirmDocument(f.doc, "elsewhere")

CreateReturns(f) ==
    /\ f \in flows /\ f.stage = "create" /\ f.life # "dead"
    /\ \/ /\ docs' = ServerEffect(f)
          /\ flows' = (flows \ {f}) \cup {[f EXCEPT !.stage = "upload", !.doc = Len(docs) + 1]}
          /\ SetUpload(f, [upload EXCEPT !.step = "uploading", !.doc = Len(docs) + 1])
          /\ UNCHANGED <<pushing, losses>>
       \/ FlowFails(f) /\ docs' \in {docs, ServerEffect(f)}
    /\ UNCHANGED <<page, estimates, watch, detail, library, clicks>>

\* uploadFileToStorage has ended; runConfirm follows at once.
UploadReturns(f) ==
    /\ f \in flows /\ f.stage = "upload" /\ f.life # "dead"
    /\ \/ /\ docs' = ServerEffect(f)
          /\ flows' = (flows \ {f}) \cup {[f EXCEPT !.stage = "confirm"]}
          /\ SetUpload(f, [upload EXCEPT !.step = "confirming", !.confirmError = FALSE])
          /\ UNCHANGED <<pushing, losses>>
       \/ FlowFails(f) /\ docs' \in {docs, ServerEffect(f)}
    /\ UNCHANGED <<page, estimates, watch, detail, library, clicks>>

\* runConfirm after its call. A file that fails verification is an error too.
ConfirmReturns(f) ==
    /\ f \in flows /\ f.stage = "confirm" /\ f.life # "dead"
    /\ \/ /\ docs[f.doc].stored
          /\ docs' = ServerEffect(f)
          /\ flows' = flows \ {f}
          /\ SetUpload(f, [upload EXCEPT !.step = "confirmed"])
          /\ Push("processing", f.doc)
          /\ UNCHANGED losses
       \/ FlowFails(f) /\ docs' \in {docs, ServerEffect(f)}
       \/ /\ ~docs[f.doc].stored
          /\ docs' = ServerEffect(f)
          /\ flows' = flows \ {f}
          /\ SetUpload(f, [upload EXCEPT !.step = "uploaded", !.confirmError = TRUE])
          /\ UNCHANGED <<pushing, losses>>
    /\ UNCHANGED <<page, estimates, watch, detail, library, clicks>>

\* A full page load has ended the function; its last call may still arrive.
OrphanCallEnds(f) ==
    /\ f \in flows /\ f.life = "dead"
    /\ flows' = flows \ {f}
    /\ docs' \in {docs, ServerEffect(f)}
    /\ UNCHANGED <<page, pushing, losses, screens, clicks>>

(***************************************************************************)
(* Processing, as DocumentPipeline does it                                 *)
(***************************************************************************)

QuizPersisted(d) ==
    /\ d \in DOMAIN docs /\ docs[d].status = "PROCESSING" /\ ~docs[d].quiz
    /\ docs' = [docs EXCEPT ![d].quiz = TRUE]
    /\ UNCHANGED <<page, pushing, flows, losses, screens, clicks>>

ProcessingEnds(d) ==
    /\ d \in DOMAIN docs /\ docs[d].status = "PROCESSING"
    /\ \/ docs[d].quiz /\ docs' = [docs EXCEPT ![d].status = "READY"]
       \/ \E retryable \in BOOLEAN :
            docs' = [docs EXCEPT ![d].status = "FAILED", ![d].retryable = retryable,
                                 ![d].failures = @ + 1]
    /\ UNCHANGED <<page, pushing, flows, losses, screens, clicks>>

(***************************************************************************)
(* The processing screen                                                   *)
(***************************************************************************)

\* GET of one document.
GetDocument(d) == [status |-> docs[d].status, retryable |-> docs[d].retryable]

PollAnswered ==
    /\ page = "processing" /\ watch.poll = "asked"
    /\ watch' = [watch EXCEPT !.poll = "answered", !.answer = GetDocument(watch.doc)]
    /\ UNCHANGED <<page, pushing, upload, estimates, flows, detail, library, docs, losses, clicks>>

PollLost ==
    /\ page = "processing" /\ watch.poll = "asked"
    /\ Lose
    /\ watch' = [watch EXCEPT !.poll = "answered", !.answer = NoAnswer]
    /\ UNCHANGED <<page, pushing, upload, estimates, flows, detail, library, docs, clicks>>

\* MUTANT: an error ends the polling.
PollReturnsOnce ==
    /\ page = "processing" /\ watch.poll = "answered"
    /\ watch' = IF watch.answer = NoAnswer
                THEN [watch EXCEPT !.error = TRUE, !.poll = "stopped"]
                ELSE [watch EXCEPT !.shown = watch.answer.status, !.error = FALSE,
                        !.retryable = watch.answer.retryable, !.answer = NoAnswer,
                        !.poll = IF watch.answer.status \in Terminal THEN "stopped" ELSE "timer"]
    /\ UNCHANGED <<page, pushing, upload, estimates, flows, detail, library, docs, losses, clicks>>

\* pollOnce after its call: a terminal status ends the polling, anything else,
\* an error included, sets the timer.
PollReturns ==
    /\ page = "processing" /\ watch.poll = "answered"
    /\ watch' = IF watch.answer = NoAnswer
                THEN [watch EXCEPT !.error = TRUE, !.poll = "timer"]
                ELSE [watch EXCEPT !.shown = watch.answer.status, !.error = FALSE,
                        !.retryable = watch.answer.retryable, !.answer = NoAnswer,
                        !.poll = IF watch.answer.status \in Terminal THEN "stopped" ELSE "timer"]
    /\ UNCHANGED <<page, pushing, upload, estimates, flows, detail, library, docs, losses, clicks>>

PollDue ==
    /\ page = "processing" /\ watch.poll = "timer"
    /\ watch' = [watch EXCEPT !.poll = "asked"]
    /\ UNCHANGED <<page, pushing, upload, estimates, flows, detail, library, docs, losses, clicks>>

RetryDocumentProcessing ==
    /\ page = "processing" /\ watch.shown = "FAILED" /\ watch.retryable /\ watch.retrying = "no"
    /\ Click
    /\ watch' = [watch EXCEPT !.retrying = "confirm", !.retryError = FALSE]
    /\ UNCHANGED <<page, pushing, upload, estimates, flows, detail, library, docs, losses>>

\* The confirm is answered: refresh starts a new generation of polls. An error
\* is shown instead, also when only the answer was lost.
RetryReturns ==
    /\ page = "processing" /\ watch.retrying = "confirm"
    /\ \/ /\ docs' = ConfirmDocument(watch.doc, "here")
          /\ watch' = [watch EXCEPT !.retrying = "refresh", !.poll = "asked", !.answer = NoAnswer]
          /\ UNCHANGED losses
       \/ /\ Lose
          /\ docs' \in {docs, ConfirmDocument(watch.doc, "here")}
          /\ watch' = [watch EXCEPT !.retrying = "no", !.retryError = TRUE]
    /\ UNCHANGED <<page, pushing, upload, estimates, flows, detail, library, clicks>>

\* retryDocumentProcessing ends with the first poll of the refresh.
RetryEnds ==
    /\ page = "processing" /\ watch.retrying = "refresh" /\ watch.poll \in {"timer", "stopped"}
    /\ watch' = [watch EXCEPT !.retrying = "no"]
    /\ UNCHANGED <<page, pushing, upload, estimates, flows, detail, library, docs, losses, clicks>>

(***************************************************************************)
(* The detail page and the library                                         *)
(***************************************************************************)

\* GET quiz answers 409 while there is no quiz; the page's own text for it waits
\* for a 404.
GetDocumentQuiz(d) == IF docs[d].quiz THEN "ready" ELSE "error"

QuizDiscoveryReturns ==
    /\ page = "document" /\ detail.quiz = "loading"
    /\ \/ /\ detail' = [detail EXCEPT !.quiz = GetDocumentQuiz(detail.doc)]
          /\ UNCHANGED losses
       \/ Lose /\ detail' = [detail EXCEPT !.quiz = "error"]
    /\ UNCHANGED <<page, pushing, upload, estimates, flows, watch, library, docs, clicks>>

\* window.location.reload of the processing and the detail page.
ReloadPage ==
    /\ Show(page)
    /\ FlowsKilled
    /\ \/ /\ page = "processing" /\ watch # Watching(watch.doc)
          /\ watch' = Watching(watch.doc)
          /\ UNCHANGED detail
       \/ /\ page = "document" /\ detail.quiz = "error"
          /\ detail' = DetailOf(detail.doc)
          /\ UNCHANGED watch
    /\ UNCHANGED <<upload, estimates, library, docs, losses, clicks>>

\* GET of all documents, and mapDocumentStatus: the library has names of its own
\* for the statuses.
ListDocuments == [d \in DOMAIN docs |-> docs[d].status]
MapDocumentStatus(status) ==
    CASE status = "UPLOADED"   -> "uploaded"
      [] status = "PROCESSING" -> "processing"
      [] status = "READY"      -> "ready"
      [] status = "FAILED"     -> "failed"
ToPresentationDocuments(list) == [d \in DOMAIN list |-> MapDocumentStatus(list[d])]

LibraryLoads ==
    /\ page = "library" /\ library.state = "loading"
    /\ \/ /\ library' = [library EXCEPT !.state = "ready",
                           !.shown = ToPresentationDocuments(ListDocuments)]
          /\ UNCHANGED losses
       \/ Lose /\ library' = [library EXCEPT !.state = "error"]
    /\ UNCHANGED <<page, pushing, upload, estimates, flows, watch, detail, docs, clicks>>

\* The filter lives in the address: whatever is typed there that is no status
\* means all of them.
NormalizeStatusFilter(raw) == IF raw \in DocumentStatus THEN raw ELSE "all"

UpdateStatusFilter(raw) ==
    /\ page = "library" /\ library.filter # NormalizeStatusFilter(raw)
    /\ Click
    /\ library' = [library EXCEPT !.filter = NormalizeStatusFilter(raw)]
    /\ UNCHANGED <<page, pushing, upload, estimates, flows, watch, detail, docs, losses>>

FilterDocuments ==
    {d \in DOMAIN library.shown :
        library.filter = "all" \/ library.shown[d] = MapDocumentStatus(library.filter)}

ClearFilters ==
    /\ page = "library" /\ library.filter # "all"
    /\ library' = [library EXCEPT !.filter = "all"]
    /\ UNCHANGED <<page, pushing, upload, estimates, flows, watch, detail, docs, losses, clicks>>

\* primaryAction: where the detail page's first button leads.
PrimaryAction ==
    IF detail.quiz = "ready" THEN "quiz"
    ELSE IF detail.status = "PROCESSING" \/ (detail.status = "FAILED" /\ detail.retryable)
    THEN "processing" ELSE "upload"

(***************************************************************************)
(* What each panel offers                                                  *)
(***************************************************************************)

\* The picker stays open while an upload is under way.
UploadWorkspaceForm ==
    \/ \E file \in Files \cup Rejected \cup {"none"} : HandleFileChange(file)
    \/ HandleUploadSubmit

UploadModelPanel == \E model \in Models \cup {"none"} : HandleModelChange(model)

\* The boxes of the estimate panel that are shown.
UploadEstimatePanel ==
    {box \in {"estimating", "error", "summary"} :
        \/ box = "estimating" /\ upload.estimating
        \/ box = "error" /\ upload.estimateError
        \/ box = "summary" /\ upload.estimate # NoSelection}

UploadStatusPanel == HandleRetryConfirm

UploadCalls ==
    \/ ModelsReturn
    \/ \E call \in estimates : EstimateReturns(call)
    \/ \E f \in flows : CreateReturns(f) \/ UploadReturns(f) \/ ConfirmReturns(f) \/ OrphanCallEnds(f)

ProcessingStatusPanel == RetryDocumentProcessing

ProcessingCalls == PollAnswered \/ PollLost \/ PollReturns \/ PollDue \/ RetryReturns \/ RetryEnds

\* Search, type and order narrow or permute the same list.
LibraryBrowser ==
    \/ LibraryLoads \/ ClearFilters
    \/ \E raw \in DocumentStatus \cup {"all", "other"} : UpdateStatusFilter(raw)

DocumentStep ==
    \/ UploadWorkspaceForm \/ UploadModelPanel \/ UploadStatusPanel \/ UploadCalls
    \/ ProcessingStatusPanel \/ ProcessingCalls
    \/ \E d \in DOMAIN docs : QuizPersisted(d) \/ ProcessingEnds(d)
    \/ QuizDiscoveryReturns \/ ReloadPage \/ LibraryBrowser

(***************************************************************************)
(* Properties                                                              *)
(***************************************************************************)

\* What may be submitted was estimated: the estimate on screen is the one of the
\* file and the model that are chosen, whatever was chosen while it was computed,
\* and the panel never shows it next to an error or a computation.
EstimateIsOfChoice ==
    page = "upload" =>
        /\ CanSubmit => upload.estimate = upload.choice
        /\ Cardinality(UploadEstimatePanel) <= 1

\* In the upload workspace a step that shows progress and disables the form belongs
\* to an upload under way, and an estimate shown as being computed to a call that no
\* later choice has cancelled. The one exception is the code's: after a file that
\* normalizeFileSelection rejects, with a model chosen, isEstimating stays on and
\* nothing is asked.
UploadWaitIsAwaited ==
    page = "upload" =>
        /\ upload.step \in InProgress => \E f \in flows : f.life = "mounted"
        /\ upload.estimating =>
              \/ \E call \in estimates : ~call.cancelled /\ call.choice = upload.choice
              \/ upload.invalid /\ upload.choice.file = "none" /\ upload.choice.model # "none"

\* Work is ordered once: a document has as many processing events as it was
\* confirmed from UPLOADED or after a failure, however many uploads, retries and
\* lost answers there were, and only once its file is stored.
WorkIsOrderedOnce ==
    \A d \in DOMAIN docs :
        /\ docs[d].events <= 1 + docs[d].failures
        /\ docs[d].events > 0 => docs[d].stored

\* The processing screen follows its document: it stops polling only at a final
\* status, and shows another one than the document has only while a poll or a
\* retry is under way, after a retry whose answer was lost, or when a confirm sent
\* from elsewhere, by an upload or by a retry that was left, arrived behind its back.
ScreenFollowsDocument ==
    page = "processing" =>
        \/ watch.poll # "stopped"
        \/ watch.shown = docs[watch.doc].status
        \/ watch.retrying # "no" \/ watch.retryError
        \/ docs[watch.doc].by = "elsewhere" /\ docs[watch.doc].events > 1

=============================================================================
