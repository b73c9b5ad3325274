------------------------------ MODULE LearnerTab ------------------------------
(***************************************************************************)
(* The learner's tab: documents and quizzes, one page at a time, with the  *)
(* links of the shell and the pushes of calls that outlive their page.     *)
(***************************************************************************)
EXTENDS QuizSession, DocumentScreens, MockScreens

CONSTANT MaxOpened  \* bound: uploads started and play screens opened, together

vars == <<page, pushing, clicks, quizVars, documentVars, mock>>

Init ==
    /\ QuizInit /\ DocumentInit
    /\ page = "home" /\ pushing = NoPush /\ clicks = 0 /\ mock = NoMock

Opened == visits + Len(docs) + Cardinality({f \in flows : f.stage = "create"})

Calls == <<storage, submissions, attempts, visits, clicks, docs, losses>>

\* The shell's links are there on every page and no guard stops them.
NavLibrary ==
    /\ page # "library" /\ Show("library")
    /\ QuizLeft /\ OpenLibrary
    /\ UNCHANGED Calls

NavUpload ==
    /\ page # "upload" /\ Opened < MaxOpened
    /\ Show("upload")
    /\ QuizLeft /\ OpenUpload
    /\ UNCHANGED Calls

\* Links to a document: its card in the library, the header of the processing
\* screen.
LibraryDocumentCard(d) == page = "library" /\ d \in FilterDocuments
ProcessingHeader(d) == page = "processing" /\ d = watch.doc

DocumentLink(d) ==
    /\ LibraryDocumentCard(d) \/ ProcessingHeader(d)
    /\ Show("document")
    /\ QuizLeft /\ OpenDocument(d)
    /\ UNCHANGED Calls

ProcessingLink(d) ==
    /\ \/ LibraryDocumentCard(d) /\ library.shown[d] = "processing"
       \/ page = "document" /\ d = detail.doc /\ PrimaryAction = "processing"
    /\ Show("processing")
    /\ QuizLeft /\ OpenProcessing(d)
    /\ UNCHANGED Calls

\* A quiz of the learner's, from its document or from an address kept.
QuizLink ==
    /\ page \in {"home", "result"} \/ (page = "document" /\ PrimaryAction = "quiz")
    /\ Opened < MaxOpened
    /\ OpenStart
    /\ DocumentsLeft
    /\ UNCHANGED Calls

\* router.push of a confirmed upload arrives, whatever page it finds.
ShowProcessing ==
    /\ pushing.to = "processing"
    /\ Show("processing")
    /\ QuizLeft /\ OpenProcessing(pushing.id)
    /\ UNCHANGED Calls

\* The fixture screens share nothing with the others: they are opened from the
\* first page and left for it, with nothing else under way.
OpenMock ==
    /\ page = "home" /\ Opened = 0
    /\ Show("mock")
    /\ mock' \in OpenScreens
    /\ UNCHANGED <<clicks, quizVars, documentVars>>

LeaveMock ==
    /\ page = "mock"
    /\ Show("home")
    /\ mock' = NoMock
    /\ UNCHANGED <<clicks, quizVars, documentVars>>

LearnerStep ==
    \/ QuizStep /\ UNCHANGED documentVars /\ Opened' <= MaxOpened
    \/ QuizPageLoad /\ FlowsKilled /\ UNCHANGED <<screens, docs, losses>> /\ Opened' <= MaxOpened
    \/ ShowResult /\ DocumentsLeft /\ UNCHANGED <<docs, losses>>
    \/ DocumentStep /\ UNCHANGED quizVars /\ Opened' <= MaxOpened
    \/ NavLibrary \/ NavUpload \/ QuizLink \/ ShowProcessing
    \/ \E d \in DOMAIN docs : DocumentLink(d) \/ ProcessingLink(d)

Next ==
    \/ page # "mock" /\ LearnerStep /\ UNCHANGED mock
    \/ page = "mock" /\ MockStep /\ UNCHANGED <<page, pushing, clicks, quizVars, documentVars>>
    \/ OpenMock \/ LeaveMock

Spec == Init /\ [][Next]_vars

\* On the two screens where a wait and the call that ends it are kept apart, the
\* play screen's feedback and the upload workspace, a wait is shown only while such
\* a call is under way, whichever calls were abandoned, answered late or lost
\* before it; UploadWaitIsAwaited names the one wait of the code that nothing ends.
\* Library, detail and processing screen show a wait exactly from the start of a
\* call to its end, and are not part of this.
WaitsAreAwaited == LoadingIsAwaited /\ UploadWaitIsAwaited

=============================================================================
