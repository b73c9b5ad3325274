------------------------- MODULE DocumentPipeline -------------------------
(***************************************************************************)
(* A document from the owner's confirm to its quiz.  The work queue of     *)
(* ProcessingQueue is joined to the two seams around it:                   *)
(*                                                                         *)
(*   owner --confirm--> course.documents + course.outbox                   *)
(*         --ForwardRelay--> ai.processing_jobs --Go loops--> ai.outbox    *)
(*         --ReturnRelay--> assessment.quizzes, course.documents           *)
(*                                                                         *)
(* No transaction spans two schemas.  Both relays run one after the other  *)
(* in the cycle of the one WorkerRunner; each reads a batch of unpublished *)
(* rows, acts on a row, and marks it published in a later transaction.     *)
(***************************************************************************)
EXTENDS ProcessingQueue

CONSTANTS
    BatchSize,       \* outboxBatchSize, the `take` of both outbox queries
    MaxConfirms,     \* bound: successful confirms of one document
    MaxRelayFaults   \* bound: crashes and failed transactions of the relay process

ASSUME PipelineAssumption ==
    /\ BatchSize \in Nat \ {0}
    /\ MaxConfirms \in Nat
    /\ MaxRelayFaults \in Nat

VARIABLES
    docs,              \* course.documents.status
    courseOutbox,      \* course.outbox in created_at order: the document of each row
    coursePublished,   \* positions of courseOutbox with published_at set
    aiPublished,       \* positions of aiOutbox with published_at set
    quizzes,           \* assessment: the attempt whose questions the quiz holds, 0: no quiz
    relay,             \* the worker process: where its cycle stands, rows left of its batch
    reader,            \* a GET quiz request between its two reads
    armedBy,           \* history: per document, the outbox row and attempt of each arming
    relayFaults        \* faults of the relay process, bounded by MaxRelayFaults

seamVars == <<docs, courseOutbox, coursePublished, aiPublished, quizzes, relay, reader,
              armedBy, relayFaults>>
vars == <<queueVars, seamVars>>

DocumentStatus == {"UPLOADED", "PROCESSING", "READY", "FAILED"}

RelayStage == {"idle", "forward", "forwardMark", "return", "project", "terminalize",
               "returnMark"}

IdleRelay == [pc |-> "idle", batch |-> <<>>]
NoRequest == [doc |-> NoDocument, seen |-> "UPLOADED"]

\* Documents start as createUploadUrl leaves them, with the object uploaded.
Init ==
    /\ QueueInit
    /\ docs = [d \in Documents |-> "UPLOADED"]
    /\ courseOutbox = <<>>
    /\ coursePublished = {}
    /\ aiPublished = {}
    /\ quizzes = [d \in Documents |-> 0]
    /\ relay = IdleRelay
    /\ reader = NoRequest
    /\ armedBy = [d \in Documents |-> <<>>]
    /\ relayFaults = 0

(***************************************************************************)
(* Owner                                                                   *)
(***************************************************************************)

ConfirmsOf(d) == {i \in DOMAIN courseOutbox : courseOutbox[i] = d}

\* confirmProcessing: compare-and-set of the status and the outbox row in one
\* transaction.  A confirm that finds another status changes nothing.
Confirm(d) ==
    /\ docs[d] \in {"UPLOADED", "FAILED"}
    /\ Cardinality(ConfirmsOf(d)) < MaxConfirms
    /\ docs' = [docs EXCEPT ![d] = "PROCESSING"]
    /\ courseOutbox' = Append(courseOutbox, d)
    /\ UNCHANGED <<queueVars, coursePublished, aiPublished, quizzes, relay, reader,
                   armedBy, relayFaults>>

\* findQuiz reads the document first ...
ReadDocument(d) ==
    /\ reader = NoRequest
    /\ reader' = [doc |-> d, seen |-> docs[d]]
    /\ UNCHANGED <<queueVars, docs, courseOutbox, coursePublished, aiPublished, quizzes,
                   relay, armedBy, relayFaults>>

\* ... then the quiz, and answers 200, 409 or 500.
ReadQuiz ==
    /\ reader # NoRequest
    /\ reader' = NoRequest
    /\ UNCHANGED <<queueVars, docs, courseOutbox, coursePublished, aiPublished, quizzes,
                   relay, armedBy, relayFaults>>

(***************************************************************************)
(* ForwardRelay.pump                                                       *)
(***************************************************************************)

\* The rows of an outbox with published_at IS NULL ...
Waiting(outbox, published) == DOMAIN outbox \ published

\* ... of which row i is the Rank-th by created_at ...
Rank(rows, i) == Cardinality({k \in rows : k <= i})

\* ... and a pump takes the first BatchSize, oldest first.
Unpublished(outbox, published) ==
    LET rows == Waiting(outbox, published)
        count == Cardinality(rows)
    IN  [n \in 1 .. (IF count < BatchSize THEN count ELSE BatchSize) |->
            CHOOSE i \in rows : Rank(rows, i) = n]

Row == Head(relay.batch)

Advance(pc) == relay' = [relay EXCEPT !.pc = pc]
NextRow(pc) == relay' = [pc |-> pc, batch |-> Tail(relay.batch)]

\* MUTANT: the rows of the batch are marked published as they are read.
ReadCourseOutboxMarking ==
    /\ relay.pc = "idle"
    /\ LET batch == Unpublished(courseOutbox, coursePublished) IN
       /\ relay' = [pc |-> "forward", batch |-> batch]
       /\ coursePublished' = coursePublished \cup {batch[i] : i \in DOMAIN batch}
    /\ UNCHANGED <<queueVars, docs, courseOutbox, aiPublished, quizzes, reader, armedBy,
                   relayFaults>>

ReadCourseOutbox ==
    /\ relay.pc = "idle"
    /\ relay' = [pc |-> "forward", batch |-> Unpublished(courseOutbox, coursePublished)]
    /\ UNCHANGED <<queueVars, docs, courseOutbox, coursePublished, aiPublished, quizzes,
                   reader, armedBy, relayFaults>>

\* Step 1: the idempotent enqueue, in schema ai.
ForwardEnqueue ==
    /\ relay.pc = "forward" /\ relay.batch # <<>>
    /\ LET d == courseOutbox[Row] IN
       /\ Enqueue(d)
       /\ armedBy' = IF arms' = arms THEN armedBy
                     ELSE [armedBy EXCEPT ![d] =
                             Append(@, [row |-> Row, from |-> jobs'[d].attempts])]
    /\ Advance("forwardMark")
    /\ UNCHANGED <<docs, courseOutbox, coursePublished, aiPublished, quizzes, reader,
                   relayFaults>>

\* MUTANT: published_at is not written.
ForwardMarkForgets ==
    /\ relay.pc = "forwardMark"
    /\ NextRow("forward")
    /\ UNCHANGED <<queueVars, docs, courseOutbox, coursePublished, aiPublished, quizzes,
                   reader, armedBy, relayFaults>>

\* Step 2: mark published, in schema course.
ForwardMark ==
    /\ relay.pc = "forwardMark"
    /\ coursePublished' = coursePublished \cup {Row}
    /\ NextRow("forward")
    /\ UNCHANGED <<queueVars, docs, courseOutbox, aiPublished, quizzes, reader, armedBy,
                   relayFaults>>

(***************************************************************************)
(* ReturnRelay.pump                                                        *)
(***************************************************************************)

\* The forward batch is done: the cycle goes on with the return relay.
ReadAiOutbox ==
    /\ relay.pc = "forward" /\ relay.batch = <<>>
    /\ relay' = [pc |-> "return", batch |-> Unpublished(aiOutbox, aiPublished)]
    /\ UNCHANGED <<queueVars, docs, courseOutbox, coursePublished, aiPublished, quizzes,
                   reader, armedBy, relayFaults>>

\* MUTANT: rejected questions are swallowed and the document projected READY.
PersistQuizIgnoringRejection ==
    /\ relay.pc = "return" /\ relay.batch # <<>>
    /\ LET event == aiOutbox[Row] IN
       /\ event.status = "READY"
       /\ quizzes' = IF event.questions = "Valid" /\ quizzes[event.doc] = 0
                     THEN [quizzes EXCEPT ![event.doc] = event.attempt] ELSE quizzes
    /\ Advance("project")
    /\ UNCHANGED <<queueVars, docs, courseOutbox, coursePublished, aiPublished, reader,
                   armedBy, relayFaults>>

\* MUTANT: rejected questions abandon the cycle like any other error.
PersistQuizThrows ==
    /\ relay.pc = "return" /\ relay.batch # <<>>
    /\ LET event == aiOutbox[Row] IN
       /\ event.status = "READY"
       /\ IF event.questions = "Valid"
          THEN /\ quizzes' = [quizzes EXCEPT ![event.doc] =
                                IF @ = 0 THEN event.attempt ELSE @]
               /\ Advance("project")
          ELSE relay' = IdleRelay /\ UNCHANGED quizzes
    /\ UNCHANGED <<queueVars, docs, courseOutbox, coursePublished, aiPublished, reader,
                   armedBy, relayFaults>>

\* MUTANT: an existing quiz is taken for a conflict, which is terminal.
PersistQuizConflicts ==
    /\ relay.pc = "return" /\ relay.batch # <<>>
    /\ LET event == aiOutbox[Row] IN
       /\ event.status = "READY"
       /\ IF event.questions = "Valid" /\ quizzes[event.doc] = 0
          THEN /\ quizzes' = [quizzes EXCEPT ![event.doc] = event.attempt]
               /\ Advance("project")
          ELSE Advance("terminalize") /\ UNCHANGED quizzes
    /\ UNCHANGED <<queueVars, docs, courseOutbox, coursePublished, aiPublished, reader,
                   armedBy, relayFaults>>

\* quizHandoff.persist of a READY result.  The quiz's idempotency key is a hash
\* of the document and the prompt version: an existing quiz is kept.  Too few
\* valid questions lead to the terminal branch of the catch.
PersistQuiz ==
    /\ relay.pc = "return" /\ relay.batch # <<>>
    /\ LET event == aiOutbox[Row] IN
       /\ event.status = "READY"
       /\ IF event.questions = "Valid"
          THEN /\ quizzes' = [quizzes EXCEPT ![event.doc] =
                                IF @ = 0 THEN event.attempt ELSE @]
               /\ Advance("project")
          ELSE Advance("terminalize") /\ UNCHANGED quizzes
    /\ UNCHANGED <<queueVars, docs, courseOutbox, coursePublished, aiPublished, reader,
                   armedBy, relayFaults>>

\* UPDATE course.documents ... WHERE status = 'PROCESSING'
ProjectStatus(d, status) ==
    docs' = IF docs[d] = "PROCESSING" THEN [docs EXCEPT ![d] = status] ELSE docs

\* projection.project, of the result's own status or of FAILED when its
\* questions were rejected.
Project ==
    /\ relay.batch # <<>>
    /\ LET event == aiOutbox[Row] IN
       \/ relay.pc = "return" /\ event.status = "FAILED" /\ ProjectStatus(event.doc, "FAILED")
       \/ relay.pc = "project" /\ ProjectStatus(event.doc, "READY")
       \/ relay.pc = "terminalize" /\ ProjectStatus(event.doc, "FAILED")
    /\ Advance("returnMark")
    /\ UNCHANGED <<queueVars, courseOutbox, coursePublished, aiPublished, quizzes, reader,
                   armedBy, relayFaults>>

\* MUTANT: published_at is not written.
ReturnMarkForgets ==
    /\ relay.pc = "returnMark"
    /\ NextRow("return")
    /\ UNCHANGED <<queueVars, docs, courseOutbox, coursePublished, aiPublished, quizzes,
                   reader, armedBy, relayFaults>>

ReturnMark ==
    /\ relay.pc = "returnMark"
    /\ aiPublished' = aiPublished \cup {Row}
    /\ NextRow("return")
    /\ UNCHANGED <<queueVars, docs, courseOutbox, coursePublished, quizzes, reader,
                   armedBy, relayFaults>>

\* Both pumps are done: the cycle ends and the timer is set.
EndCycle ==
    /\ relay.pc = "return" /\ relay.batch = <<>>
    /\ relay' = IdleRelay
    /\ UNCHANGED <<queueVars, docs, courseOutbox, coursePublished, aiPublished, quizzes,
                   reader, armedBy, relayFaults>>

\* The process dies and restarts, or a transaction of a pump throws and the
\* cycle is abandoned: the rows of the batch stay as they are in the tables.
RelayFault ==
    /\ relay # IdleRelay
    /\ relayFaults < MaxRelayFaults
    /\ relayFaults' = relayFaults + 1
    /\ relay' = IdleRelay
    /\ UNCHANGED <<queueVars, docs, courseOutbox, coursePublished, aiPublished, quizzes,
                   reader, armedBy>>

(***************************************************************************)
(* Go loops: as in the queue, with Source reading course.documents         *)
(***************************************************************************)

Source(w) ==
    IF docs[worker[w].doc] = "PROCESSING" THEN SourceFound(w) ELSE SourceMissing(w)

ClaimedSource(w) == worker[w].pc = "claimed" /\ Source(w)

QueueProgress ==
    /\ \/ \E w \in Workers : Claim(w) \/ ClaimedSource(w) \/ LoopStep(w)
       \/ \E d \in Documents : Passage(d)
    /\ UNCHANGED seamVars

QueueFault ==
    /\ \/ \E w \in Workers : Fault(w)
       \/ \E d \in Documents : LeaseOutrun(d)
    /\ UNCHANGED seamVars

RelayStep ==
    \/ ReadCourseOutbox \/ ForwardEnqueue \/ ForwardMark
    \/ ReadAiOutbox \/ PersistQuiz \/ Project \/ ReturnMark \/ EndCycle

Request == ReadQuiz \/ \E d \in Documents : Confirm(d) \/ ReadDocument(d)

Next == Request \/ RelayStep \/ RelayFault \/ QueueProgress \/ QueueFault

Spec == Init /\ [][Next]_vars

\* The relay's timer is re-armed after every cycle, also after a failed one,
\* and its process is restarted when it dies; so are the loops.  Owners owe
\* nothing, and no fault is due.
Fairness ==
    /\ WF_vars(RelayStep)
    /\ \A w \in Workers :
         WF_vars((Claim(w) \/ ClaimedSource(w) \/ LoopStep(w)) /\ UNCHANGED seamVars)
    /\ \A d \in Documents : WF_vars(Passage(d) /\ UNCHANGED seamVars)

FairSpec == Spec /\ Fairness

(***************************************************************************)
(* Properties                                                              *)
(***************************************************************************)

\* Every seam table and the relay's position have their declared shape.
TypeOK ==
    /\ QueueTypeOK
    /\ docs \in [Documents -> DocumentStatus]
    /\ courseOutbox \in Seq(Documents)
    /\ coursePublished \subseteq DOMAIN courseOutbox
    /\ aiPublished \subseteq DOMAIN aiOutbox
    /\ quizzes \in [Documents -> Nat]
    /\ relay \in [pc : RelayStage, batch : Seq(Nat)]
    /\ reader \in [doc : Documents \cup {NoDocument}, seen : DocumentStatus]
    /\ armedBy \in [Documents -> Seq([row : Nat, from : Nat])]
    /\ relayFaults \in 0 .. MaxRelayFaults

\* GET quiz never answers 500 QUIZ_INVARIANT_VIOLATION: whoever saw the document
\* READY finds a quiz at the second read, wherever the relay stopped.
ReadySeenHasQuiz ==
    reader.doc # NoDocument /\ reader.seen = "READY" => quizzes[reader.doc] # 0

\* A quiz's citations name stored chunks: those of the attempt it came from.
QuizCitesStoredChunks ==
    \A d \in Documents : quizzes[d] # 0 => chunks[d] = quizzes[d]

\* Something is on its way to a document that waits for its answer: an outbox
\* row still to be relayed for it, an open job, or a result not yet marked.
AnswerUnderWay(d) ==
    \/ \E i \in ConfirmsOf(d) : i \notin coursePublished
    \/ jobs[d].status \in {"PENDING", "RUNNING"}
    \/ \E i \in DOMAIN aiOutbox : aiOutbox[i].doc = d /\ i \notin aiPublished

\* No document is confirmed into the void: each confirm is followed by a
\* processing attempt and its answer, so no document waits for nothing.
ProcessingIsUnderWay ==
    \A d \in Documents : docs[d] = "PROCESSING" => AnswerUnderWay(d)

\* The same for a document confirmed once, through every crash of both sides.
FirstConfirmIsUnderWay ==
    \A d \in Documents :
        docs[d] = "PROCESSING" /\ Cardinality(ConfirmsOf(d)) = 1 => AnswerUnderWay(d)

\* What the code keeps of it: a document waits for nothing only if it was confirmed
\* again after its work was completed, which re-arms no job, and, as long as the
\* relay has not failed, only if that work brought no quiz.
VoidFollowsCompletion ==
    \A d \in Documents :
        docs[d] = "PROCESSING" /\ ~AnswerUnderWay(d) =>
            /\ Cardinality(ConfirmsOf(d)) > 1
            /\ jobs[d].status = "COMPLETED"
            /\ relayFaults = 0 => quizzes[d] = 0

\* One confirm, one outcome: the results of a document never outnumber the
\* confirms that asked for them, also when a row is delivered again.
OneOutcomePerConfirm ==
    \A d \in Documents :
        Cardinality({i \in DOMAIN aiOutbox : aiOutbox[i].doc = d}) <= Cardinality(ConfirmsOf(d))

\* The same as long as the relay has not failed: whatever the loops do, crash or
\* outrun their leases, they add no outcome of their own.
LoopsAddNoOutcome == relayFaults = 0 => OneOutcomePerConfirm

\* The confirm a result answers: the row that armed the job last before the
\* attempt the result stems from.
ConfirmAnsweredBy(event) ==
    LET armings == armedBy[event.doc]
        earlier == {k \in DOMAIN armings : armings[k].from < event.attempt}
    IN  armings[CHOOSE k \in earlier : \A j \in earlier : j <= k].row

\* In this step each document that leaves PROCESSING does so by an answer to its
\* latest confirm.
AnswersLatest ==
    \A d \in Documents :
        docs[d] = "PROCESSING" /\ docs'[d] # "PROCESSING" =>
            \A i \in ConfirmsOf(d) : i <= ConfirmAnsweredBy(aiOutbox[Row])

\* A document leaves PROCESSING by an answer to its latest confirm, never by a
\* late copy of the answer to an earlier one.
AnswersLatestConfirm == [][AnswersLatest]_vars

\* The same as long as the relay has not failed between two steps.
ReliableRelayAnswersLatestConfirm == [][relayFaults = 0 => AnswersLatest]_vars

\* A confirmed document ends READY or FAILED, through any bounded number of
\* crashes of the loops and the relay.
ConfirmedDocumentsSettle ==
    \A d \in Documents : (docs[d] = "PROCESSING") ~> (docs[d] \in {"READY", "FAILED"})

(***************************************************************************)
(* Refinement                                                              *)
(***************************************************************************)

Lifecycle == INSTANCE DocumentLifecycle WITH
    phase <- [d \in Documents |-> PhaseOf(d)],
    log <- [i \in DOMAIN aiOutbox |->
              [doc |-> aiOutbox[i].doc, outcome |-> aiOutbox[i].status]],
    status <- docs,
    quiz <- {d \in Documents : quizzes[d] # 0}

\* Outboxes, batches, late marks and repeated deliveries are invisible through the
\* document's status, its quiz and the result log: a document fails only for want
\* of a quiz, is READY only with one, and stays so.
ImplementsLifecycle == Lifecycle!LifecycleSpec

=============================================================================
