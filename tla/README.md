# LearningPlatform: TLA+ models

LearningPlatform turns an uploaded document into a quiz. A NestJS application
(`app/`) owns documents, quizzes and credits; a Go worker (`worker/`) extracts
text, calls a language model and writes chunks and questions; PostgreSQL tables
are the only queue between them (`docs/adr/0023-postgresql-durable-work-queue-contract.md`).
What can go wrong there is rarely visible in one function: it needs two loops, a
lease that expires at a bad moment, a relay that dies between two transactions,
or an owner who retries. These modules model that pipeline first. Around it they model
what a document goes through (text, chunks, questions, quiz, attempt), the credits
of the retained Node path, the learner's browser tab (`web/`), how the services
migrate, start and are deployed, and what happens inside a Node process. The proofs
cover queue, pipeline, credits, tab, rollout, processes, the chunkers and the way from the
chunks to a graded attempt for every value of the constants; liveness is model-checked only.

Paths below are relative to the repository's root, as in `PROJECT.json`, where
they carry the prefix `src/`.

## Inventory

### The parts and how they interact

    owner --confirm--> course.documents, course.outbox      (one transaction)
          --ForwardRelay--> ai.processing_jobs              (enqueue, then mark)
          --Go worker loop--> ai.chunks, ai.processing_jobs, ai.outbox  (one transaction)
          --ReturnRelay--> assessment.quizzes, course.documents, ai.outbox  (three transactions)
    owner --GET quiz--> course.documents, then assessment.quizzes

| Part | State | Operations | What makes it correct |
| --- | --- | --- | --- |
| Work queue `worker/internal/processing/postgres.go`, `app/src/modules/ai/repositories/processing-job.repository.ts` | `ai.processing_jobs`, `ai.outbox`, `ai.processing_job_dlq`, `ai.chunks` | enqueue, Claim, PersistAndComplete, Fail, Retry, finalizeWithDLQ, requeueExpiredLeases | an attempt has one outcome, published under the current claim; READY is final; a job is retried a bounded number of times and ends |
| Go loop `worker/internal/consumer/consumer.go` | the claimed job | processOne, finish | whatever it does after losing its claim has no effect |
| Forward relay `app/src/modules/content/forward-relay.service.ts` | its batch | pump | no confirm is lost; a replay has no effect of its own |
| Return relay `app/src/worker/return-relay.service.ts` | its batch | pump | a quiz exists before its document is READY; an answer belongs to the latest confirm; no row blocks the others |
| Runner `app/src/worker/worker-runner.service.ts`, `legacy-worker-runner.service.ts` | timer, active run | run, shutdown | every cycle is followed by another; shutdown drains |
| Content `app/src/modules/content` | `course.documents`, `course.outbox` | createUploadUrl, confirm, findQuiz, estimate, list | one outbox row per successful compare-and-set |
| Upload verification and extraction `app/src/storage`, `worker/internal/processing/adapters.go`, `app/src/modules/ai/extraction-job-processor.service.ts` | the object, its text | verify, read, extract | a failure is final or technical for the right reason |
| Chunking `worker/internal/processing/chunk.go`, `app/src/modules/ai/chunk.service.ts` | position in the text | ChunkText, ChunkService | progress, coverage, size limits, valid text, locators that find it |
| Generation and validation `adapters.go`, `app/src/modules/ai/openai-llm-provider.ts`, `quiz-generation-output.*` | candidate questions | preflight, generate, decode, validate | what is published can be read downstream |
| Quiz, grading, attempts `app/src/modules/assessment` | quizzes, questions, options, attempts | persist, serve, practice feedback, submit, read back | sound questions numbered without gaps; an attempt reads back as graded |
| Credits `app/src/modules/content/repositories/budget-reservation.repository.ts` | wallets, ledger, usage records | reserve, record, settle | the wallet is the ledger's sum; a settlement charges final usage; the unknown is held |
| Node generation path `app/src/modules/ai/quiz-generation.service.ts` and `extraction-job-processor.service.ts` | jobs, cache | claim, process, generate, complete, retry; retained, but `JobPoller.tick` returns false | bounded concurrency, budget under a valid lease |
| Learner's screens `web/src/components/{quiz,upload,processing,library}` | React state, `sessionStorage`, calls under way | choose, upload, confirm, poll, retry, answer, check, submit, leave, reload | kept work goes only where the code says so; nothing ordered twice; nothing stale shown; a wait has its call |
| Mock screens `web/src/components/{auth,courses,exam,flashcards,tutor,settings,billing,teacher,admin}` | React state on fixtures | forms, wizards, reviews, settings | success only after validation; derived figures agree |
| Migrations `app/src/database/migrate.ts`, `worker/internal/migrations/runner.go` | `schema_migrations`, an advisory lock | up, down, status | each file applied once, in order, recorded with it |
| Start and deployment `app/src/main.ts`, `app/src/worker.ts`, `worker/cmd/ai-worker/main.go`, `deploy/dev` | containers, release files | bootstrap, health, deploy, roll back | nothing serves before its migrations; a rollback returns to what worked, also when it fails half-way |
| Worker process `app/src/worker.ts`, `worker/*runner.service.ts`, `worker-health.server.ts` | cycle, timer, health listener and its connections | bootstrap, cycle, shutdown | shutdown drains the cycle and ends, whoever is connected |
| Internal TLS listener `app/src/internal-mtls-server.ts` | secure context, watcher, debounce | start, reload, close | the last change of the files reaches the listener |
| Configuration `app/src/config/application-config.service.ts` | the environment | getters | a process that is up passed the checks of all it uses |
| Model catalog, owner model configuration, cipher, lease authority, logging | one row or none | reads, writes, validation | single statements without a protocol |

### What is hard

- **Late loops.** A lease lasts 15 minutes and nothing renews it. A loop that
  outlives it keeps running while another one claims the job. The only protection
  is the fence in each WHERE clause (`attempts`, `lease_id`, `status`, `lease_until`).
- **Transactions that are not one.** `Retry` releases its lock before
  `finalizeWithDLQ`; `PersistAndComplete` looks before it locks; each relay acts
  in one schema and marks in another.
- **Ambiguous commits.** A commit may take effect although its caller sees an error.
- **Replays.** Both relays deliver at least once, and meanwhile the job and the
  document move on: the receiver recognises a duplicate by its status alone.
- **Handlers that outlive their page.** An upload, a submission or a check goes on
  after its screen is gone or shows something else, and then writes to storage,
  pushes a route or sets state; calls are not cancelled on the server.
- **Two implementations of one step.** Go and Node chunk, validate and classify
  failures separately, and the web lists the codes again.
- **Money across attempts.** A run whose lease expired goes on beside its successor,
  both write usage and settle, and a crash may strike between any two statements.
- **One database, several migrators.** Node polls for the lock and gives up, Go waits
  for ever, and a dead client's session may still commit.
- **Files that change while they are read.** The TLS listener reads three projected files
  one by one, is told of changes late, and remembers one reload during another.
- **Ends.** A job must end although loops crash, and a relay must not stop at a
  row it cannot handle.

`PROJECT.json` lists every hazard with its line and the properties that cover it.

## Modules

| Module | What it is |
| --- | --- |
| `JobOutcomes` | What the queue promises its neighbours: work is armed, answered at most once per arming, and READY ends it. |
| `DocumentLifecycle` | Extends `JobOutcomes` to what the pipeline promises a document's owner: no work before a confirm, a quiz only of a READY answer, an answer delivered as READY exactly if the quiz is there then, nothing after READY. |
| `ProcessingQueue` | The queue's tables, the enqueue statement and the Go loops. |
| `DocumentPipeline` | Extends `ProcessingQueue` with documents, both outboxes, both relays, quizzes and a quiz reader. |
| `QuizGeneration` | The Node generation path: attempts of one job, the bounded pool of provider calls, cache, usage records, wallet and ledger. |
| `Chunking` | Both chunkers as one walk over a text of storage units. |
| `SourceText` | Extends `Chunking`: from the uploaded object to its chunks, and how a failure ends. |
| `QuizContent` | Extends `SourceText`: preflight, model answers, validation, result event, relay, quiz aggregate, attempts, and the web's mappers. |
| `BrowserTab` | What screens share: one page at a time and a push under way. |
| `QuizSession`, `DocumentScreens`, `MockScreens` | The quiz screens; upload, processing, library and document pages; the fixture screens. Each with the server behind it as far as it answers. |
| `LearnerTab` | Composes the three in one tab, with the links between them. |
| `Migrations` | Both migration runners on one database. |
| `Rollout` | Extends `Migrations`: containers, their bootstrap and health, the Go worker's readiness, and `deploy.sh`. |
| `Configuration` | What each getter of `ApplicationConfigService` accepts. |
| `NodeProcesses` | Extends `Configuration`: the worker's and the API's process from start to exit. |
| `MC*` | Instances for the runs: symmetry sets, texts, objects, answers and settings. |
| `ProcessingQueueProofs`, `QueueOutcomeProofs` | The theorems about `ProcessingQueue`. |
| `PipelineProofs`, `GenerationProofs`, `ContentProofs`, `LearnerTabProofs`, `RolloutProofs`, `NodeProcessProofs` | The theorems about `DocumentPipeline`, `QuizGeneration`, the chunkers within `QuizContent`, `QuizSession` and `DocumentScreens` in one tab, `Rollout` with `Migrations`, and `NodeProcesses`. |

### ProcessingQueue

A step is one committed statement or transaction, or a point at which a loop may
stop between two of them.

| Model | Code |
| --- | --- |
| `jobs[d]` | the row of `ai.processing_jobs`; `leaseLive` is `lease_until > now()`, `visible` is `next_visible_at <= now()`. A job is named by its document because `(document_id, job_type)` is unique and there is one job type. |
| `lease` | `lease_id`, a fresh UUID per claim, named by the attempt that drew it; 0 is NULL |
| `worker[w]` | the loop's position in `processOne` and its copy of the job |
| `aiOutbox` | `ai.outbox` in order; `attempt` is history, the real payload has none |
| `chunks[d]` | which attempt's chunks are stored |
| `Enqueue` | the single `INSERT ... ON CONFLICT DO UPDATE ... WHERE status = 'FAILED'` |
| `Claim` | `SELECT ... ORDER BY created_at LIMIT 1 FOR UPDATE SKIP LOCKED` with its UPDATE |
| `SourceFound`, `SourceMissing`, `ProcessingFails` | the body up to the first fenced write |
| `BeginPersist`, `LockRow`, `CommitPersist` | the transaction of `PersistAndComplete`: the unlocked look, the point where the fenced UPDATE takes the row lock, the commit. `now()` is the start of a transaction, so the lease is compared at the look only. |
| `Fail`, `Retry`, `DeadLetter` | `finalize`, `Retry` and `finalizeWithDLQ`; the last two are separate transactions |
| `LeaseRunsOut`, `LeaseOutrun`, `RetryDue` | time. A lease whose holder is gone runs out freely; one that runs out under its holder counts as a mishap |
| `RequeueExpired` | the detector of the legacy mode; part of the queue alone, not of the deployed pipeline, which runs `relay-only` |
| `PersistError`, `Crash` | a failed statement, a dead process, a lost commit |

A commit that took effect without its caller knowing is the committing step
itself: the loop forgets the job either way.

### DocumentPipeline

| Model | Code |
| --- | --- |
| `Confirm` | `confirmProcessing`: compare-and-set and outbox row in one transaction |
| `ReadDocument`, `ReadQuiz` | the two reads of `findQuiz`, which run in no common transaction |
| `ReadCourseOutbox`, `ForwardEnqueue`, `ForwardMark` | `ForwardRelay.pump` |
| `ReadAiOutbox`, `PersistQuiz`, `Project`, `ReturnMark` | `ReturnRelay.pump`, with the terminal branch of rejected questions |
| `EndCycle`, `RelayFault` | the end of a cycle of the runner; its death or an abandoned cycle |
| `Source` | the loop's `Source` query, which sees the document's status |

There is one relay process: the manifests run one replica and replace it by
`Recreate` (`infra/k8s/apps.yaml.j2`). There are two loops, although one Go
worker is deployed: the second stands for a loop that has outlived its lease
while its successor runs.

### QuizGeneration

A run is named by the attempt it claimed. A step is one store transaction, one
provider call, or a stop in between. `run[a]` is the call stack of `process` and
`generate` (where it stands, the state of each chunk's call, the error being
thrown); `ledger[a]` the four business keys of an attempt; `usage[a][k]` the usage
record under a request key. `text` chooses which chunks have equal text, because
cache and usage are keyed by it; `concurrency` the size of the pool.

### SourceText, Chunking, QuizContent

A text is a sequence of storage units: space, one-unit character, first and further
unit of a wider character. That is what the two chunkers see differently, and what
PostgreSQL refuses when it is cut. Documents go two ways: a text straight into a
chunker (all short texts), or an object through confirm, extraction, chunking,
generation, relay, quiz and attempt. Model answers are records that name what is
wrong with them; strings are members of a small set with their normal form in each
language (`GoForm`, `NodeForm`). The failure codes are the real ones.

### QuizSession, DocumentScreens, LearnerTab

A React event handler is one action up to its first `await`, and each continuation
another. A click renders and runs its effects before the next event, a timer's
update runs its effects later (`FlushEffects`). When a page goes away its state is
forgotten; handlers of calls under way still run, except after a full page load
(`heard`, `life`). Panels are named as in the code and list the actions they offer
under the conditions under which their buttons are enabled. The server is reduced to
what its answers depend on: attempts stored, documents with status, object and quiz.
Processing itself is `DocumentPipeline`'s; here a PROCESSING document may end either way.

`estimates` are the calls for an estimate, each with its choice and whether the effect's
cleanup has cancelled it: a call for an earlier file or model still returns, and what it
answers then is the handler's business (`EstimateReturns`). Attempts and submissions carry
their mode, because drafts are kept and cleared by mode.

`flows` are the uploads and retries under way, each with an `id`, because two of them may
stand at the same call for the same document. A retry whose page goes away leaves its
confirm behind (`LeftBehind`): the call reaches the server and nobody hears the answer.
Each document records whether its latest confirm came from the processing screen or from
`elsewhere`, a flow that overlapped.

### Migrations, Rollout

`runner[r]` is one migration run; a version stands for a file, image i ships files 1..i. A
session whose client died keeps the lock and may commit what it had received before the server
notices (`Orphan`, `OrphanEnds`). `deploy` is the running script, with what it has still to
bring up (`todo`) and has seen healthy (`seen`). `Rollback` chooses the branch of the shell
function; the branches are `RestoreRelease`, `Up` and `EndRollback`, or `RemoveContainers` and
`ForgetRelease`. The function runs in `rollback || true`, where `errexit` is off: a `cp` that
fails (`RestoreFails`), a `compose up` that fails (`UndoFails`) and a `compose rm` that removes
only some containers do not stop it. A `cp` that fails leaves the old file or a truncated one.
`ScriptEnds` is the death of the script at any point. Three variables are history: `proven`, the
images that passed a health wait; `tainted`, those that an unfinished script left in the release
file; `strays`, the services whose container it left behind. `goReady` is what `/readyz` of the
Go worker answers.

### Configuration, NodeProcesses

An operator of `Configuration` is true of the settings for which the getter of that name
returns. `cycle` is the pump under way, `timer` the runner's timer, `sockets` the
connections to the health port. `SIGTERM` is `StopWorker` once the shutdown hooks are
enabled; before that, and as SIGKILL, it is `KillWorker`. Of the TLS files only the version
counts; a read that a change interrupts may return a mixture (`Readable`). `missed` is
history: it marks the two cases in which the code waits for the next change by design, until
that change comes.

Operators whose comment begins with MUTANT or "Mutant of" are not part of any specification.
Each is a plausible bug in the operation next to it; substituted for that
operation it makes one of the properties fail, which shows that the property
says something about the code.

## Runs

| Run | Instance | What it shows |
| --- | --- | --- |
| `queue` | 2 documents, 2 loops, 1 retry, 2 armings each, 1 fault, 5 attempts | All safety properties of the queue, and that it implements `JobOutcomes` |
| `queue_dlq` | 1 document, 1 loop, the code's 3 retries, 2 armings, no fault | Counterexample to `RetryBudget` |
| `pipeline` | 1 document, 2 loops, 2 confirms, 1 queue fault, 1 relay fault | End-to-end safety, and that it implements `DocumentLifecycle` |
| `pipeline_settles` | 1 document, 2 loops, 1 confirm, 1 queue fault, 1 relay fault | A confirmed document settles |
| `duplicate_forward`, `stale_answer`, `confirmed_into_void` | 1 document, 1 loop | Counterexamples, see Findings |
| `generation` | 2 attempts, 2 chunks, 1 or 2 calls at a time, 1 fault | Credits and usage over every interleaving of an attempt with its successor |
| `learner_tab` | 2 questions with 2 options, 2 files, 1 model, 2 screens opened, 5 clicks, 1 lost call | The learner's tab |
| `rollout` | 2 images (1 broken), 2 deployments, api and web, 1 Go worker, 1 operator command, 1 fault; and 30 configurations, 3 versions of the TLS files (1 damaged), 1 health client | Migrations, start and deployment; bootstrap, TLS reload and shutdown of the Node processes; liveness included |
| `content` | every text of up to 8 units and pairs of up to 2, five settings, both languages; 9 objects, 23 answers, 4 provider profiles, 1 fault | Chunking, and a document's way to a graded attempt |
| `split_characters` | as `content` | Counterexample, see Findings |

Bounds, and why they suffice. `MaxRetries = 1` keeps both branches of `Retry` (schedule and
exhaust) and shortens every path; `queue_dlq` uses the real number. Two armings are enough for a
result of one to meet the next. Two loops are enough for a late one and a current one; a third
would be late in the same way as the first. One mishap per run is the single fault that turns a
legal schedule into a race; it may strike at every point. `MaxAttempts` only has to exceed what
the other bounds allow. `BatchSize = 2` lets a batch hold a row that is still waiting when the
relay stops. Two documents in `queue` exercise the order of claims; documents share no other
state, so the pipeline uses one. In `generation` two chunks are the least for which one call is
under way while another fails, and for which texts may be equal; costs below and above the
estimate reach both branches of settle; two attempts are a late one and its successor. In
`learner_tab` five clicks reach answer, check, change, submit and one more, two opened screens
let a handler of the first act on the second; `MaxTicks = 1` is one update with pending effects.
In `rollout` two versions give an order and a gap, two deployments a failure after a success and
its reverse; 30 configurations are a good one and those that differ from it in one respect (or
two, where a check relates two settings), three versions of the TLS files let a second change
meet the read of the first. `MCRollout` runs `Rollout` and `NodeProcesses` beside each other:
they share no variable, so no step of one can affect a property of the other, and each runs
alone beside the other's initial state instead of through every interleaving. Liveness is not
distorted either: while one runs, the other's fair actions are disabled in its initial state (no
cycle, no closing listener; no container). In `content` eight units are more than two chunks of
each setting, with their overlap; settings include an overlap near the target and limits that
are met. `CHECK_DEADLOCK` is off because a system in which everything is settled and every bound
is spent has nothing left to do.

### Properties

Of the queue: `OneOutcomePerAttempt`, `WritesUnderCurrentClaim` (a loop whose claim is no longer
current changes nothing any more, and only a loop under the current claim of a document settles
or reschedules its row, or writes its chunks, dead letter or result), `ReadyChunksAreStored`,
`DeadLetterHasOutcome`, `FreshArmIsDue`, `RetryBudgetBeforeDLQ`, `AttemptFence` (the invariant
behind most of them) and the refinement `ImplementsJobOutcomes`, which says, among the rest,
that READY is final (`ReadyIsFinal`, a theorem of its own). Of the pipeline: `ReadySeenHasQuiz`
(the 500 `QUIZ_INVARIANT_VIOLATION` branch is unreachable), `QuizCitesStoredChunks`,
`VoidFollowsCompletion` (a document waits for nothing only if it was confirmed again after its
work was completed, without a fault of the relay only if that work brought no quiz),
`LoopsAddNoOutcome`, `ReliableRelayAnswersLatestConfirm`, the refinement `ImplementsLifecycle`
and, under fairness, `ConfirmedDocumentsSettle` and `JobsSettle`. Four stronger forms are what
the documents promise and the code does not keep; the weaker forms name the exact condition
under which it does.

Of the credits: `WalletMatchesLedger` (conservation), `SettledUsageIsFinal` (the pool
has really ended when usage is summed), `UncertainIsHeld`, `EndedRunsAreSettled`,
`CompletedBudgetIsOwn`. Two of them carry the condition under which the code keeps
them: a chunk whose text occurs once (usage is recorded by text), and a run not hurt by
a crash or a store error (nothing repairs a reservation that was left behind).

Of the learner's tab: `SessionIsSaved` relates the play screen to storage at one moment:
storage holds the answers, position, seconds and flags shown; it is empty instead only when
an attempt of the same mode was stored and a push is under way. That attempt may be an
older session's, whose handler clears by mode; the property admits that loss and bounds it.
`WorkIsKept` relates a step to the one before: an answer in storage stays as it was given,
unless its question is answered again or one of four things takes the draft: the button
that begins anew, the start link or a reload without `resume`, and the heard answer to a
stored submission of the mode. The middle two contradict what the start screen says (see
Observations); they are named so that nothing else may do the same.
`WaitsAreAwaited` is about the feedback of questions and the upload workspace, where a wait
and the call that ends it are kept apart; it names the one wait of the code that nothing
ends. On the library, document and processing screens a wait is the call, and the property
does not speak of them. `EstimateIsOfChoice` must hold although answers to cancelled calls
arrive. Further `OneSubmissionAtATime`, `FeedbackIsCurrent`,
`WorkIsOrderedOnce` (as many processing events as confirms from UPLOADED or after a
failure), `ScreenFollowsDocument` (the processing screen stops at a final status, and shows
another than the document's only for a reason it shows, or when a confirm from elsewhere
came after a failure) and, for the fixture screens, `MockScreensAgree`.

Of the rollout: `PendingIsCurrent`, `ServingIsMigrated`, `ReleaseIsProven` (release files name
images that passed a health wait, or those that a script, killed or unable to undo its work,
left there for the services it had selected; containers are those of the release but where such
a script left one behind) and, under fairness, `ServicesComeUp`. Of the processes:
`ServedIsCurrent` (no change of the TLS files is lost in debounce, read or remembered reload)
and, under fairness, `StopEnds` (an orderly shutdown ends with nothing left that would start a
cycle). What `Configuration` demands are guards of the bootstrap, about which there is no
property. Of the content: `ChunksCoverText`, `SplittingAdvances`, `ResultsBecomeSoundQuizzes`,
`GradedAttemptsReadBack`.

The type invariants `QueueTypeOK`, `TypeOK` and `GenerationTypeOK` are no property of a run:
theorems show them.

### Fairness

`pipeline_settles` assumes weak fairness of the relay's steps, of each loop's
steps and of time, nothing else. The relay re-arms its timer after every cycle,
also after a failed one (`worker-runner.service.ts:63-68`); the loop runs on a
ticker and goes on after an error (`consumer.go:56-73`); Kubernetes restarts a
process that dies; leases and retry delays end by themselves. No fault, no
confirm and no request is fair. The relay's steps share one weak fairness
condition because they are one sequential process.

`rollout` assumes weak fairness of each migration run, of each service's bootstrap and
restart (`restart: unless-stopped`), and of the server's discovery that a client is
gone; and strong fairness of taking the free advisory lock, because a Node runner only
polls for it and may find it taken again and again. That is justified: whoever holds it
releases it after a bounded list of files, PostgreSQL queues the Go runner, and Docker
delays the restarts of a failing container, so the lock is not taken in lockstep. The
script, faults and operators are not fair.

The same run assumes weak fairness of a cycle of the Node worker (a pump ends, by success or by
failure), of the health server's close timeout and of the exit once both
hooks have returned. That a pump ends is an assumption about the database, that it answers
or its connection breaks: the code configures no time limit of the driver
(`typeorm-config.service.ts:22-37`), and a shutdown waits for the pump as long as it takes.
Clients, signals and projections owe nothing.

## Findings

1. **A second dead letter never commits** (`queue_dlq`). `finalizeWithDLQ` inserts
   into a table with UNIQUE `job_id` and no conflict clause. After one dead letter
   and an owner retry, the next exhaustion aborts, the job stays RUNNING and is
   claimed again at every expiry, and its document stays PROCESSING.
2. **A replayed confirm runs the document twice** (`duplicate_forward`). If the relay
   dies between enqueue and mark and the job fails before the replay, the replay
   re-arms it.
3. **An old answer fails a new attempt** (`stale_answer`). A FAILED result projected
   but not marked is projected again after the owner's next confirm: result rows name
   no attempt and the projection compares only the status.
4. **A confirm with no attempt** (`confirmed_into_void`). After rejected questions
   the document is FAILED and the job COMPLETED; confirming again re-arms nothing.
5. **Text that cannot be stored** (`split_characters`). Go's `ChunkText` cuts at byte
   offsets. A chunk that begins or ends inside a character of several bytes is refused
   by PostgreSQL; the failure counts as technical, meets the same text three more times
   and ends the document as PROCESSING_FAILED, for which no retry is offered.

`PROJECT.json` quotes the documents each of them contradicts.

### Observations

Met while modelling; no run is about them.

- Quiz drafts: `quiz-start-screen.tsx:189` says that unfinished work is kept until it is
  submitted. The start link beside it opens the quiz without `resume`, whose first write puts
  an empty draft over the kept one (`use-quiz-session.ts:29`, `:75`), and so does a reload of
  that address. And the handler of a submission from an earlier session clears the draft of its
  mode when it is answered, also if a newer session has written it since
  (`quiz-play-screen.tsx:168`). `WorkIsKept` names these steps as its exceptions.
- A submission whose answer is lost, or a second one while the result page loads, stores
  another attempt. Options stay selectable while the answers are being submitted.
- After a duplicate forward (finding 2) both results may wait in one batch: FAILED is projected,
  the quiz of READY is then stored, and its projection finds FAILED and changes nothing. The
  document is FAILED with a quiz, and its next confirm meets a COMPLETED job, as in finding 4;
  this is why the last part of `VoidFollowsCompletion` asks for a relay without faults.
- Uploads: a rejected file while a model is chosen leaves "estimating" on
  with no call under way, until another choice (`upload-workspace.tsx:121-128`; the exception of
  `WaitsAreAwaited`); an earlier upload's push takes the learner off whatever
  page is open, and its confirm, ending while an attempt's result is about to open, replaces
  that push, so the result page is not shown; a document whose confirm failed has no way to be confirmed again once the
  page is left; a late confirm of an overlapping upload re-arms a FAILED document, its
  code unasked.
- `findQuiz` answers 409 while there is no quiz, `document-detail.tsx:102` expects 404.
- The verifier checks UTF-8 on the first 4096 bytes, so a character across that limit
  makes a valid text refused (`object-storage-verifier.ts:44`). The upload DTO allows
  1 GB, extraction 20 MB.
- Go: one invalid answer fails the document, where PRD FR4 drops the question; `finish_reason`
  `max_tokens` and a truncated `responses` answer are not recognised as truncated; a TEXT
  locator counts from the trimmed text; copied English sequences are not looked for. Normal
  forms differ (U+FEFF), so a question Go accepts may be dropped by the aggregate.
- Node: a chunk shorter than the overlap is followed by chunks that are its suffixes, each
  a model call; any storage error counts as EXTRACTION_OBJECT_NOT_FOUND.
- Credits are reserved in `generate`; PRD and ADR-0022 promise it at confirm. A crash between
  reserve and settle leaves the reservation for good.
- `PROVIDER_INCOMPATIBLE` is unknown to Node; it is safe only because Go returns it in the
  startup preflight alone.
- TLS: files swapped during the very first read, before `watch`, are served only after the
  next change. A read that fails although nothing changed waits for the next change too.
- Worker: when the health port is taken the process sets exit code 1 but its runner's timer
  keeps it alive, without health. SIGTERM before `enableShutdownHooks` drains nothing.
- Go's claim takes the oldest claimable row first (`postgres.go:34`): an old job that expires
  again and again holds back younger ones for as long as it does.
- Deployment: a rollback does not revert migrations; a script killed after the `mv`, or whose
  rollback cannot copy the file back, leaves a failed candidate as the release (`deploy.sh:132`);
  a copy cut short there leaves a file that every later deployment refuses; without a previous
  release, containers that `compose rm` could not remove go on running without a release file
  (`deploy.sh:140`); a successful deploy leaves its `.release.rollback.*` file,
  because the EXIT trap names variables local to `main`. The migration runners sort file
  names differently (`localeCompare` numeric, `sort.Strings`), which equal-length timestamps hide.
- Mock screens: the exam's clock does nothing at 0 and its answers do not reach the result page;
  the tutor keeps citations of an earlier context on display; onboarding validates only its last
  step when it finishes; routes to the study plan and the video player have no page.

## Proofs

What is assumed is the named ASSUME of each module: `QueueAssumption`, `PipelineAssumption`,
`GenerationAssumption`, `QuizAssumption`, `DocumentAssumption`, `RunnersAreDistinct`,
`SessionNames`, `RolloutAssumption`, `ProcessAssumption`, `MockAssumption`. They say that bounds
are natural numbers, that documents and usage keys are finite sets (a claim takes the oldest
row, usage is summed), that names do not clash, and that each service which migrates is
deployed. Sets of loops, files, models, services, runners, clients and configurations are any
sets, and every bound may be arbitrarily large. Of the content: `SettingsAssumption` (what the
configuration accepts: a target up to the maximum, an overlap below it, limits above zero),
`InputsAssumption` and `ObjectsAssumption` (texts are sequences of storage units in which the
further unit of a character follows its first or another further one, so that a combining mark
after a space is not considered; a plain text has one page), `MatchAssumption` (the limits of a
copied sequence are above zero and the smaller one is within the larger) and `AnswersAssumption`
(questions, options and words of an answer have the types that both decoders check; what is in
them is free, and so is the set of answers).

### The queue

| Theorem | States |
| --- | --- |
| `QueueTypeCorrect`, `QueueFences` | `QueueSpec => []QueueTypeOK`, `QueueSpec => []AttemptFence` |
| `AtMostOneOutcome` | `[]OneOutcomePerAttempt` |
| `ReadyIsLast` | `[]ReadyIsFinal` |
| `ReadyKeepsItsChunks` | `[]ReadyChunksAreStored` |
| `DeadLettersAreAnswered` | `[]DeadLetterHasOutcome` |
| `OnlyTheClaimWrites` | `WritesUnderCurrentClaim` |
| `QueueImplementsJobOutcomes` | `ImplementsJobOutcomes` |
| `RearmedJobsAreDue` | `[]FreshArmIsDue` |
| `FailuresAreCounted` | `[]RetryBudgetBeforeDLQ` |

The argument. None of the properties of the result log is inductive: that a late
loop cannot publish depends on where every loop and the row stand. `AttemptFence`
is the missing part. A claim draws a number above every number drawn before, so
loops are never ahead of their row (`ClaimsArePast`) and never share a number
(`ClaimsAreDistinct`); a transaction that has locked a row still satisfies its fence
because claims skip locked rows (`CommitHoldsRow`); and a row whose current number
has been answered is settled (`OutcomesArePast`), so a loop that still passes the
fence, which needs RUNNING, has not answered. Together with the types it is
inductive (`Inv` in `ProcessingQueueProofs`). The type invariant cannot stand alone:
a loop's writes are typed only if a busy loop has a document.

`QueueOutcomeProofs` then sorts the steps (`StepKinds`): each either publishes
one result for a passing fence, or leaves log, chunks and dead letters alone
and keeps every job's phase or arms one. The properties of the log and the refinement
follow from that classification, without the actions being opened again.

Its second half needs two more strengthenings. A PENDING job is hidden only by a
retry delay (`HiddenHasRetried`): `enqueue` leaves `next_visible_at` alone, but it only
re-arms settled jobs, and those were visible when they were claimed. For the retry
budget, `RetryInv` compares the failures an arming has reported with
`technical_retry_count`: they agree up to the counted faults, with one more while a
loop stands between `retry` and `finalizeWithDLQ` under a live claim (`LastChance`).
Every step acts on the two in one of four ways (`Counts`). Attempt numbers are above
0 (`ClaimsCount`), so a dead letter leaves its mark in `dlq`, after
which the invariant claims nothing: from there the budget really breaks (run
`queue_dlq`). The step lemmas do not use the bound on armings that `Enqueue` has in the
queue alone, so the pipeline, whose relay enqueues at will, uses them as they are.

### The pipeline

| Theorem | States |
| --- | --- |
| `PipelineTypeCorrect` | `Spec => []TypeOK` |
| `PipelineKeepsFence` | `[](AttemptFence /\ Outcomes)`: the queue's fence and the properties of its log hold in the pipeline |
| `ReadyAnswersQuiz` | `[]ReadySeenHasQuiz` |
| `CitationsAreStored` | `[]QuizCitesStoredChunks` |
| `FirstConfirmIsAnswered` | `[]FirstConfirmIsUnderWay`: who confirmed once waits for something |
| `LoopsAnswerConfirmsOnly` | `[]LoopsAddNoOutcome` |
| `LatestConfirmIsAnswered` | `ReliableRelayAnswersLatestConfirm` |
| `PipelineImplementsLifecycle` | `ImplementsLifecycle` |
| `VoidHasOneCause` | `[]VoidFollowsCompletion` |

The inductive invariant is the queue's with what the seams between the tables keep: the
relay's position and batch fit the outboxes (`SeamsTyped`), every confirm is at one
place on its way and every answer at one on its way back (`Answering`), READY, seen or
stored, has a quiz (`ReadyHasQuiz`), and a quiz the COMPLETED result it came from
(`QuizHasResult`). A quiz then cites the stored chunks because READY is final in the queue.
A step of the pipeline is a queue step with the documents unchanged, an enqueue by the
relay, or one that leaves the queue alone.

The refinement of `DocumentLifecycle` needs the order of delivery on top (`InOrder`). That a
late FAILED result cannot fail a document that has its quiz is not a matter of the relay's
guards: it holds because a pump takes the oldest waiting rows (`BatchIsOldest`, from the
ranks of `Unpublished`), so when a READY result is persisted every earlier result of the
document is published; because nothing follows READY in the queue, no other result of the
document waits from then on (`QuizIsOfLast`); and because the branch the relay is in fits the
row it works on (`BranchFitsResult`), also when that row is delivered a second time.
That work starts for confirmed documents only needs `UploadedIsUnconfirmed`. Then a confirm
is `Ask`, an enqueue that arms and an answer of a loop are `Work`, a handoff that stores a
quiz is `MakeQuiz`, a projection that finds PROCESSING is `Deliver`, and every other step
stutters.

`VoidHasOneCause` says that finding 4 is the only way a document is left waiting: whatever
crashes, expires, is retried or delivered again, a document in PROCESSING has a confirm to
forward, open work or a result to project, unless its job is COMPLETED (`WaitsForWork`), and
without a relay fault a stored quiz belongs to a READY document or one still to be told
(`QuizIsDelivered`). Both are kept by steps that hand on what they take away: an enqueue
turns the row into open work or finds it done, an answer turns open work into a result,
a projection ends the waiting, and a relay fault puts back what was done and not marked.

### Credits

| Theorem | States |
| --- | --- |
| `GenerationTypeCorrect` | `Spec => []GenerationTypeOK` |
| `WalletStaysBalanced` | `[]WalletMatchesLedger` |
| `SettlementIsFinal` | `[]SettledUsageIsFinal` |
| `UncertainStaysHeld` | `[]UncertainIsHeld` |
| `EndedRunsSettle` | `[]EndedRunsAreSettled` |
| `CompletedReportsOwnBudget` | `[]CompletedBudgetIsOwn` |

`GenerationInv` has one part per attempt (`AttemptInv`), because a step of one attempt leaves
the records of the others alone: which calls may be under way where the run stands, which
entries its ledger has by then, and that the sum it read is that of its records. In it
lies the argument for bounded concurrency: the pool ends when no call is in flight, no call
starts afterwards, so what `summarizeUsage` reads is final. `WalletMatchesLedger` sums over
all attempts; that the sums move with the wallet when one attempt's entries change is
`WalletMoves`. It rests on lemmas about sums of a function over a finite set, which the
library does not have for the folds of the community modules; where they need induction it
is by a least counterexample (`LeastOf`, `FoldInduction`), the property being a set and not
an operator.

### Text, chunks, quizzes and attempts

| Theorem | States |
| --- | --- |
| `ChunksKeepText` | `Spec => []ChunksCoverText`: no ink lost, order, size, Node's boundaries and locators |
| `WalkAdvances` | `Spec => SplittingAdvances` |
| `PathInvariant` | `Spec => []PathInv`, on which the next two rest |
| `QuizzesAreSound` | `Spec => []ResultsBecomeSoundQuizzes` |
| `AttemptsReadBack` | `Spec => []GradedAttemptsReadBack` |

The first two are about texts of any length, any number of segments and all settings the
configuration accepts, and about documents that reach the chunker through confirm, read
and extraction, retries included. First come the operators: `Min` and `Max` of offsets
(`MinOf`, `MaxOf`, by a least counterexample), trimming (`Trimmed`, `TrimmedIsWhole`), the end
each chunker chooses (`NodeEnd`, `GoEnd`) and the step back, which never undoes the step
forward (`NextStartMoves`). A trimmed segment is a part of the segment cut at boundaries
(`PartOf`), so what holds in its offsets holds in the segment's. `ChunkInv` adds to the
property where the walk stands (`WalkTyped`: in Node always between two characters) and
`LastBegins`, without which order is not inductive: the walk may step back before the start
of the last chunk, but only over space, so that the next chunk begins no earlier.
`ContentInv` says that nothing is split before a text has been extracted, and
`ExtractedAreTexts` that what is extracted are texts again, which needs that the pages with
text can be counted off (`NthExists`).

The others follow a document from its pages to the attempt, with answers of any length. A
quiz is sound for reasons that lie far apart, and `PathInv` has one part for each
place on the way: pages that count have text (`PagesOK`); each candidate stands at its number
and names a chunk already done, whose locator it carries (`QuestionsOK`); an event reports a
status and a code that the relay knows, and READY without questions only for a stored quiz
(`EventOK`); a READY row has its quiz (`RowOK`); each stored question passed
`QuestionCreate`, under numbers without a gap and stems that differ (`StoredOK`); an
attempt is one at a stored quiz and reads back (`AttemptOK`). What the aggregate makes of a
list is `QuizCreated`: the candidates of an attempt are in order, so the sort leaves them
alone (`SortedIs`, `ListInOrder`), the loop's equation has a solution (`AcceptExists`), and
each turn keeps what a quiz is (`AcceptKeeps`), which a least counterexample carries over the
list. That no copy passes in Node is `CopiesAreFound`: a sequence that qualifies begins with a
shortest window that qualifies, and that window is in both sets. The locator of a page names the
n-th page with text, which exists (`PagesHaveText`).

### The learner's tab

| Theorem | States |
| --- | --- |
| `SessionStaysSaved` | `[]SessionIsSaved` |
| `KeptWorkStays` | `WorkIsKept` |
| `FeedbackStaysCurrent` | `[]FeedbackIsCurrent` |
| `OneSubmissionUnderWay` | `[]OneSubmissionAtATime` |
| `WaitsEnd` | `[]WaitsAreAwaited` |
| `EstimateFitsChoice` | `[]EstimateIsOfChoice` |
| `WorkStaysOrderedOnce` | `[]WorkIsOrderedOnce` |
| `ScreenStaysTrue` | `[]ScreenFollowsDocument` |
| `FixtureScreensAgree` | `[]MockScreensAgree` |

All are about `LearnerTab!Spec`, with every link between the screens, reloads included. `TabInv`
has three parts. Of the quiz (`QuizInv`): what is rendered and what the refs hold (`PlayInv`),
what the drafts hold of it (`StoreInv`), and that each submission under way belongs to an
earlier visit, or to this one and its button is disabled (`SubmissionInv`). Of the documents
(`DocumentInv`): each row has as many events as its history allows (`RowsInv`), each flow knows
only documents that exist (`FlowInv`), what the workspace shows as waiting has a flow or an
estimate under way (`UploadInv`), and what the processing screen last heard was true of the row
when it was sent, rows only moving on since (`WatchInv`). And a push under way has a reason
(`PushInv`). `SessionIsSaved` is what showed that an upload's late confirm may replace the push
of the result page: the proof of an earlier form failed there, and the property now names that
case. `KeptWorkStays` follows each action to the draft it writes: a screen writes what it shows
(`WorkWritten`), and what it shows of a kept answer is that answer (`KeptOnScreen`), so a write
leaves it alone unless the screen was begun without resuming or the option is new (`KeptStep`,
`WorkStep`). `WaitsEnd` rests on `Estimated`: while an estimate is shown as being computed there
is a call that is not cancelled, and it is for the choice, unless the screen is `Stranded` by a
rejected file.

The fixture screens have an invariant of their own (`MockInv`), with a part for each screen
that remembers something. Onboarding needs the longest: it validates only its last step when
it finishes, so that every earlier field is filled rests on each step having been left with
its field chosen, on no option of those steps being "none", and on the form staying at its last
step while a request runs (`OnboardingOK`). The exam's rounded percentage says 100 exactly
when nothing is unanswered because the page cuts an exam to ten questions
(`MockAssumption`, `practice/page.tsx:36`); from 200 questions on it would be false.

### Rollout and processes

| Theorem | States |
| --- | --- |
| `PendingStaysCurrent` | `[]PendingIsCurrent` |
| `ServingStaysMigrated` | `[]ServingIsMigrated` |
| `ReleaseStaysProven` | `[]ReleaseIsProven` |
| `ListenerIsCurrent` | `[]ServedIsCurrent` |
| `StoppedIsAtRest` | an exited or killed worker has no cycle, timer or connection, and stays so: the part of `StopEnds` that needs no fairness |

`RolloutInv` is `MigrationInv /\ RolloutTyped /\ ServingInv /\ ReleaseInv`. Mutual exclusion
comes first: a run past `lock` holds it (`RunInv`), an open transaction belongs to the holder
or to the session of a dead one (`TxIsHeld`), so what a run read as applied is still true
when it applies the next version and COMMIT leaves no gap. Then a serving container's run has
ended with every file of its image recorded, and versions are taken away only by an
operator's `down`, which `reverted` remembers. `ReleaseInv` follows `deploy.sh` step by step:
between runs every image in a file and every container is accounted for (`SettledOK`); while
a script runs so is its backup (`BackupOK`), the file is the backup
with the selected services replaced (`TryingOK`) or put back (`UndoOK`), and the containers
that are not yet the file's are those in `todo` or among `strays` (`InPlace`). So wherever the
script ends, what it leaves is named by the histories. The failures of the rollback's own
commands and the death of the script are steps of the proof like the others.

The TLS listener needs two facts that are about the future of a change: while the files
are newer than what is served, a notice, a debounce, a remembered reload or a read that
began after the change is under way (`ChangeIsOnItsWay`), and a read overtaken by a change
never counts as the last (`OvertakenReadIsNews`).

### Only model-checked

- Liveness: `ConfirmedDocumentsSettle`, `JobsSettle`, `ServicesComeUp`
  and the fair part of `StopEnds`. Fairness is stated with ENABLED, which the proof system
  does not reason about.
- The counterexamples under Findings.

No module uses RECURSIVE.

## Not modelled

- Static pages of the web (marketing, dashboards, analytics, teacher and admin views,
  billing overview, result and review pages on fixtures), fixture data, styling, and the
  formatting of dates, sizes and credits: they keep no state, and no step of the system
  depends on them. They are about half of the repository's lines.
- The parsing of environment variables to values, DTO validation and mapping profiles, modules'
  wiring, logging; the Go worker's own configuration.
- HTTP, JSON, PDF, S3 and cryptography, which enter as their outcomes. Ownership: every
  query is scoped by the owner, and the models have one.
- Model catalog and owner configuration: single statements. The lease authority answers
  every request in the negative at this commit, and certificates are checked by the TLS
  library; the message contract in `worker/internal/contract` has no caller.
- Ansible and Kubernetes manifests, `classify-changes.sh`, `observability-health.sh`,
  end-to-end and test scripts.
- Clocks. Two leases are never compared, only each with the present. That a young job
  is not starved by an old one that expires again and again rests on 15 minutes being
  longer than a poll, which the models do not express.
- Node's own claim, completion and retry statements beside the Go worker: no running
  process calls them. `QuizGeneration` models them on their own.

## Plan

Both specifications of what a neighbour may rely on, `JobOutcomes` and `DocumentLifecycle`,
are implemented by proof. What could follow: an abstract account behind the wallet and ledger
of `QuizGeneration`, and a clock in the queue, so that leases can be compared with polls.
