-------------------------- MODULE ProcessingQueue --------------------------
(***************************************************************************)
(* The durable work queue of the ai schema: the rows of ai.processing_jobs, *)
(* ai.outbox, ai.processing_job_dlq and ai.chunks, the enqueue statement   *)
(* the forward relay runs on them, and the Go worker loops that claim a    *)
(* row under a lease, process it and write its outcome under the attempt   *)
(* fence (worker/internal/processing/postgres.go and                       *)
(* worker/internal/consumer/consumer.go).                                  *)
(*                                                                         *)
(* One step of the model is one committed statement or transaction of the  *)
(* store, or one of the places where a loop may stop between two of them.  *)
(* Clocks are abstracted to what a WHERE clause can see of them: whether   *)
(* lease_until is still ahead of now() and whether next_visible_at is past.*)
(***************************************************************************)
EXTENDS Naturals, Sequences, FiniteSets

CONSTANTS
    Documents,    \* a job is named by its document: UNIQUE (document_id, job_type)
    Workers,      \* processing loops; a loop that outlived its lease is one of them
    NoDocument,   \* the document of a loop that holds no claim
    MaxRetries,   \* number of entries of `delays` in Retry
    MaxArms,      \* bound: how often one document is enqueued
    MaxMishaps,   \* bound: crashes, store errors, leases that expire under a loop
    MaxAttempts   \* bound: value of ai.processing_jobs.attempts

ASSUME QueueAssumption ==
    /\ IsFiniteSet(Documents)
    /\ NoDocument \notin Documents
    /\ MaxRetries \in Nat
    /\ MaxArms \in Nat
    /\ MaxMishaps \in Nat
    /\ MaxAttempts \in Nat

VARIABLES
    jobs,       \* ai.processing_jobs, by document
    worker,     \* the local variables of each processing loop
    aiOutbox,   \* ai.outbox in created_at order
    dlq,        \* ai.processing_job_dlq: last_attempt of the row, 0 when there is none
    chunks,     \* ai.chunks: the attempt whose chunks are stored, 0 when there are none
    arms,       \* history: how often the job was armed (inserted or re-armed)
    reported,   \* history: technical failures Retry accepted since the last arming
    mishaps     \* faults spent, bounded by MaxMishaps

queueVars == <<jobs, worker, aiOutbox, dlq, chunks, arms, reported, mishaps>>

(***************************************************************************)
(* Rows and local state                                                    *)
(***************************************************************************)

Status == {"ABSENT", "PENDING", "RUNNING", "COMPLETED", "FAILED"}

\* lease_id is a fresh UUID at every claim: it is named by the attempt that drew
\* it, and 0 is NULL. createdAt is the row's rank in created_at order.
JobRow == [status: Status, attempts: Nat, retries: Nat, lease: Nat,
           leaseLive: BOOLEAN, visible: BOOLEAN, createdAt: Nat]

\* A DocumentProcessingResult row. `attempt` is history: the payload names the
\* document and the outcome, not the attempt. `questions` tells whether enough
\* of a READY payload's questions pass the quiz aggregate's validation.
Event == [doc: Documents, attempt: Nat, status: {"READY", "FAILED"},
          questions: {"Valid", "Rejected", "None"}]

Failure == {"None", "Final", "Technical"}

LoopState == [pc: {"idle", "claimed", "processing", "persisting", "committing",
                   "failing", "exhausted"},
              doc: Documents \cup {NoDocument}, attempt: Nat, lease: Nat,
              failure: Failure]

Idle == [pc |-> "idle", doc |-> NoDocument, attempt |-> 0, lease |-> 0,
         failure |-> "None"]

NoRow == [status |-> "ABSENT", attempts |-> 0, retries |-> 0, lease |-> 0,
          leaseLive |-> FALSE, visible |-> FALSE, createdAt |-> 0]

QueueInit ==
    /\ jobs = [d \in Documents |-> NoRow]
    /\ worker = [w \in Workers |-> Idle]
    /\ aiOutbox = <<>>
    /\ dlq = [d \in Documents |-> 0]
    /\ chunks = [d \in Documents |-> 0]
    /\ arms = [d \in Documents |-> 0]
    /\ reported = [d \in Documents |-> 0]
    /\ mishaps = 0

\* Loop w holds the lock of its job's row: its transaction updated it and has
\* not ended. Every other writer of the row waits; SKIP LOCKED skips it.
RowLocked(d) == \E w \in Workers : worker[w].pc = "committing" /\ worker[w].doc = d

\* MUTANT: the fence compares neither the attempt nor the lease.
FencedByStatus(w) == jobs[worker[w].doc].status = "RUNNING"

\* WHERE id AND attempts AND lease_id AND status='RUNNING'
Fenced(w) ==
    LET job == jobs[worker[w].doc] IN
    /\ job.status = "RUNNING"
    /\ job.attempts = worker[w].attempt
    /\ job.lease = worker[w].lease

\* ... AND lease_until>now()
FencedLive(w) == Fenced(w) /\ jobs[worker[w].doc].leaseLive

Goto(w, pc) == worker' = [worker EXCEPT ![w].pc = pc]
Release(w) == worker' = [worker EXCEPT ![w] = Idle]

Mishap == mishaps < MaxMishaps /\ mishaps' = mishaps + 1

(***************************************************************************)
(* Enqueue: INSERT ... ON CONFLICT DO UPDATE ... WHERE status = 'FAILED'    *)
(***************************************************************************)

InsertJob(d) ==
    /\ jobs[d].status = "ABSENT"
    /\ jobs' = [jobs EXCEPT ![d] =
                  [NoRow EXCEPT !.status = "PENDING", !.visible = TRUE,
                     !.createdAt =
                        Cardinality({e \in Documents : jobs[e].status # "ABSENT"}) + 1]]
    /\ arms' = [arms EXCEPT ![d] = @ + 1]
    /\ UNCHANGED reported

\* MUTANT: ON CONFLICT ... WHERE status IN ('FAILED','COMPLETED').
RearmAnySettled(d) ==
    /\ jobs[d].status \in {"FAILED", "COMPLETED"}
    /\ jobs' = [jobs EXCEPT ![d].status = "PENDING",
                            ![d].attempts = @ + 1,
                            ![d].retries = 0]
    /\ arms' = [arms EXCEPT ![d] = @ + 1]
    /\ reported' = [reported EXCEPT ![d] = 0]

\* The conflicting row is FAILED: a new attempt number fences the old one off.
RearmJob(d) ==
    /\ jobs[d].status = "FAILED"
    /\ jobs' = [jobs EXCEPT ![d].status = "PENDING",
                            ![d].attempts = @ + 1,
                            ![d].retries = 0]
    /\ arms' = [arms EXCEPT ![d] = @ + 1]
    /\ reported' = [reported EXCEPT ![d] = 0]

\* The conflicting row is in any other status: the statement changes nothing.
IgnoreJob(d) ==
    /\ jobs[d].status \in {"PENDING", "RUNNING", "COMPLETED"}
    /\ UNCHANGED <<jobs, arms, reported>>

Enqueue(d) ==
    /\ ~RowLocked(d)
    /\ InsertJob(d) \/ RearmJob(d) \/ IgnoreJob(d)
    /\ UNCHANGED <<worker, aiOutbox, dlq, chunks, mishaps>>

(***************************************************************************)
(* Claim: the oldest claimable row nobody has locked                       *)
(***************************************************************************)

\* MUTANT: a PENDING row is claimed before next_visible_at.
ClaimableEarly(d) ==
    /\ ~RowLocked(d)
    /\ jobs[d].attempts < MaxAttempts
    /\ \/ jobs[d].status = "PENDING"
       \/ jobs[d].status = "RUNNING" /\ ~jobs[d].leaseLive

\* MUTANT: an expired lease does not make its row claimable again.
ClaimablePending(d) ==
    /\ ~RowLocked(d)
    /\ jobs[d].attempts < MaxAttempts
    /\ jobs[d].status = "PENDING" /\ jobs[d].visible

\* MUTANT: the scan disregards the lock of a transaction that has not ended.
ClaimableLocked(d) ==
    /\ jobs[d].attempts < MaxAttempts
    /\ \/ jobs[d].status = "PENDING" /\ jobs[d].visible
       \/ jobs[d].status = "RUNNING" /\ ~jobs[d].leaseLive

Claimable(d) ==
    /\ ~RowLocked(d)
    /\ jobs[d].attempts < MaxAttempts
    /\ \/ jobs[d].status = "PENDING" /\ jobs[d].visible
       \/ jobs[d].status = "RUNNING" /\ ~jobs[d].leaseLive

Claim(w) ==
    /\ worker[w].pc = "idle"
    /\ \E d \in Documents :
        /\ Claimable(d)
        /\ \A e \in Documents : Claimable(e) => jobs[d].createdAt <= jobs[e].createdAt
        /\ LET attempt == jobs[d].attempts + 1 IN
           /\ jobs' = [jobs EXCEPT ![d].status = "RUNNING",
                                   ![d].attempts = attempt,
                                   ![d].lease = attempt,
                                   ![d].leaseLive = TRUE]
           /\ worker' = [worker EXCEPT ![w] =
                           [pc |-> "claimed", doc |-> d, attempt |-> attempt,
                            lease |-> attempt, failure |-> "None"]]
    /\ UNCHANGED <<aiOutbox, dlq, chunks, arms, reported, mishaps>>

(***************************************************************************)
(* The body of processOne between the claim and the first fenced write     *)
(***************************************************************************)

\* Source found the document PROCESSING.
SourceFound(w) ==
    /\ worker[w].pc = "claimed"
    /\ Goto(w, "processing")
    /\ UNCHANGED <<jobs, aiOutbox, dlq, chunks, arms, reported, mishaps>>

\* Source found no PROCESSING document: ObjectNotFound, a final failure.
SourceMissing(w) ==
    /\ worker[w].pc = "claimed"
    /\ worker' = [worker EXCEPT ![w].pc = "failing", ![w].failure = "Final"]
    /\ UNCHANGED <<jobs, aiOutbox, dlq, chunks, arms, reported, mishaps>>

\* Source, Read, Extract, ChunkText or Generate returned an error. A store
\* error of Source is technical; the later ones are of either class.
ProcessingFails(w) ==
    /\ \/ worker[w].pc = "claimed"
          /\ worker' = [worker EXCEPT ![w].pc = "failing", ![w].failure = "Technical"]
       \/ worker[w].pc = "processing"
          /\ \E failure \in {"Final", "Technical"} :
               worker' = [worker EXCEPT ![w].pc = "failing", ![w].failure = failure]
    /\ UNCHANGED <<jobs, aiOutbox, dlq, chunks, arms, reported, mishaps>>

(***************************************************************************)
(* PersistAndComplete, one transaction in three steps                      *)
(***************************************************************************)

\* SELECT EXISTS(... fence ...). now() is the start of the transaction, so the
\* lease is compared once, here; without the row the loop gives up silently.
BeginPersist(w) ==
    /\ worker[w].pc = "processing"
    /\ IF FencedLive(w) THEN Goto(w, "persisting") ELSE Release(w)
    /\ UNCHANGED <<jobs, aiOutbox, dlq, chunks, arms, reported, mishaps>>

\* MUTANT: the chunks are replaced in a transaction of their own.
LockRowKeepingChunks(w) ==
    /\ worker[w].pc = "persisting"
    /\ ~RowLocked(worker[w].doc)
    /\ chunks' = [chunks EXCEPT ![worker[w].doc] = worker[w].attempt]
    /\ IF Fenced(w) THEN Goto(w, "committing") ELSE Release(w)
    /\ UNCHANGED <<jobs, aiOutbox, dlq, arms, reported, mishaps>>

\* The fenced UPDATE takes the row's lock, or finds that another claim came
\* first: then the deferred Rollback also undoes the chunks just replaced.
LockRow(w) ==
    /\ worker[w].pc = "persisting"
    /\ ~RowLocked(worker[w].doc)
    /\ IF Fenced(w) THEN Goto(w, "committing") ELSE Release(w)
    /\ UNCHANGED <<jobs, aiOutbox, dlq, chunks, arms, reported, mishaps>>

\* Append a result row.
Publish(w, status, questions) ==
    aiOutbox' = Append(aiOutbox, [doc |-> worker[w].doc, attempt |-> worker[w].attempt,
                                  status |-> status, questions |-> questions])

\* status=..., lease_id=NULL, lease_until=NULL, completed_at=now()
Settle(d, status) ==
    jobs' = [jobs EXCEPT ![d].status = status, ![d].lease = 0, ![d].leaseLive = FALSE]

\* MUTANT: the commit's answer is lost and the end of the transaction is sent again.
CommitPersistAgain(w) ==
    LET d == worker[w].doc IN
    /\ worker[w].pc = "committing"
    /\ Settle(d, "COMPLETED")
    /\ chunks' = [chunks EXCEPT ![d] = worker[w].attempt]
    /\ \E questions \in {"Valid", "Rejected"} : Publish(w, "READY", questions)
    /\ \/ Release(w) /\ UNCHANGED mishaps
       \/ Mishap /\ UNCHANGED worker
    /\ UNCHANGED <<dlq, arms, reported>>

\* COMMIT: job row, chunks and result row together.
CommitPersist(w) ==
    LET d == worker[w].doc IN
    /\ worker[w].pc = "committing"
    /\ Settle(d, "COMPLETED")
    /\ chunks' = [chunks EXCEPT ![d] = worker[w].attempt]
    /\ \E questions \in {"Valid", "Rejected"} : Publish(w, "READY", questions)
    /\ Release(w)
    /\ UNCHANGED <<dlq, arms, reported, mishaps>>

\* A statement of the transaction fails: it rolls back and finish() reports a
\* technical failure.
PersistError(w) ==
    /\ worker[w].pc \in {"persisting", "committing"}
    /\ Mishap
    /\ worker' = [worker EXCEPT ![w].pc = "failing", ![w].failure = "Technical"]
    /\ UNCHANGED <<jobs, aiOutbox, dlq, chunks, arms, reported>>

(***************************************************************************)
(* finish: Fail, Retry and finalizeWithDLQ                                 *)
(***************************************************************************)

\* A final failure settles the job; zero rows updated changes nothing.
Fail(w) ==
    LET d == worker[w].doc IN
    /\ worker[w].pc = "failing" /\ worker[w].failure = "Final"
    /\ ~RowLocked(d)
    /\ IF FencedLive(w)
       THEN Settle(d, "FAILED") /\ Publish(w, "FAILED", "None")
       ELSE UNCHANGED <<jobs, aiOutbox>>
    /\ Release(w)
    /\ UNCHANGED <<dlq, chunks, arms, reported, mishaps>>

\* MUTANT: the retry count is not compared with len(delays).
ScheduleRetryForever(w) ==
    LET d == worker[w].doc IN
    /\ FencedLive(w)
    /\ jobs' = [jobs EXCEPT ![d].status = "PENDING", ![d].retries = @ + 1,
                            ![d].lease = 0, ![d].leaseLive = FALSE, ![d].visible = FALSE]
    /\ reported' = [reported EXCEPT ![d] = @ + 1]
    /\ Release(w)

\* A technical failure with retries left: PENDING again after a delay.
ScheduleRetry(w) ==
    LET d == worker[w].doc IN
    /\ FencedLive(w)
    /\ jobs[d].retries < MaxRetries
    /\ jobs' = [jobs EXCEPT ![d].status = "PENDING", ![d].retries = @ + 1,
                            ![d].lease = 0, ![d].leaseLive = FALSE, ![d].visible = FALSE]
    /\ reported' = [reported EXCEPT ![d] = @ + 1]
    /\ Release(w)

\* No retry left: the transaction is rolled back, finalizeWithDLQ follows in
\* one of its own.
ExhaustRetries(w) ==
    LET d == worker[w].doc IN
    /\ FencedLive(w)
    /\ jobs[d].retries >= MaxRetries
    /\ reported' = [reported EXCEPT ![d] = @ + 1]
    /\ Goto(w, "exhausted")
    /\ UNCHANGED jobs

RetryLosesFence(w) == ~FencedLive(w) /\ Release(w) /\ UNCHANGED <<jobs, reported>>

Retry(w) ==
    /\ worker[w].pc = "failing" /\ worker[w].failure = "Technical"
    /\ ~RowLocked(worker[w].doc)
    /\ ScheduleRetry(w) \/ ExhaustRetries(w) \/ RetryLosesFence(w)
    /\ UNCHANGED <<aiOutbox, dlq, chunks, arms, mishaps>>

\* MUTANT: the DLQ row is inserted before the fenced UPDATE is known to match.
DeadLetterUnfenced(w) ==
    LET d == worker[w].doc IN
    /\ worker[w].pc = "exhausted"
    /\ ~RowLocked(d)
    /\ IF dlq[d] = 0 THEN dlq' = [dlq EXCEPT ![d] = worker[w].attempt] ELSE UNCHANGED dlq
    /\ IF FencedLive(w) /\ dlq[d] = 0
       THEN Settle(d, "FAILED") /\ Publish(w, "FAILED", "None")
       ELSE UNCHANGED <<jobs, aiOutbox>>
    /\ Release(w)
    /\ UNCHANGED <<chunks, arms, reported, mishaps>>

\* Fenced UPDATE to FAILED, INSERT into the DLQ, INSERT of the result row. The
\* DLQ's job_id is UNIQUE and the INSERT names no conflict clause: a job that
\* already has a row makes the whole transaction fail.
DeadLetter(w) ==
    LET d == worker[w].doc IN
    /\ worker[w].pc = "exhausted"
    /\ ~RowLocked(d)
    /\ IF FencedLive(w) /\ dlq[d] = 0
       THEN /\ Settle(d, "FAILED")
            /\ dlq' = [dlq EXCEPT ![d] = worker[w].attempt]
            /\ Publish(w, "FAILED", "None")
       ELSE UNCHANGED <<jobs, dlq, aiOutbox>>
    /\ Release(w)
    /\ UNCHANGED <<chunks, arms, reported, mishaps>>

(***************************************************************************)
(* Time and faults                                                         *)
(***************************************************************************)

\* Some loop still works under the lease of d's job.
Attended(d) == \E w \in Workers : worker[w].pc # "idle" /\ worker[w].doc = d /\ Fenced(w)

\* The 15 minutes of a lease whose holder is gone run out.
LeaseRunsOut(d) ==
    /\ jobs[d].status = "RUNNING" /\ jobs[d].leaseLive
    /\ ~Attended(d)
    /\ jobs' = [jobs EXCEPT ![d].leaseLive = FALSE]
    /\ UNCHANGED <<worker, aiOutbox, dlq, chunks, arms, reported, mishaps>>

\* They run out while the holder is still at work.
LeaseOutrun(d) ==
    /\ jobs[d].status = "RUNNING" /\ jobs[d].leaseLive
    /\ Attended(d)
    /\ Mishap
    /\ jobs' = [jobs EXCEPT ![d].leaseLive = FALSE]
    /\ UNCHANGED <<worker, aiOutbox, dlq, chunks, arms, reported>>

\* The retry delay of a PENDING row is over.
RetryDue(d) ==
    /\ jobs[d].status = "PENDING" /\ ~jobs[d].visible
    /\ jobs' = [jobs EXCEPT ![d].visible = TRUE]
    /\ UNCHANGED <<worker, aiOutbox, dlq, chunks, arms, reported, mishaps>>

\* StuckJobDetector.requeueExpiredLeases, one row of its batch: the Node runner
\* of the legacy-processing mode hands an expired claim back without a new
\* attempt number. Locked rows are skipped.
RequeueExpired(d) ==
    /\ jobs[d].status = "RUNNING" /\ ~jobs[d].leaseLive
    /\ ~RowLocked(d)
    /\ jobs' = [jobs EXCEPT ![d].status = "PENDING", ![d].lease = 0, ![d].visible = TRUE]
    /\ UNCHANGED <<worker, aiOutbox, dlq, chunks, arms, reported, mishaps>>

\* The process dies and restarts, or a transaction of the loop fails (or a
\* commit is lost) after which the loop forgets the job: open transactions roll
\* back. A commit that took effect without its answer is the step itself.
Crash(w) ==
    /\ worker[w].pc # "idle"
    /\ Mishap
    /\ Release(w)
    /\ UNCHANGED <<jobs, aiOutbox, dlq, chunks, arms, reported>>

(***************************************************************************)
(* Specification                                                           *)
(***************************************************************************)

\* What a loop does after the claim, whatever the document's status.
LoopStep(w) ==
    \/ ProcessingFails(w) \/ BeginPersist(w) \/ LockRow(w) \/ CommitPersist(w)
    \/ Fail(w) \/ Retry(w) \/ DeadLetter(w)

Fault(w) == PersistError(w) \/ Crash(w)

Passage(d) == LeaseRunsOut(d) \/ RetryDue(d)

\* Alone, the queue is fed by any caller and finds its documents in any status.
QueueNext ==
    \/ \E d \in Documents : arms[d] < MaxArms /\ Enqueue(d)
    \/ \E w \in Workers : Claim(w) \/ SourceFound(w) \/ SourceMissing(w)
    \/ \E w \in Workers : LoopStep(w) \/ Fault(w)
    \/ \E d \in Documents : Passage(d) \/ LeaseOutrun(d) \/ RequeueExpired(d)

QueueSpec == QueueInit /\ [][QueueNext]_queueVars

\* A deployed loop keeps stepping (a crashed one is restarted by its
\* Deployment), and time passes. Nothing makes a fault or an enqueue happen.
QueueFairness ==
    /\ \A w \in Workers : WF_queueVars(Claim(w) \/ SourceFound(w) \/ SourceMissing(w)
                                       \/ LoopStep(w))
    /\ \A d \in Documents : WF_queueVars(Passage(d))

FairQueueSpec == QueueSpec /\ QueueFairness

(***************************************************************************)
(* Properties                                                              *)
(***************************************************************************)

\* Every row and every loop has the shape its table or struct gives it.
QueueTypeOK ==
    /\ jobs \in [Documents -> JobRow]
    /\ worker \in [Workers -> LoopState]
    /\ aiOutbox \in Seq(Event)
    /\ dlq \in [Documents -> Nat]
    /\ chunks \in [Documents -> Nat]
    /\ arms \in [Documents -> Nat]
    /\ reported \in [Documents -> Nat]
    /\ mishaps \in Nat

\* A claim answers at most once: however many loops hold copies of a job, and
\* wherever each of them stops, no two result rows stem from the same attempt.
OneOutcomePerAttempt ==
    \A i, k \in DOMAIN aiOutbox :
        aiOutbox[i].doc = aiOutbox[k].doc /\ aiOutbox[i].attempt = aiOutbox[k].attempt
            => i = k

\* A loop that is not idle works on a document's job.
BusyLoopsHaveDocuments ==
    \A w \in Workers : worker[w].pc # "idle" => worker[w].doc \in Documents

\* A row that does not exist has no attempts behind it.
AbsentIsFresh ==
    \A d \in Documents : jobs[d].status = "ABSENT" => jobs[d].attempts = 0

\* The attempt number only grows: no loop is ahead of its job's row, ...
ClaimsArePast ==
    \A w \in Workers :
        worker[w].pc # "idle" => worker[w].attempt <= jobs[worker[w].doc].attempts

\* ... no two loops hold the same attempt of one job, ...
ClaimsAreDistinct ==
    \A v, w \in Workers :
        /\ worker[v].pc # "idle" /\ worker[w].pc # "idle"
        /\ worker[v].doc = worker[w].doc /\ worker[v].attempt = worker[w].attempt
        => v = w

\* ... the row a transaction has locked still carries its fence, ...
CommitHoldsRow ==
    \A w \in Workers : worker[w].pc = "committing" => Fenced(w)

\* ... and the row has left the attempt of every published result behind or is
\* settled.
OutcomesArePast ==
    \A i \in DOMAIN aiOutbox :
        LET event == aiOutbox[i] job == jobs[event.doc] IN
        /\ event.attempt <= job.attempts
        /\ event.attempt = job.attempts => job.status \in {"COMPLETED", "FAILED"}

\* What makes the attempt number a fence: the invariant behind the properties
\* of the result log below, through every crash, expiry and re-arming.
AttemptFence ==
    /\ BusyLoopsHaveDocuments
    /\ AbsentIsFresh
    /\ ClaimsArePast
    /\ ClaimsAreDistinct
    /\ CommitHoldsRow
    /\ OutcomesArePast

\* A READY result is the last word on its document: the job stays COMPLETED and
\* no later result row exists, whatever late loop or repeated enqueue follows.
ReadyIsFinal ==
    \A i \in DOMAIN aiOutbox :
        aiOutbox[i].status = "READY" =>
            /\ jobs[aiOutbox[i].doc].status = "COMPLETED"
            /\ \A k \in DOMAIN aiOutbox : k > i => aiOutbox[k].doc # aiOutbox[i].doc

\* The chunks in ai.chunks are those the READY result's questions cite: no late
\* loop replaces the chunks of a finished attempt by its own.
ReadyChunksAreStored ==
    \A i \in DOMAIN aiOutbox :
        aiOutbox[i].status = "READY" => chunks[aiOutbox[i].doc] = aiOutbox[i].attempt

\* A job is in the DLQ only together with the FAILED result of the attempt the
\* DLQ row names as its last.
DeadLetterHasOutcome ==
    \A d \in Documents :
        dlq[d] # 0 => \E i \in DOMAIN aiOutbox :
                        /\ aiOutbox[i].doc = d
                        /\ aiOutbox[i].attempt = dlq[d]
                        /\ aiOutbox[i].status = "FAILED"

\* enqueue does not touch next_visible_at when it re-arms a job, and need not: a
\* job with all its retries ahead of it is due at once.
FreshArmIsDue ==
    \A d \in Documents :
        jobs[d].status = "PENDING" /\ jobs[d].retries = 0 => jobs[d].visible

\* After MaxRetries retries the next technical failure of an arming is its last,
\* unless a fault kept the queue from recording it.
RetryBudget ==
    \A d \in Documents : reported[d] <= MaxRetries + 1 + mishaps

\* The same for every job that has not been in the DLQ before.
RetryBudgetBeforeDLQ ==
    \A d \in Documents : dlq[d] = 0 => reported[d] <= MaxRetries + 1 + mishaps

\* A step of a loop that has a job, and whether its claim is the one its row
\* names.
Works(w) == worker[w].pc # "idle" /\ worker'[w] # worker[w]
ClaimIsCurrent(w) ==
    /\ jobs[worker[w].doc].status = "RUNNING"
    /\ jobs[worker[w].doc].attempts = worker[w].attempt

\* What processing leaves behind: an outcome or a retry in d's row, chunks, a DLQ
\* row, a result in the log.
Recorded(d) ==
    \/ jobs'[d].status # jobs[d].status /\ jobs'[d].status \in {"COMPLETED", "FAILED"}
    \/ jobs'[d].retries > jobs[d].retries
    \/ chunks'[d] # chunks[d] \/ dlq'[d] # dlq[d]
    \/ aiOutbox' # aiOutbox /\ aiOutbox'[Len(aiOutbox')].doc = d

\* A loop whose claim is no longer the row's current one, because of another
\* claim, an outcome or a hand-back since, changes nothing any more with what it
\* still does: no row, no chunks, no dead letter, no result.  And nothing of the
\* kind is recorded by anybody but a loop under the current claim of that very
\* document.
WritesUnderCurrentClaim ==
    [][/\ \A w \in Workers :
              Works(w) /\ ~ClaimIsCurrent(w) => UNCHANGED <<jobs, chunks, dlq, aiOutbox>>
       /\ \A d \in Documents :
              Recorded(d) =>
                  \E w \in Workers : Works(w) /\ ClaimIsCurrent(w) /\ worker[w].doc = d]_queueVars

\* A job that is waiting or running is eventually COMPLETED or FAILED, through
\* any bounded number of crashes, lost commits and outrun leases.  The promise
\* ends with the job's first DLQ row, which the next exhaustion runs into.
JobsSettle ==
    \A d \in Documents :
        (jobs[d].status \in {"PENDING", "RUNNING"})
            ~> (jobs[d].status \in {"COMPLETED", "FAILED"} \/ dlq[d] # 0)

(***************************************************************************)
(* Refinement                                                              *)
(***************************************************************************)

\* The phase a job row stands for.
PhaseOf(d) ==
    CASE jobs[d].status = "ABSENT" -> "none"
      [] jobs[d].status \in {"PENDING", "RUNNING"} -> "open"
      [] jobs[d].status = "COMPLETED" -> "READY"
      [] jobs[d].status = "FAILED" -> "FAILED"

Promise == INSTANCE JobOutcomes WITH
    phase <- [d \in Documents |-> PhaseOf(d)],
    log <- [i \in DOMAIN aiOutbox |->
              [doc |-> aiOutbox[i].doc, outcome |-> aiOutbox[i].status]]

\* Leases, retries, crashes and the DLQ are invisible through the job's phase
\* and the log: the queue answers each arming at most once.
ImplementsJobOutcomes == Promise!AbstractSpec

=============================================================================
