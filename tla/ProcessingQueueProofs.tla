----------------------- MODULE ProcessingQueueProofs -----------------------
(***************************************************************************)
(* Theorems about ProcessingQueue, for any number of documents, loops,     *)
(* retries, armings and faults.                                            *)
(***************************************************************************)
EXTENDS ProcessingQueue, TLAPS, FiniteSetTheorems

\* The part of the invariant the types of a step rest on.
Typed == QueueTypeOK /\ BusyLoopsHaveDocuments

\* What happens to the queue without a caller.
LoopOrTime ==
    \/ \E d \in Documents : Passage(d) \/ LeaseOutrun(d) \/ RequeueExpired(d)
    \/ \E w \in Workers :
         Claim(w) \/ SourceFound(w) \/ SourceMissing(w) \/ LoopStep(w) \/ Fault(w)

\* A step of the queue, with no bound on how often a document is enqueued: what
\* the queue does alone and inside the pipeline.
QueueStep == LoopOrTime \/ \E d \in Documents : Enqueue(d)

\* The queue on its own takes these steps only.
LEMMA NextIsQueueStep == [QueueNext]_queueVars => [QueueStep]_queueVars
  BY DEF QueueNext, QueueStep, LoopOrTime

(***************************************************************************)
(* Type correctness                                                        *)
(***************************************************************************)

\* A row's rank in created_at order is a number: there are finitely many rows.
LEMMA RankIsNat ==
    Cardinality({e \in Documents : jobs[e].status # "ABSENT"}) + 1 \in Nat
  <1>1. IsFiniteSet({e \in Documents : jobs[e].status # "ABSENT"})
    BY FS_Subset, QueueAssumption, Zenon
  <1>2. QED
    BY <1>1, FS_CardinalityType

\* Settling a row keeps the table's columns.
LEMMA SettleKeepsType ==
    ASSUME jobs \in [Documents -> JobRow],
           NEW d \in Documents,
           NEW status \in Status,
           Settle(d, status)
    PROVE  jobs' \in [Documents -> JobRow]
  <1> DEFINE row == [jobs[d] EXCEPT !.status = status, !.lease = 0, !.leaseLive = FALSE]
  <1>1. row \in JobRow
    BY DEF JobRow
  <1>2. jobs' = [jobs EXCEPT ![d] = row]
    BY DEF Settle
  <1>3. QED
    BY <1>1, <1>2

\* A published row is a DocumentProcessingResult.
LEMMA PublishKeepsType ==
    ASSUME Typed,
           NEW w \in Workers,
           worker[w].pc # "idle",
           NEW status \in {"READY", "FAILED"},
           NEW questions \in {"Valid", "Rejected", "None"},
           Publish(w, status, questions)
    PROVE  aiOutbox' \in Seq(Event)
  BY DEF Typed, QueueTypeOK, BusyLoopsHaveDocuments, Publish, Event, LoopState

\* Releasing a loop resets its local variables.
LEMMA ReleaseKeepsType ==
    ASSUME Typed, NEW w \in Workers, Release(w)
    PROVE  /\ worker' \in [Workers -> LoopState]
           /\ BusyLoopsHaveDocuments'
  BY DEF Typed, QueueTypeOK, BusyLoopsHaveDocuments, Release, Idle, LoopState, Failure

\* Moving a busy loop keeps its claim.
LEMMA GotoKeepsType ==
    ASSUME Typed, NEW w \in Workers, worker[w].pc # "idle",
           NEW pc \in {"claimed", "processing", "persisting", "committing",
                       "failing", "exhausted"},
           Goto(w, pc)
    PROVE  /\ worker' \in [Workers -> LoopState]
           /\ BusyLoopsHaveDocuments'
  BY DEF Typed, QueueTypeOK, BusyLoopsHaveDocuments, Goto, LoopState

\* The enqueue statement writes whole rows and counts.
LEMMA EnqueueKeepsType ==
    ASSUME Typed, NEW d \in Documents, Enqueue(d)
    PROVE  Typed'
  <1>1. UNCHANGED <<worker, aiOutbox, dlq, chunks, mishaps>>
    BY DEF Enqueue
  <1>2. /\ jobs' \in [Documents -> JobRow]
        /\ arms' \in [Documents -> Nat]
        /\ reported' \in [Documents -> Nat]
    <2>1. CASE InsertJob(d)
      <3> DEFINE rank == Cardinality({e \in Documents : jobs[e].status # "ABSENT"}) + 1
                 row == [NoRow EXCEPT !.status = "PENDING", !.visible = TRUE,
                                      !.createdAt = rank]
      <3>1. row \in JobRow
        <4>1. rank \in Nat
          BY RankIsNat
        <4>2. NoRow \in JobRow
          BY DEF NoRow, JobRow, Status
        <4> HIDE DEF rank
        <4>3. QED
          BY <4>1, <4>2 DEF JobRow, Status
      <3>2. jobs' = [jobs EXCEPT ![d] = row]
        BY <2>1 DEF InsertJob
      <3>3. QED
        BY <2>1, <3>1, <3>2 DEF InsertJob, Typed, QueueTypeOK
    <2>2. CASE RearmJob(d)
      <3> DEFINE row == [jobs[d] EXCEPT !.status = "PENDING", !.attempts = @ + 1,
                                        !.retries = 0]
      <3>1. row \in JobRow
        <4>1. jobs[d] \in JobRow
          BY DEF Typed, QueueTypeOK
        <4>2. jobs[d].attempts + 1 \in Nat
          BY <4>1 DEF JobRow
        <4>3. QED
          BY <4>1, <4>2 DEF JobRow, Status
      <3>2. jobs' = [jobs EXCEPT ![d] = row]
        BY <2>2 DEF RearmJob
      <3>3. QED
        BY <2>2, <3>1, <3>2 DEF RearmJob, Typed, QueueTypeOK
    <2>3. CASE IgnoreJob(d)
      BY <2>3 DEF IgnoreJob, Typed, QueueTypeOK
    <2>4. QED
      BY <2>1, <2>2, <2>3 DEF Enqueue
  <1>3. QED
    BY <1>1, <1>2 DEF Typed, QueueTypeOK, BusyLoopsHaveDocuments

\* A claim writes the row and the loop together.
LEMMA ClaimKeepsType ==
    ASSUME Typed, NEW w \in Workers, Claim(w)
    PROVE  Typed'
  <1>1. PICK d \in Documents :
           LET attempt == jobs[d].attempts + 1 IN
           /\ jobs' = [jobs EXCEPT ![d].status = "RUNNING",
                                   ![d].attempts = attempt,
                                   ![d].lease = attempt,
                                   ![d].leaseLive = TRUE]
           /\ worker' = [worker EXCEPT ![w] =
                           [pc |-> "claimed", doc |-> d, attempt |-> attempt,
                            lease |-> attempt, failure |-> "None"]]
    BY DEF Claim
  <1> DEFINE attempt == jobs[d].attempts + 1
             row == [jobs[d] EXCEPT !.status = "RUNNING", !.attempts = attempt,
                                    !.lease = attempt, !.leaseLive = TRUE]
             loop == [pc |-> "claimed", doc |-> d, attempt |-> attempt,
                      lease |-> attempt, failure |-> "None"]
  <1>2. attempt \in Nat
    BY DEF Typed, QueueTypeOK, JobRow
  <1>3. row \in JobRow
    BY <1>2 DEF Typed, QueueTypeOK, JobRow, Status
  <1>4. loop \in LoopState
    BY <1>2 DEF LoopState, Failure
  <1>5. /\ jobs' = [jobs EXCEPT ![d] = row]
        /\ worker' = [worker EXCEPT ![w] = loop]
    BY <1>1
  <1>6. UNCHANGED <<aiOutbox, dlq, chunks, arms, reported, mishaps>>
    BY DEF Claim
  <1>7. loop.doc \in Documents
    OBVIOUS
  <1> HIDE DEF attempt, row, loop
  <1>8. QED
    BY <1>3, <1>4, <1>5, <1>6, <1>7 DEF Typed, QueueTypeOK, BusyLoopsHaveDocuments

\* Without a write to the tables, moving or releasing a busy loop keeps the type.
LEMMA SilentKeepsType ==
    ASSUME Typed,
           UNCHANGED <<jobs, aiOutbox, dlq, chunks, arms, reported>>,
           mishaps' \in Nat,
           worker' \in [Workers -> LoopState],
           BusyLoopsHaveDocuments'
    PROVE  Typed'
  BY DEF Typed, QueueTypeOK

\* A loop that fails notes the class of its failure.
LEMMA FailingKeepsType ==
    ASSUME Typed, NEW w \in Workers, worker[w].pc # "idle",
           NEW failure \in {"Final", "Technical"},
           worker' = [worker EXCEPT ![w].pc = "failing", ![w].failure = failure]
    PROVE  /\ worker' \in [Workers -> LoopState]
           /\ BusyLoopsHaveDocuments'
  <1> DEFINE loop == [worker[w] EXCEPT !.pc = "failing", !.failure = failure]
  <1>1. loop \in LoopState
    BY DEF Typed, QueueTypeOK, LoopState, Failure
  <1>2. worker' = [worker EXCEPT ![w] = loop]
    OBVIOUS
  <1>3. loop.doc \in Documents
    BY DEF Typed, QueueTypeOK, LoopState, BusyLoopsHaveDocuments
  <1> HIDE DEF loop
  <1>4. QED
    BY <1>1, <1>2, <1>3 DEF Typed, QueueTypeOK, BusyLoopsHaveDocuments

\* The steps of a loop that write no table.
LEMMA SilentStepKeepsType ==
    ASSUME Typed, NEW w \in Workers,
           \/ SourceFound(w) \/ SourceMissing(w) \/ ProcessingFails(w)
           \/ BeginPersist(w) \/ LockRow(w) \/ PersistError(w) \/ Crash(w)
    PROVE  Typed'
  <1>1. /\ UNCHANGED <<jobs, aiOutbox, dlq, chunks, arms, reported>>
        /\ worker[w].pc # "idle"
    BY DEF SourceFound, SourceMissing, ProcessingFails, BeginPersist, LockRow,
           PersistError, Crash
  <1>2. mishaps' \in Nat
    BY DEF SourceFound, SourceMissing, ProcessingFails, BeginPersist, LockRow,
           PersistError, Crash, Mishap, Typed, QueueTypeOK
  <1>3. \/ Release(w)
        \/ \E pc \in {"processing", "persisting", "committing"} : Goto(w, pc)
        \/ \E failure \in {"Final", "Technical"} :
             worker' = [worker EXCEPT ![w].pc = "failing", ![w].failure = failure]
    BY DEF SourceFound, SourceMissing, ProcessingFails, BeginPersist, LockRow,
           PersistError, Crash
  <1>4. /\ worker' \in [Workers -> LoopState]
        /\ BusyLoopsHaveDocuments'
    BY <1>1, <1>3, ReleaseKeepsType, GotoKeepsType, FailingKeepsType
  <1>5. QED
    BY <1>1, <1>2, <1>4, SilentKeepsType

\* The transactions that settle a job: row, result row and loop.
LEMMA OutcomeKeepsType ==
    ASSUME Typed, NEW w \in Workers, CommitPersist(w) \/ Fail(w) \/ DeadLetter(w)
    PROVE  Typed'
  <1> DEFINE d == worker[w].doc
  <1>1. /\ worker[w].pc # "idle"
        /\ Release(w)
        /\ UNCHANGED <<arms, reported, mishaps>>
    BY DEF CommitPersist, Fail, DeadLetter
  <1>2. d \in Documents /\ worker[w].attempt \in Nat
    BY <1>1 DEF Typed, QueueTypeOK, BusyLoopsHaveDocuments, LoopState
  <1>3. \/ UNCHANGED jobs
        \/ \E status \in {"COMPLETED", "FAILED"} : Settle(d, status)
    BY DEF CommitPersist, Fail, DeadLetter
  <1>4. jobs' \in [Documents -> JobRow]
    BY <1>2, <1>3, SettleKeepsType DEF Status, Typed, QueueTypeOK
  <1>5. \/ UNCHANGED aiOutbox
        \/ Publish(w, "FAILED", "None")
        \/ \E questions \in {"Valid", "Rejected"} : Publish(w, "READY", questions)
    BY DEF CommitPersist, Fail, DeadLetter
  <1>6. aiOutbox' \in Seq(Event)
    <2>1. CASE UNCHANGED aiOutbox
      BY <2>1 DEF Typed, QueueTypeOK
    <2>2. CASE Publish(w, "FAILED", "None")
      BY <1>1, <2>2, PublishKeepsType
    <2>3. CASE \E questions \in {"Valid", "Rejected"} : Publish(w, "READY", questions)
      BY <1>1, <2>3, PublishKeepsType
    <2>4. QED
      BY <1>5, <2>1, <2>2, <2>3
  <1>7. /\ \/ UNCHANGED dlq
           \/ dlq' = [dlq EXCEPT ![d] = worker[w].attempt]
        /\ \/ UNCHANGED chunks
           \/ chunks' = [chunks EXCEPT ![d] = worker[w].attempt]
    BY DEF CommitPersist, Fail, DeadLetter
  <1>8. dlq' \in [Documents -> Nat] /\ chunks' \in [Documents -> Nat]
    BY <1>2, <1>7 DEF Typed, QueueTypeOK
  <1>9. worker' \in [Workers -> LoopState] /\ BusyLoopsHaveDocuments'
    BY <1>1, ReleaseKeepsType
  <1>10. QED
    BY <1>1, <1>4, <1>6, <1>8, <1>9 DEF Typed, QueueTypeOK

\* The three ends of Retry.
LEMMA RetryKeepsType ==
    ASSUME Typed, NEW w \in Workers, Retry(w)
    PROVE  Typed'
  <1> DEFINE d == worker[w].doc
  <1>1. /\ worker[w].pc # "idle"
        /\ UNCHANGED <<aiOutbox, dlq, chunks, arms, mishaps>>
    BY DEF Retry
  <1>2. d \in Documents
    BY <1>1 DEF Typed, QueueTypeOK, BusyLoopsHaveDocuments
  <1>3. /\ jobs' \in [Documents -> JobRow]
        /\ reported' \in [Documents -> Nat]
        /\ Release(w) \/ Goto(w, "exhausted")
    <2>1. CASE ScheduleRetry(w)
      <3> DEFINE row == [jobs[d] EXCEPT !.status = "PENDING", !.retries = @ + 1,
                                        !.lease = 0, !.leaseLive = FALSE,
                                        !.visible = FALSE]
      <3>1. row \in JobRow
        <4>1. jobs[d] \in JobRow
          BY <1>2 DEF Typed, QueueTypeOK
        <4>2. jobs[d].retries + 1 \in Nat
          BY <4>1 DEF JobRow
        <4>3. QED
          BY <4>1, <4>2 DEF JobRow, Status
      <3>2. /\ jobs' = [jobs EXCEPT ![d] = row]
            /\ reported' = [reported EXCEPT ![d] = @ + 1]
            /\ Release(w)
        BY <2>1 DEF ScheduleRetry
      <3>3. QED
        BY <1>2, <3>1, <3>2 DEF Typed, QueueTypeOK
    <2>2. CASE ExhaustRetries(w)
      BY <1>2, <2>2 DEF ExhaustRetries, Typed, QueueTypeOK
    <2>3. CASE RetryLosesFence(w)
      BY <2>3 DEF RetryLosesFence, Typed, QueueTypeOK
    <2>4. QED
      BY <2>1, <2>2, <2>3 DEF Retry
  <1>4. worker' \in [Workers -> LoopState] /\ BusyLoopsHaveDocuments'
    BY <1>1, <1>3, ReleaseKeepsType, GotoKeepsType
  <1>5. QED
    BY <1>1, <1>3, <1>4 DEF Typed, QueueTypeOK

\* Time only changes what the clock comparisons of a row answer.
LEMMA TimeKeepsType ==
    ASSUME Typed, NEW d \in Documents, Passage(d) \/ LeaseOutrun(d)
    PROVE  Typed'
  <1>1. /\ UNCHANGED <<worker, aiOutbox, dlq, chunks, arms, reported>>
        /\ mishaps' \in Nat
    BY DEF Passage, LeaseRunsOut, LeaseOutrun, RetryDue, Mishap, Typed, QueueTypeOK
  <1>2. jobs' \in [Documents -> JobRow]
    <2>1. jobs[d] \in JobRow
      BY DEF Typed, QueueTypeOK
    <2>2. /\ [jobs[d] EXCEPT !.leaseLive = FALSE] \in JobRow
          /\ [jobs[d] EXCEPT !.visible = TRUE] \in JobRow
      BY <2>1 DEF JobRow
    <2>3. \/ jobs' = [jobs EXCEPT ![d] = [jobs[d] EXCEPT !.leaseLive = FALSE]]
          \/ jobs' = [jobs EXCEPT ![d] = [jobs[d] EXCEPT !.visible = TRUE]]
      BY DEF Passage, LeaseRunsOut, LeaseOutrun, RetryDue
    <2>4. QED
      BY <2>2, <2>3 DEF Typed, QueueTypeOK
  <1>3. QED
    BY <1>1, <1>2 DEF Typed, QueueTypeOK, BusyLoopsHaveDocuments

\* Handing an expired claim back writes the row only.
LEMMA RequeueKeepsType ==
    ASSUME Typed, NEW d \in Documents, RequeueExpired(d)
    PROVE  Typed'
  <1> DEFINE row == [jobs[d] EXCEPT !.status = "PENDING", !.lease = 0, !.visible = TRUE]
  <1>1. row \in JobRow
    <2>1. jobs[d] \in JobRow
      BY DEF Typed, QueueTypeOK
    <2>2. QED
      BY <2>1 DEF JobRow, Status
  <1>2. /\ jobs' = [jobs EXCEPT ![d] = row]
        /\ UNCHANGED <<worker, aiOutbox, dlq, chunks, arms, reported, mishaps>>
    BY DEF RequeueExpired
  <1>3. QED
    BY <1>1, <1>2 DEF Typed, QueueTypeOK, BusyLoopsHaveDocuments

\* The empty tables and idle loops are typed.
LEMMA TypedInit == QueueInit => Typed
  BY DEF QueueInit, Typed, QueueTypeOK, BusyLoopsHaveDocuments, NoRow, JobRow,
         Status, Idle, LoopState, Failure, Event

\* Every step of the queue keeps the type.
LEMMA TypedStep == Typed /\ [QueueStep]_queueVars => Typed'
  <1> SUFFICES ASSUME Typed, [QueueStep]_queueVars PROVE Typed'
    OBVIOUS
  <1>1. CASE UNCHANGED queueVars
    BY <1>1 DEF queueVars, Typed, QueueTypeOK, BusyLoopsHaveDocuments
  <1>2. ASSUME NEW d \in Documents, \/ Enqueue(d) \/ Passage(d) \/ LeaseOutrun(d)
                                   \/ RequeueExpired(d)
        PROVE  Typed'
    BY <1>2, EnqueueKeepsType, TimeKeepsType, RequeueKeepsType
  <1>3. ASSUME NEW w \in Workers,
               Claim(w) \/ SourceFound(w) \/ SourceMissing(w) \/ LoopStep(w) \/ Fault(w)
        PROVE  Typed'
    BY <1>3, ClaimKeepsType, SilentStepKeepsType, OutcomeKeepsType, RetryKeepsType
       DEF LoopStep, Fault
  <1>4. QED
    BY <1>1, <1>2, <1>3 DEF QueueStep, LoopOrTime

\* Type correctness of the queue: every column of every table and every local
\* variable of a loop keeps its type, whatever the interleaving.
THEOREM QueueTypeCorrect == QueueSpec => []QueueTypeOK
  <1>1. Typed => QueueTypeOK
    BY DEF Typed
  <1>2. QED
    BY <1>1, TypedInit, TypedStep, NextIsQueueStep, PTL DEF QueueSpec

(***************************************************************************)
(* The attempt number is a fence                                           *)
(***************************************************************************)

Inv == Typed /\ AttemptFence

\* What a step may do without touching the fence: no row changes its status,
\* attempt or lease, nothing is published, a loop keeps its claim or drops it,
\* and only a loop under its fence takes the row's lock.
QuietStep ==
    /\ UNCHANGED aiOutbox
    /\ \A d \in Documents : /\ jobs'[d].status = jobs[d].status
                            /\ jobs'[d].attempts = jobs[d].attempts
                            /\ jobs'[d].lease = jobs[d].lease
    /\ \A w \in Workers :
        worker'[w].pc # "idle" =>
            /\ worker[w].pc # "idle"
            /\ worker'[w].doc = worker[w].doc
            /\ worker'[w].attempt = worker[w].attempt
            /\ worker'[w].lease = worker[w].lease
    /\ \A w \in Workers :
        worker'[w].pc = "committing" => worker[w].pc = "committing" \/ Fenced(w)

\* A quiet step leaves every part of the fence as it is.
LEMMA QuietStepKeepsFence ==
    ASSUME Inv, Typed', QuietStep
    PROVE  AttemptFence'
  <1>1. AbsentIsFresh'
    BY DEF QuietStep, Inv, AttemptFence, AbsentIsFresh
  <1>2. BusyLoopsHaveDocuments'
    BY DEF Typed
  <1>3. ClaimsArePast'
    BY DEF QuietStep, Inv, AttemptFence, ClaimsArePast, Typed, BusyLoopsHaveDocuments
  <1>4. ClaimsAreDistinct'
    BY DEF QuietStep, Inv, AttemptFence, ClaimsAreDistinct
  <1>5. CommitHoldsRow'
    BY DEF QuietStep, Inv, AttemptFence, CommitHoldsRow, Fenced, Typed,
           BusyLoopsHaveDocuments
  <1>6. OutcomesArePast'
    <2> SUFFICES ASSUME NEW i \in DOMAIN aiOutbox
                 PROVE  LET event == aiOutbox[i] job == jobs'[event.doc] IN
                        /\ event.attempt <= job.attempts
                        /\ event.attempt = job.attempts
                             => job.status \in {"COMPLETED", "FAILED"}
      BY DEF QuietStep, OutcomesArePast
    <2>1. aiOutbox[i].doc \in Documents
      <3>1. aiOutbox[i] \in Event
        BY DEF Inv, Typed, QueueTypeOK
      <3>2. QED
        BY <3>1 DEF Event
    <2>2. QED
      BY <2>1 DEF QuietStep, Inv, AttemptFence, OutcomesArePast
  <1>7. QED
    BY <1>1, <1>2, <1>3, <1>4, <1>5, <1>6 DEF AttemptFence

\* The steps of a loop before its first fenced write, the row lock, the faults
\* and the end of the retries are quiet.
LEMMA SilentStepIsQuiet ==
    ASSUME Typed, NEW w \in Workers,
           \/ SourceFound(w) \/ SourceMissing(w) \/ ProcessingFails(w)
           \/ BeginPersist(w) \/ LockRow(w) \/ PersistError(w) \/ Crash(w)
           \/ ExhaustRetries(w) \/ RetryLosesFence(w)
    PROVE  (UNCHANGED aiOutbox /\ worker[w].pc # "idle") => QuietStep
  <1> SUFFICES ASSUME UNCHANGED aiOutbox, worker[w].pc # "idle" PROVE QuietStep
    OBVIOUS
  <1>1. UNCHANGED jobs
    BY DEF SourceFound, SourceMissing, ProcessingFails, BeginPersist, LockRow,
           PersistError, Crash, ExhaustRetries, RetryLosesFence
  <1>2. \/ Release(w)
        \/ \E pc \in {"processing", "persisting", "exhausted"} : Goto(w, pc)
        \/ Fenced(w) /\ Goto(w, "committing")
        \/ \E failure \in {"Final", "Technical"} :
             worker' = [worker EXCEPT ![w].pc = "failing", ![w].failure = failure]
    BY DEF SourceFound, SourceMissing, ProcessingFails, BeginPersist, LockRow,
           PersistError, Crash, ExhaustRetries, RetryLosesFence
  <1>3. \A v \in Workers : v # w => worker'[v] = worker[v]
    BY <1>2 DEF Release, Goto, Typed, QueueTypeOK
  <1>4. worker'[w].pc # "idle" =>
            /\ worker'[w].doc = worker[w].doc
            /\ worker'[w].attempt = worker[w].attempt
            /\ worker'[w].lease = worker[w].lease
            /\ worker'[w].pc = "committing" => Fenced(w)
    BY <1>2 DEF Release, Idle, Goto, Typed, QueueTypeOK, LoopState
  <1>5. \A v \in Workers :
           worker'[v].pc # "idle" =>
             /\ worker[v].pc # "idle"
             /\ worker'[v].doc = worker[v].doc
             /\ worker'[v].attempt = worker[v].attempt
             /\ worker'[v].lease = worker[v].lease
    BY <1>3, <1>4
  <1>6. \A v \in Workers :
           worker'[v].pc = "committing" => worker[v].pc = "committing" \/ Fenced(v)
    <2> SUFFICES ASSUME NEW v \in Workers, worker'[v].pc = "committing"
                 PROVE  worker[v].pc = "committing" \/ Fenced(v)
      OBVIOUS
    <2>1. CASE v = w
      BY <2>1, <1>4
    <2>2. CASE v # w
      BY <2>2, <1>3
    <2>3. QED
      BY <2>1, <2>2
  <1>7. QED
    BY <1>1, <1>5, <1>6 DEF QuietStep

\* Time moves lease_until and next_visible_at only against the clock.
LEMMA TimeIsQuiet ==
    ASSUME Typed, NEW d \in Documents, Passage(d) \/ LeaseOutrun(d)
    PROVE  QuietStep
  <1>1. UNCHANGED <<worker, aiOutbox>>
    BY DEF Passage, LeaseRunsOut, LeaseOutrun, RetryDue
  <1>2. \A e \in Documents : /\ jobs'[e].status = jobs[e].status
                            /\ jobs'[e].attempts = jobs[e].attempts
                            /\ jobs'[e].lease = jobs[e].lease
    <2> SUFFICES ASSUME NEW e \in Documents
                 PROVE  /\ jobs'[e].status = jobs[e].status
                        /\ jobs'[e].attempts = jobs[e].attempts
                        /\ jobs'[e].lease = jobs[e].lease
      OBVIOUS
    <2>1. jobs \in [Documents -> JobRow] /\ jobs[e] \in JobRow
      BY DEF Typed, QueueTypeOK
    <2>2. \/ jobs'[e] = jobs[e]
          \/ jobs'[e] = [jobs[e] EXCEPT !.leaseLive = FALSE]
          \/ jobs'[e] = [jobs[e] EXCEPT !.visible = TRUE]
      BY <2>1 DEF Passage, LeaseRunsOut, LeaseOutrun, RetryDue
    <2>3. QED
      BY <2>1, <2>2 DEF JobRow
  <1>3. QED
    BY <1>1, <1>2 DEF QuietStep

\* Enqueue never reaches a row a transaction has locked, and leaves the attempts
\* of the results published so far behind.
LEMMA EnqueueKeepsFence ==
    ASSUME Inv, NEW d \in Documents, Enqueue(d), Typed'
    PROVE  AttemptFence'
  <1>1. /\ UNCHANGED <<worker, aiOutbox>>
        /\ ~RowLocked(d)
    BY DEF Enqueue
  <1>2. jobs[d] \in JobRow
    BY DEF Inv, Typed, QueueTypeOK
  <1>3. \A e \in Documents : e # d => jobs'[e] = jobs[e]
    BY DEF Inv, Typed, QueueTypeOK, Enqueue, InsertJob, RearmJob, IgnoreJob
  <1>4. CASE IgnoreJob(d)
    <2>1. QuietStep
      BY <1>1, <1>4 DEF IgnoreJob, QuietStep
    <2>2. QED
      BY <2>1, QuietStepKeepsFence
  <1>5. CASE InsertJob(d) \/ RearmJob(d)
    <2>1. /\ jobs[d].status \in {"ABSENT", "FAILED"}
          /\ jobs'[d].status = "PENDING"
          /\ jobs[d].attempts \in Nat
          /\ jobs'[d].attempts \in Nat
          /\ \/ jobs[d].status = "ABSENT" /\ jobs'[d].attempts = 0
             \/ jobs'[d].attempts = jobs[d].attempts + 1
      <3>1. jobs \in [Documents -> JobRow]
        BY DEF Inv, Typed, QueueTypeOK
      <3>2. CASE InsertJob(d)
        BY <1>2, <3>1, <3>2 DEF InsertJob, NoRow, JobRow
      <3>3. CASE RearmJob(d)
        BY <1>2, <3>1, <3>3 DEF RearmJob, JobRow
      <3>4. QED
        BY <1>5, <3>2, <3>3
    <2>2. jobs'[d].attempts >= jobs[d].attempts
      BY <2>1 DEF Inv, AttemptFence, AbsentIsFresh
    <2>3. AbsentIsFresh'
      BY <1>3, <2>1 DEF Inv, AttemptFence, AbsentIsFresh
    <2>4. ClaimsArePast'
      <3> SUFFICES ASSUME NEW w \in Workers, worker[w].pc # "idle"
                   PROVE  worker[w].attempt <= jobs'[worker[w].doc].attempts
        BY <1>1 DEF ClaimsArePast
      <3>1. /\ worker[w].attempt <= jobs[worker[w].doc].attempts
            /\ worker[w].doc \in Documents
            /\ worker[w].attempt \in Nat
        BY DEF Inv, AttemptFence, ClaimsArePast, BusyLoopsHaveDocuments, Typed,
               QueueTypeOK, LoopState
      <3>2. CASE worker[w].doc = d
        BY <2>1, <2>2, <3>1, <3>2
      <3>3. CASE worker[w].doc # d
        BY <1>3, <3>1, <3>3
      <3>4. QED
        BY <3>2, <3>3
    <2>5. ClaimsAreDistinct'
      BY <1>1 DEF Inv, AttemptFence, ClaimsAreDistinct
    <2>6. CommitHoldsRow'
      <3> SUFFICES ASSUME NEW w \in Workers, worker[w].pc = "committing"
                   PROVE  Fenced(w)'
        BY <1>1 DEF CommitHoldsRow
      <3>1. worker[w].doc # d /\ worker[w].doc \in Documents /\ Fenced(w)
        BY <1>1 DEF RowLocked, Inv, AttemptFence, CommitHoldsRow,
                    BusyLoopsHaveDocuments
      <3>2. QED
        BY <1>1, <1>3, <3>1 DEF Fenced
    <2>7. OutcomesArePast'
      <3> SUFFICES ASSUME NEW i \in DOMAIN aiOutbox
                   PROVE  LET event == aiOutbox[i] job == jobs'[event.doc] IN
                          /\ event.attempt <= job.attempts
                          /\ event.attempt = job.attempts
                               => job.status \in {"COMPLETED", "FAILED"}
        BY <1>1 DEF OutcomesArePast
      <3>1. aiOutbox[i] \in Event
        BY DEF Inv, Typed, QueueTypeOK
      <3>2. aiOutbox[i].doc \in Documents /\ aiOutbox[i].attempt \in Nat
        BY <3>1 DEF Event
      <3>3. LET event == aiOutbox[i] job == jobs[event.doc] IN
            /\ event.attempt <= job.attempts
            /\ event.attempt = job.attempts => job.status \in {"COMPLETED", "FAILED"}
        BY DEF Inv, AttemptFence, OutcomesArePast
      <3>4. CASE aiOutbox[i].doc = d
        BY <2>1, <2>2, <3>2, <3>3, <3>4 DEF Inv, AttemptFence, AbsentIsFresh
      <3>5. CASE aiOutbox[i].doc # d
        BY <1>3, <3>2, <3>3, <3>5
      <3>6. QED
        BY <3>4, <3>5
    <2>8. QED
      BY <2>3, <2>4, <2>5, <2>6, <2>7 DEF AttemptFence, Typed
  <1>6. QED
    BY <1>4, <1>5 DEF Enqueue

\* A claim draws the row's next attempt number, which no loop and no result has.
LEMMA ClaimKeepsFence ==
    ASSUME Inv, NEW w \in Workers, Claim(w), Typed'
    PROVE  AttemptFence'
  <1>1. PICK d \in Documents :
           /\ Claimable(d)
           /\ LET attempt == jobs[d].attempts + 1 IN
              /\ jobs' = [jobs EXCEPT ![d].status = "RUNNING",
                                      ![d].attempts = attempt,
                                      ![d].lease = attempt,
                                      ![d].leaseLive = TRUE]
              /\ worker' = [worker EXCEPT ![w] =
                              [pc |-> "claimed", doc |-> d, attempt |-> attempt,
                               lease |-> attempt, failure |-> "None"]]
    BY DEF Claim
  <1>2. /\ UNCHANGED aiOutbox
        /\ worker[w].pc = "idle"
        /\ ~RowLocked(d)
    BY <1>1 DEF Claim, Claimable
  <1>3. /\ jobs \in [Documents -> JobRow]
        /\ jobs[d] \in JobRow
        /\ worker \in [Workers -> LoopState]
    BY DEF Inv, Typed, QueueTypeOK
  <1>4. /\ jobs'[d].status = "RUNNING"
        /\ jobs[d].attempts \in Nat
        /\ jobs'[d].attempts = jobs[d].attempts + 1
    BY <1>1, <1>3 DEF JobRow
  <1>5. /\ worker'[w].pc = "claimed"
        /\ worker'[w].doc = d
        /\ worker'[w].attempt = jobs[d].attempts + 1
        /\ \A v \in Workers : v # w => worker'[v] = worker[v]
    BY <1>1, <1>3
  <1>6. \A e \in Documents : e # d => jobs'[e] = jobs[e]
    BY <1>1, <1>3
  <1>7. AbsentIsFresh'
    BY <1>4, <1>6 DEF Inv, AttemptFence, AbsentIsFresh
  <1>8. \A v \in Workers : worker[v].pc # "idle" =>
           /\ worker[v].attempt <= jobs[worker[v].doc].attempts
           /\ worker[v].doc \in Documents
           /\ worker[v].attempt \in Nat
    BY <1>3 DEF Inv, AttemptFence, ClaimsArePast, BusyLoopsHaveDocuments, LoopState
  <1>9. ClaimsArePast'
    <2> SUFFICES ASSUME NEW v \in Workers, worker'[v].pc # "idle"
                 PROVE  worker'[v].attempt <= jobs'[worker'[v].doc].attempts
      BY DEF ClaimsArePast
    <2>1. CASE v = w
      BY <2>1, <1>4, <1>5
    <2>2. CASE v # w /\ worker[v].doc = d
      BY <2>2, <1>4, <1>5, <1>8
    <2>3. CASE v # w /\ worker[v].doc # d
      BY <2>3, <1>5, <1>6, <1>8
    <2>4. QED
      BY <2>1, <2>2, <2>3
  <1>10. ClaimsAreDistinct'
    <2> SUFFICES ASSUME NEW v \in Workers, NEW u \in Workers,
                        worker'[v].pc # "idle", worker'[u].pc # "idle",
                        worker'[v].doc = worker'[u].doc,
                        worker'[v].attempt = worker'[u].attempt
                 PROVE  v = u
      BY DEF ClaimsAreDistinct
    <2>1. CASE v # w /\ u # w
      BY <2>1, <1>5 DEF Inv, AttemptFence, ClaimsAreDistinct
    <2>2. CASE v = w \/ u = w
      BY <2>2, <1>4, <1>5, <1>8
    <2>3. QED
      BY <2>1, <2>2
  <1>11. CommitHoldsRow'
    <2> SUFFICES ASSUME NEW v \in Workers, worker'[v].pc = "committing"
                 PROVE  Fenced(v)'
      BY DEF CommitHoldsRow
    <2>1. v # w /\ worker'[v] = worker[v]
      BY <1>5
    <2>2. Fenced(v) /\ worker[v].doc # d /\ worker[v].doc \in Documents
      BY <1>2, <1>8, <2>1 DEF RowLocked, Inv, AttemptFence, CommitHoldsRow
    <2>3. QED
      BY <1>6, <2>1, <2>2 DEF Fenced
  <1>12. OutcomesArePast'
    <2> SUFFICES ASSUME NEW i \in DOMAIN aiOutbox
                 PROVE  LET event == aiOutbox[i] job == jobs'[event.doc] IN
                        /\ event.attempt <= job.attempts
                        /\ event.attempt = job.attempts
                             => job.status \in {"COMPLETED", "FAILED"}
      BY <1>2 DEF OutcomesArePast
    <2>1. aiOutbox[i] \in Event
      BY DEF Inv, Typed, QueueTypeOK
    <2>2. aiOutbox[i].doc \in Documents /\ aiOutbox[i].attempt \in Nat
      BY <2>1 DEF Event
    <2>3. LET event == aiOutbox[i] job == jobs[event.doc] IN
          /\ event.attempt <= job.attempts
          /\ event.attempt = job.attempts => job.status \in {"COMPLETED", "FAILED"}
      BY DEF Inv, AttemptFence, OutcomesArePast
    <2>4. CASE aiOutbox[i].doc = d
      BY <1>4, <2>2, <2>3, <2>4
    <2>5. CASE aiOutbox[i].doc # d
      BY <1>6, <2>2, <2>3, <2>5
    <2>6. QED
      BY <2>4, <2>5
  <1>13. QED
    BY <1>7, <1>9, <1>10, <1>11, <1>12 DEF AttemptFence, Typed

\* What a fenced write does: the loop of the row's current claim takes the row
\* out of RUNNING, drops its claim, and publishes at most one result, of this
\* attempt, with which the row is settled.
FencedWrite(w) ==
    LET d == worker[w].doc IN
    /\ worker[w].pc # "idle"
    /\ Fenced(w)
    /\ \A v \in Workers : worker[v].pc = "committing" /\ worker[v].doc = d => v = w
    /\ Release(w)
    /\ jobs'[d].status \in {"PENDING", "COMPLETED", "FAILED"}
    /\ jobs'[d].attempts = jobs[d].attempts
    /\ \A e \in Documents : e # d => jobs'[e] = jobs[e]
    /\ \/ UNCHANGED aiOutbox
       \/ /\ jobs'[d].status \in {"COMPLETED", "FAILED"}
          /\ \E status \in {"READY", "FAILED"}, questions \in {"Valid", "Rejected", "None"} :
               Publish(w, status, questions)

\* Appending a result leaves the others in place.
LEMMA PublishAppends ==
    ASSUME Inv, NEW w \in Workers, worker[w].pc # "idle",
           NEW status \in {"READY", "FAILED"},
           NEW questions \in {"Valid", "Rejected", "None"},
           Publish(w, status, questions)
    PROVE  LET n == Len(aiOutbox) + 1 IN
           /\ Len(aiOutbox) \in Nat
           /\ DOMAIN aiOutbox = 1..Len(aiOutbox)
           /\ Len(aiOutbox') = n
           /\ DOMAIN aiOutbox' = 1..n
           /\ \A i \in DOMAIN aiOutbox : aiOutbox'[i] = aiOutbox[i]
           /\ aiOutbox'[n].doc = worker[w].doc
           /\ aiOutbox'[n].attempt = worker[w].attempt
           /\ aiOutbox'[n].status = status
  <1> DEFINE event == [doc |-> worker[w].doc, attempt |-> worker[w].attempt,
                       status |-> status, questions |-> questions]
  <1>1. event \in Event
    BY DEF Inv, Typed, QueueTypeOK, BusyLoopsHaveDocuments, Event, LoopState
  <1>2. /\ aiOutbox' = Append(aiOutbox, event)
        /\ aiOutbox \in Seq(Event)
    BY DEF Publish, Inv, Typed, QueueTypeOK
  <1>3. /\ event.doc = worker[w].doc
        /\ event.attempt = worker[w].attempt
        /\ event.status = status
    OBVIOUS
  <1> HIDE DEF event
  <1>4. QED
    BY <1>1, <1>2, <1>3

\* A fenced write keeps the fence: it settles or reopens its own attempt, and the
\* loops left behind hold other attempts.
LEMMA FencedWriteKeepsFence ==
    ASSUME Inv, NEW w \in Workers, FencedWrite(w), Typed'
    PROVE  AttemptFence'
  <1> DEFINE d == worker[w].doc
  <1>1. /\ worker[w].pc # "idle"
        /\ Fenced(w)
        /\ \A v \in Workers : worker[v].pc = "committing" /\ worker[v].doc = d => v = w
        /\ jobs'[d].status \in {"PENDING", "COMPLETED", "FAILED"}
        /\ jobs'[d].attempts = jobs[d].attempts
        /\ \A e \in Documents : e # d => jobs'[e] = jobs[e]
    BY DEF FencedWrite
  <1>2. /\ d \in Documents
        /\ jobs[d].status = "RUNNING"
        /\ jobs[d].attempts = worker[w].attempt
        /\ jobs[d].attempts \in Nat
    BY <1>1 DEF Fenced, Inv, Typed, QueueTypeOK, BusyLoopsHaveDocuments, LoopState
  <1>3. /\ worker'[w].pc = "idle"
        /\ \A v \in Workers : v # w => worker'[v] = worker[v]
    BY DEF FencedWrite, Release, Idle, Inv, Typed, QueueTypeOK
  <1>4. AbsentIsFresh'
    BY <1>1 DEF Inv, AttemptFence, AbsentIsFresh
  <1>5. ClaimsArePast'
    BY <1>1, <1>3 DEF Inv, AttemptFence, ClaimsArePast, BusyLoopsHaveDocuments
  <1>6. ClaimsAreDistinct'
    BY <1>3 DEF Inv, AttemptFence, ClaimsAreDistinct
  <1>7. CommitHoldsRow'
    <2> SUFFICES ASSUME NEW v \in Workers, worker'[v].pc = "committing"
                 PROVE  Fenced(v)'
      BY DEF CommitHoldsRow
    <2>1. v # w /\ worker'[v] = worker[v]
      BY <1>3
    <2>2. Fenced(v) /\ worker[v].doc # d /\ worker[v].doc \in Documents
      BY <1>1, <2>1 DEF Inv, AttemptFence, CommitHoldsRow, BusyLoopsHaveDocuments
    <2>3. QED
      BY <1>1, <2>1, <2>2 DEF Fenced
  <1>8. \A i \in DOMAIN aiOutbox :
           LET event == aiOutbox[i] job == jobs'[event.doc] IN
           /\ event.attempt <= job.attempts
           /\ event.attempt = job.attempts => job.status \in {"COMPLETED", "FAILED"}
    <2> SUFFICES ASSUME NEW i \in DOMAIN aiOutbox
                 PROVE  LET event == aiOutbox[i] job == jobs'[event.doc] IN
                        /\ event.attempt <= job.attempts
                        /\ event.attempt = job.attempts
                             => job.status \in {"COMPLETED", "FAILED"}
      OBVIOUS
    <2>1. aiOutbox[i] \in Event
      BY DEF Inv, Typed, QueueTypeOK
    <2>2. aiOutbox[i].doc \in Documents
      BY <2>1 DEF Event
    <2>3. LET event == aiOutbox[i] job == jobs[event.doc] IN
          /\ event.attempt <= job.attempts
          /\ event.attempt = job.attempts => job.status \in {"COMPLETED", "FAILED"}
      BY DEF Inv, AttemptFence, OutcomesArePast
    <2>4. CASE aiOutbox[i].doc = d
      BY <1>1, <1>2, <2>3, <2>4
    <2>5. CASE aiOutbox[i].doc # d
      BY <1>1, <2>2, <2>3, <2>5
    <2>6. QED
      BY <2>4, <2>5
  <1>9. OutcomesArePast'
    <2>1. CASE UNCHANGED aiOutbox
      BY <1>8, <2>1 DEF OutcomesArePast
    <2>2. ASSUME jobs'[d].status \in {"COMPLETED", "FAILED"},
                 NEW status \in {"READY", "FAILED"},
                 NEW questions \in {"Valid", "Rejected", "None"},
                 Publish(w, status, questions)
          PROVE  OutcomesArePast'
      <3> DEFINE n == Len(aiOutbox) + 1
      <3>1. /\ Len(aiOutbox) \in Nat
            /\ DOMAIN aiOutbox = 1..Len(aiOutbox)
            /\ DOMAIN aiOutbox' = 1..n
            /\ \A i \in DOMAIN aiOutbox : aiOutbox'[i] = aiOutbox[i]
            /\ aiOutbox'[n].doc = d
            /\ aiOutbox'[n].attempt = worker[w].attempt
        BY <1>1, <2>2, PublishAppends
      <3> SUFFICES ASSUME NEW i \in DOMAIN aiOutbox'
                   PROVE  LET event == aiOutbox'[i] job == jobs'[event.doc] IN
                          /\ event.attempt <= job.attempts
                          /\ event.attempt = job.attempts
                               => job.status \in {"COMPLETED", "FAILED"}
        BY DEF OutcomesArePast
      <3>2. CASE i = n
        BY <1>1, <1>2, <2>2, <3>1, <3>2
      <3>3. CASE i \in DOMAIN aiOutbox
        BY <1>8, <3>1, <3>3
      <3>4. i = n \/ i \in DOMAIN aiOutbox
        BY <3>1
      <3>5. QED
        BY <3>2, <3>3, <3>4
    <2>3. QED
      BY <2>1, <2>2 DEF FencedWrite
  <1>10. QED
    BY <1>4, <1>5, <1>6, <1>7, <1>9 DEF AttemptFence, Typed

\* A step that answers: row, result row, chunks and DLQ row of one transaction.
Answers(w) ==
    LET d == worker[w].doc IN
    /\ worker[w].pc # "idle"
    /\ Fenced(w)
    /\ \A v \in Workers : worker[v].pc = "committing" /\ worker[v].doc = d => v = w
    /\ Release(w)
    /\ \/ /\ Settle(d, "COMPLETED")
          /\ \E questions \in {"Valid", "Rejected"} : Publish(w, "READY", questions)
          /\ chunks' = [chunks EXCEPT ![d] = worker[w].attempt]
          /\ UNCHANGED dlq
       \/ /\ Settle(d, "FAILED")
          /\ Publish(w, "FAILED", "None")
          /\ \/ UNCHANGED dlq
             \/ dlq' = [dlq EXCEPT ![d] = worker[w].attempt]
          /\ UNCHANGED chunks

\* The fence of the outcome transactions: they answer, or drop the claim.
LEMMA OutcomeAnswersOrDrops ==
    ASSUME Inv, NEW w \in Workers, CommitPersist(w) \/ Fail(w) \/ DeadLetter(w)
    PROVE  \/ Answers(w)
           \/ Release(w) /\ UNCHANGED <<jobs, aiOutbox, chunks, dlq>>
  <1>1. CASE CommitPersist(w)
    <2>1. Fenced(w)
      BY <1>1 DEF CommitPersist, Inv, AttemptFence, CommitHoldsRow
    <2>2. ASSUME NEW v \in Workers, worker[v].pc = "committing",
                 worker[v].doc = worker[w].doc
          PROVE  v = w
      <3>1. Fenced(v)
        BY <2>2 DEF Inv, AttemptFence, CommitHoldsRow
      <3>2. worker[v].attempt = worker[w].attempt
        BY <2>1, <2>2, <3>1 DEF Fenced
      <3>3. worker[w].pc = "committing"
        BY <1>1 DEF CommitPersist
      <3>4. QED
        BY <2>2, <3>2, <3>3 DEF Inv, AttemptFence, ClaimsAreDistinct
    <2>3. QED
      BY <1>1, <2>1, <2>2 DEF CommitPersist, Answers
  <1>2. CASE Fail(w)
    BY <1>2 DEF Fail, FencedLive, RowLocked, Answers
  <1>3. CASE DeadLetter(w)
    BY <1>3 DEF DeadLetter, FencedLive, RowLocked, Answers
  <1>4. QED
    BY <1>1, <1>2, <1>3

\* The outcome transactions that answer are fenced writes ...
LEMMA AnswerIsFencedWrite ==
    ASSUME Inv, NEW w \in Workers, Answers(w)
    PROVE  FencedWrite(w)
  <1> DEFINE d == worker[w].doc
  <1>1. /\ d \in Documents
        /\ jobs \in [Documents -> JobRow]
        /\ jobs[d] \in JobRow
    BY DEF Answers, Inv, Typed, QueueTypeOK, BusyLoopsHaveDocuments
  <1>2. /\ jobs'[d].status \in {"COMPLETED", "FAILED"}
        /\ jobs'[d].attempts = jobs[d].attempts
        /\ \A e \in Documents : e # d => jobs'[e] = jobs[e]
    <2>1. PICK status \in {"COMPLETED", "FAILED"} : Settle(d, status)
      BY DEF Answers
    <2>2. QED
      BY <1>1, <2>1 DEF Settle, JobRow
  <1>3. \E status \in {"READY", "FAILED"}, questions \in {"Valid", "Rejected", "None"} :
           Publish(w, status, questions)
    BY DEF Answers
  <1>4. QED
    BY <1>2, <1>3 DEF Answers, FencedWrite

\* ... and so is the scheduling of a technical retry.
LEMMA ScheduleRetryIsFencedWrite ==
    ASSUME Inv, NEW w \in Workers, Retry(w), ScheduleRetry(w)
    PROVE  FencedWrite(w)
  <1> DEFINE d == worker[w].doc
  <1>1. /\ worker[w].pc # "idle"
        /\ ~RowLocked(d)
        /\ UNCHANGED aiOutbox
    BY DEF Retry
  <1>2. /\ d \in Documents
        /\ jobs \in [Documents -> JobRow]
        /\ jobs[d] \in JobRow
    BY <1>1 DEF Inv, Typed, QueueTypeOK, BusyLoopsHaveDocuments
  <1>3. /\ jobs'[d].status = "PENDING"
        /\ jobs'[d].attempts = jobs[d].attempts
        /\ \A e \in Documents : e # d => jobs'[e] = jobs[e]
    BY <1>2 DEF ScheduleRetry, JobRow
  <1>4. QED
    BY <1>1, <1>3 DEF ScheduleRetry, FencedLive, RowLocked, FencedWrite

\* Handing an expired claim back takes the row out of RUNNING: no loop's claim is
\* the row's any more, and the row's attempt stays ahead of every result.
LEMMA RequeueKeepsFence ==
    ASSUME Inv, NEW d \in Documents, RequeueExpired(d), Typed'
    PROVE  AttemptFence'
  <1>1. /\ UNCHANGED <<worker, aiOutbox>>
        /\ ~RowLocked(d)
        /\ jobs[d].status = "RUNNING"
    BY DEF RequeueExpired
  <1>2. /\ jobs'[d].status = "PENDING"
        /\ jobs'[d].attempts = jobs[d].attempts
        /\ \A e \in Documents : e # d => jobs'[e] = jobs[e]
    <2>1. jobs \in [Documents -> JobRow] /\ jobs[d] \in JobRow
      BY DEF Inv, Typed, QueueTypeOK
    <2>2. QED
      BY <2>1 DEF RequeueExpired, JobRow
  <1>3. AbsentIsFresh'
    BY <1>2 DEF Inv, AttemptFence, AbsentIsFresh
  <1>4. ClaimsArePast' /\ ClaimsAreDistinct'
    BY <1>1, <1>2 DEF Inv, AttemptFence, ClaimsArePast, ClaimsAreDistinct,
                      BusyLoopsHaveDocuments
  <1>5. CommitHoldsRow'
    <2> SUFFICES ASSUME NEW w \in Workers, worker[w].pc = "committing"
                 PROVE  Fenced(w)'
      BY <1>1 DEF CommitHoldsRow
    <2>1. worker[w].doc # d /\ worker[w].doc \in Documents /\ Fenced(w)
      BY <1>1 DEF RowLocked, Inv, AttemptFence, CommitHoldsRow, BusyLoopsHaveDocuments
    <2>2. QED
      BY <1>1, <1>2, <2>1 DEF Fenced
  <1>6. OutcomesArePast'
    <2> SUFFICES ASSUME NEW i \in DOMAIN aiOutbox
                 PROVE  LET event == aiOutbox[i] job == jobs'[event.doc] IN
                        /\ event.attempt <= job.attempts
                        /\ event.attempt = job.attempts
                             => job.status \in {"COMPLETED", "FAILED"}
      BY <1>1 DEF OutcomesArePast
    <2>1. aiOutbox[i] \in Event
      BY DEF Inv, Typed, QueueTypeOK
    <2>2. aiOutbox[i].doc \in Documents
      BY <2>1 DEF Event
    <2>3. LET event == aiOutbox[i] job == jobs[event.doc] IN
          /\ event.attempt <= job.attempts
          /\ event.attempt = job.attempts => job.status \in {"COMPLETED", "FAILED"}
      BY DEF Inv, AttemptFence, OutcomesArePast
    <2>4. CASE aiOutbox[i].doc = d
      BY <1>1, <1>2, <2>3, <2>4
    <2>5. CASE aiOutbox[i].doc # d
      BY <1>2, <2>2, <2>3, <2>5
    <2>6. QED
      BY <2>4, <2>5
  <1>7. QED
    BY <1>3, <1>4, <1>5, <1>6 DEF AttemptFence, Typed

\* Nothing is claimed or published at the start.
LEMMA InvInit == QueueInit => Inv
  BY TypedInit DEF Inv, QueueInit, AttemptFence, BusyLoopsHaveDocuments,
     AbsentIsFresh, ClaimsArePast, ClaimsAreDistinct, CommitHoldsRow,
     OutcomesArePast, NoRow, Idle

\* Every step keeps the fence.
LEMMA InvStep == Inv /\ [QueueStep]_queueVars => Inv'
  <1> SUFFICES ASSUME Inv, [QueueStep]_queueVars PROVE AttemptFence'
    BY TypedStep DEF Inv
  <1>1. Typed'
    BY TypedStep DEF Inv
  <1>2. CASE UNCHANGED queueVars
    <2>1. QuietStep
      BY <1>2 DEF queueVars, QuietStep
    <2>2. QED
      BY <1>1, <2>1, QuietStepKeepsFence
  <1>3. ASSUME NEW d \in Documents, Enqueue(d)
        PROVE  AttemptFence'
    BY <1>1, <1>3, EnqueueKeepsFence
  <1>4. ASSUME NEW d \in Documents, Passage(d) \/ LeaseOutrun(d)
        PROVE  AttemptFence'
    BY <1>1, <1>4, TimeIsQuiet, QuietStepKeepsFence DEF Inv
  <1>5. ASSUME NEW w \in Workers, Claim(w)
        PROVE  AttemptFence'
    BY <1>1, <1>5, ClaimKeepsFence
  <1>6. ASSUME NEW w \in Workers,
               \/ SourceFound(w) \/ SourceMissing(w) \/ ProcessingFails(w)
               \/ BeginPersist(w) \/ LockRow(w) \/ Fault(w)
        PROVE  AttemptFence'
    <2>1. UNCHANGED aiOutbox /\ worker[w].pc # "idle"
      BY <1>6 DEF SourceFound, SourceMissing, ProcessingFails, BeginPersist, LockRow,
                  Fault, PersistError, Crash
    <2>2. QuietStep
      BY <1>6, <2>1, SilentStepIsQuiet DEF Fault, Inv
    <2>3. QED
      BY <1>1, <2>2, QuietStepKeepsFence
  <1>7. ASSUME NEW w \in Workers, Retry(w)
        PROVE  AttemptFence'
    <2>1. CASE ScheduleRetry(w)
      BY <1>1, <1>7, <2>1, ScheduleRetryIsFencedWrite, FencedWriteKeepsFence
    <2>2. CASE ExhaustRetries(w) \/ RetryLosesFence(w)
      <3>1. UNCHANGED aiOutbox /\ worker[w].pc # "idle"
        BY <1>7 DEF Retry
      <3>2. QuietStep
        BY <2>2, <3>1, SilentStepIsQuiet DEF Inv
      <3>3. QED
        BY <1>1, <3>2, QuietStepKeepsFence
    <2>3. QED
      BY <1>7, <2>1, <2>2 DEF Retry
  <1>8. ASSUME NEW w \in Workers, CommitPersist(w) \/ Fail(w) \/ DeadLetter(w)
        PROVE  AttemptFence'
    <2>1. CASE Answers(w)
      BY <1>1, <2>1, AnswerIsFencedWrite, FencedWriteKeepsFence
    <2>2. CASE Release(w) /\ UNCHANGED <<jobs, aiOutbox, chunks, dlq>>
      <3>1. QuietStep
        BY <2>2 DEF QuietStep, Release, Idle, Inv, Typed, QueueTypeOK
      <3>2. QED
        BY <1>1, <3>1, QuietStepKeepsFence
    <2>3. QED
      BY <1>8, <2>1, <2>2, OutcomeAnswersOrDrops
  <1>9. ASSUME NEW d \in Documents, RequeueExpired(d)
        PROVE  AttemptFence'
    BY <1>1, <1>9, RequeueKeepsFence
  <1>10. QED
    BY <1>2, <1>3, <1>4, <1>5, <1>6, <1>7, <1>8, <1>9 DEF QueueStep, LoopOrTime, LoopStep

\* The attempt number is a fence: at any time at most one loop's claim is the
\* row's, and every published result belongs to an attempt the row has left.
THEOREM QueueFences == QueueSpec => []AttemptFence
  <1>1. Inv => AttemptFence
    BY DEF Inv
  <1>2. QED
    BY <1>1, InvInit, InvStep, NextIsQueueStep, PTL DEF QueueSpec

=============================================================================
