------------------------- MODULE QueueOutcomeProofs -------------------------
(***************************************************************************)
(* What the attempt fence gives the readers of the result log, the chunks  *)
(* and the DLQ, and that the queue implements JobOutcomes.  What Retry and *)
(* the retry columns of ai.processing_jobs give a job: it is due whenever  *)
(* it has all its retries ahead of it, and the technical failures of one   *)
(* arming are counted, until the job's first DLQ row.                      *)
(***************************************************************************)
EXTENDS ProcessingQueueProofs, SequenceTheorems

(***************************************************************************)
(* The steps of the queue, seen by its readers                             *)
(***************************************************************************)

\* Enqueue inserts the job or takes it out of FAILED.
Arms(d) ==
    /\ jobs[d].status \in {"ABSENT", "FAILED"}
    /\ jobs'[d].status = "PENDING"
    /\ \A e \in Documents : e # d => jobs'[e] = jobs[e]

\* A row moves between PENDING and RUNNING or keeps its status.
KeepsPhases ==
    \A d \in Documents :
        \/ jobs'[d].status = jobs[d].status
        \/ /\ jobs[d].status \in {"PENDING", "RUNNING"}
           /\ jobs'[d].status \in {"PENDING", "RUNNING"}

\* A quiet step moves no job in its life cycle.
LEMMA QuietStepKeepsPhases == QuietStep => KeepsPhases
  BY DEF QuietStep, KeepsPhases

\* A claim takes a PENDING or expired RUNNING row, both open work.
LEMMA ClaimKeepsPhases ==
    ASSUME Inv, NEW w \in Workers, Claim(w)
    PROVE  KeepsPhases
  <1>1. PICK d \in Documents :
           /\ Claimable(d)
           /\ LET attempt == jobs[d].attempts + 1 IN
              jobs' = [jobs EXCEPT ![d].status = "RUNNING", ![d].attempts = attempt,
                                   ![d].lease = attempt, ![d].leaseLive = TRUE]
    BY DEF Claim
  <1>2. jobs \in [Documents -> JobRow] /\ jobs[d] \in JobRow
    BY DEF Inv, Typed, QueueTypeOK
  <1>3. jobs'[d].status = "RUNNING"
    BY <1>1, <1>2 DEF JobRow
  <1>4. \A e \in Documents : e # d => jobs'[e] = jobs[e]
    BY <1>1, <1>2
  <1>5. jobs[d].status \in {"PENDING", "RUNNING"}
    BY <1>1 DEF Claimable
  <1>6. QED
    BY <1>3, <1>4, <1>5 DEF KeepsPhases

\* An expired claim handed back is open work as before.
LEMMA RequeueKeepsPhases ==
    ASSUME Inv, NEW d \in Documents, RequeueExpired(d)
    PROVE  KeepsPhases
  <1>1. jobs \in [Documents -> JobRow] /\ jobs[d] \in JobRow
    BY DEF Inv, Typed, QueueTypeOK
  <1>2. /\ jobs'[d].status = "PENDING"
        /\ \A e \in Documents : e # d => jobs'[e] = jobs[e]
    BY <1>1 DEF RequeueExpired, JobRow
  <1>3. QED
    BY <1>2 DEF RequeueExpired, KeepsPhases

\* A technical retry keeps its job open.
LEMMA ScheduleRetryKeepsPhases ==
    ASSUME Inv, NEW w \in Workers, Retry(w), ScheduleRetry(w)
    PROVE  KeepsPhases
  <1> DEFINE d == worker[w].doc
  <1>1. /\ d \in Documents
        /\ jobs \in [Documents -> JobRow]
        /\ jobs[d] \in JobRow
    BY DEF Retry, Inv, Typed, QueueTypeOK, BusyLoopsHaveDocuments
  <1>2. /\ jobs'[d].status = "PENDING"
        /\ \A e \in Documents : e # d => jobs'[e] = jobs[e]
    BY <1>1 DEF ScheduleRetry, JobRow
  <1>3. jobs[d].status = "RUNNING"
    BY DEF ScheduleRetry, FencedLive, Fenced
  <1>4. QED
    BY <1>2, <1>3 DEF KeepsPhases

\* Enqueue arms the job, or its ON CONFLICT clause leaves the row alone.
LEMMA EnqueueArmsOrKeeps ==
    ASSUME Inv, NEW d \in Documents, Enqueue(d)
    PROVE  Arms(d) \/ KeepsPhases
  <1>1. jobs \in [Documents -> JobRow] /\ jobs[d] \in JobRow
    BY DEF Inv, Typed, QueueTypeOK
  <1>2. CASE InsertJob(d)
    BY <1>1, <1>2 DEF InsertJob, NoRow, Arms
  <1>3. CASE RearmJob(d)
    BY <1>1, <1>3 DEF RearmJob, JobRow, Arms
  <1>4. CASE IgnoreJob(d)
    BY <1>4 DEF IgnoreJob, KeepsPhases
  <1>5. QED
    BY <1>2, <1>3, <1>4 DEF Enqueue

\* A step of a loop, or time, either answers, or leaves log, chunks and DLQ alone
\* and moves no job in its life cycle.
LEMMA LoopKinds ==
    ASSUME Inv, LoopOrTime
    PROVE  \/ \E w \in Workers : Answers(w)
           \/ UNCHANGED <<aiOutbox, chunks, dlq>> /\ KeepsPhases
  <1> DEFINE Goal == \/ \E w \in Workers : Answers(w)
                     \/ UNCHANGED <<aiOutbox, chunks, dlq>> /\ KeepsPhases
  <1>1. ASSUME NEW d \in Documents, Passage(d) \/ LeaseOutrun(d)
        PROVE  Goal
    <2>1. KeepsPhases
      BY <1>1, TimeIsQuiet, QuietStepKeepsPhases DEF Inv
    <2>2. QED
      BY <1>1, <2>1 DEF Passage, LeaseRunsOut, RetryDue, LeaseOutrun
  <1>2. ASSUME NEW w \in Workers, Claim(w)
        PROVE  Goal
    BY <1>2, ClaimKeepsPhases DEF Claim
  <1>3. ASSUME NEW w \in Workers,
               \/ SourceFound(w) \/ SourceMissing(w) \/ ProcessingFails(w)
               \/ BeginPersist(w) \/ LockRow(w) \/ Fault(w)
        PROVE  Goal
    <2>1. UNCHANGED <<jobs, aiOutbox, chunks, dlq>>
      BY <1>3 DEF SourceFound, SourceMissing, ProcessingFails, BeginPersist, LockRow,
                  Fault, PersistError, Crash
    <2>2. QED
      BY <2>1 DEF KeepsPhases
  <1>4. ASSUME NEW w \in Workers, Retry(w)
        PROVE  Goal
    <2>1. UNCHANGED <<aiOutbox, chunks, dlq>>
      BY <1>4 DEF Retry
    <2>2. KeepsPhases
      <3>1. CASE ScheduleRetry(w)
        BY <1>4, <3>1, ScheduleRetryKeepsPhases
      <3>2. CASE ExhaustRetries(w) \/ RetryLosesFence(w)
        BY <3>2 DEF ExhaustRetries, RetryLosesFence, KeepsPhases
      <3>3. QED
        BY <1>4, <3>1, <3>2 DEF Retry
    <2>3. QED
      BY <2>1, <2>2
  <1>5. ASSUME NEW w \in Workers, CommitPersist(w) \/ Fail(w) \/ DeadLetter(w)
        PROVE  Goal
    BY <1>5, OutcomeAnswersOrDrops DEF KeepsPhases
  <1>6. ASSUME NEW d \in Documents, RequeueExpired(d)
        PROVE  Goal
    BY <1>6, RequeueKeepsPhases DEF RequeueExpired
  <1>7. QED
    BY <1>1, <1>2, <1>3, <1>4, <1>5, <1>6 DEF LoopOrTime, LoopStep

\* A step either answers, or leaves log, chunks and DLQ alone and at most arms.
LEMMA StepKinds ==
    ASSUME Inv, [QueueStep]_queueVars
    PROVE  \/ \E w \in Workers : Answers(w)
           \/ /\ UNCHANGED <<aiOutbox, chunks, dlq>>
              /\ KeepsPhases \/ \E d \in Documents : Arms(d)
  <1>1. CASE UNCHANGED queueVars
    BY <1>1 DEF queueVars, KeepsPhases
  <1>2. ASSUME NEW d \in Documents, Enqueue(d)
        PROVE  UNCHANGED <<aiOutbox, chunks, dlq>> /\ (KeepsPhases \/ Arms(d))
    BY <1>2, EnqueueArmsOrKeeps DEF Enqueue
  <1>3. QED
    BY <1>1, <1>2, LoopKinds DEF QueueStep

(***************************************************************************)
(* The result log                                                          *)
(***************************************************************************)

Outcomes == OneOutcomePerAttempt /\ ReadyIsFinal /\ ReadyChunksAreStored

\* Where an answer finds the log: no result of the document is READY, none is of
\* this attempt, and the row takes the status the result names.
LEMMA AnswerFindsNone ==
    ASSUME Inv, Outcomes, NEW w \in Workers, Answers(w)
    PROVE  LET n == Len(aiOutbox) + 1 d == worker[w].doc IN
           /\ Len(aiOutbox) \in Nat
           /\ DOMAIN aiOutbox = 1..Len(aiOutbox)
           /\ Len(aiOutbox') = n
           /\ DOMAIN aiOutbox' = 1..n
           /\ \A i \in DOMAIN aiOutbox :
                /\ aiOutbox'[i] = aiOutbox[i]
                /\ aiOutbox[i].doc = d =>
                     /\ aiOutbox[i].attempt # worker[w].attempt
                     /\ aiOutbox[i].status # "READY"
           /\ d \in Documents
           /\ jobs[d].status = "RUNNING"
           /\ aiOutbox'[n].doc = d
           /\ aiOutbox'[n].attempt = worker[w].attempt
           /\ \/ /\ aiOutbox'[n].status = "READY"
                 /\ jobs'[d].status = "COMPLETED"
                 /\ chunks'[d] = worker[w].attempt
              \/ /\ aiOutbox'[n].status = "FAILED"
                 /\ jobs'[d].status = "FAILED"
                 /\ UNCHANGED chunks
           /\ \A e \in Documents : e # d => /\ jobs'[e] = jobs[e]
                                            /\ chunks'[e] = chunks[e]
  <1> DEFINE n == Len(aiOutbox) + 1
             d == worker[w].doc
  <1>1. /\ d \in Documents
        /\ jobs \in [Documents -> JobRow]
        /\ jobs[d] \in JobRow
        /\ chunks \in [Documents -> Nat]
        /\ worker[w].pc # "idle"
    BY DEF Answers, Inv, Typed, QueueTypeOK, BusyLoopsHaveDocuments
  <1>2. jobs[d].status = "RUNNING" /\ jobs[d].attempts = worker[w].attempt
    BY DEF Answers, Fenced
  <1>3. PICK status \in {"READY", "FAILED"}, questions \in {"Valid", "Rejected", "None"} :
           /\ Publish(w, status, questions)
           /\ \/ /\ status = "READY"
                 /\ Settle(d, "COMPLETED")
                 /\ chunks' = [chunks EXCEPT ![d] = worker[w].attempt]
              \/ /\ status = "FAILED"
                 /\ Settle(d, "FAILED")
                 /\ UNCHANGED chunks
    BY DEF Answers
  <1>4. /\ Len(aiOutbox) \in Nat
        /\ DOMAIN aiOutbox = 1..Len(aiOutbox)
        /\ Len(aiOutbox') = n
        /\ DOMAIN aiOutbox' = 1..n
        /\ \A i \in DOMAIN aiOutbox : aiOutbox'[i] = aiOutbox[i]
        /\ aiOutbox'[n].doc = d
        /\ aiOutbox'[n].attempt = worker[w].attempt
        /\ aiOutbox'[n].status = status
    BY <1>1, <1>3, PublishAppends
  <1>5. \A i \in DOMAIN aiOutbox :
           aiOutbox[i].doc = d => /\ aiOutbox[i].attempt # worker[w].attempt
                                  /\ aiOutbox[i].status # "READY"
    BY <1>2 DEF Inv, AttemptFence, OutcomesArePast, Outcomes, ReadyIsFinal
  <1>6. /\ \/ /\ status = "READY"
              /\ jobs'[d].status = "COMPLETED"
              /\ chunks'[d] = worker[w].attempt
           \/ /\ status = "FAILED"
              /\ jobs'[d].status = "FAILED"
              /\ UNCHANGED chunks
        /\ \A e \in Documents : e # d => jobs'[e] = jobs[e] /\ chunks'[e] = chunks[e]
    BY <1>1, <1>3 DEF Settle, JobRow
  <1>7. QED
    BY <1>1, <1>2, <1>4, <1>5, <1>6

\* An answer is the first of its attempt and finds no READY result before it.
LEMMA AnswerKeepsOutcomes ==
    ASSUME Inv, Outcomes, NEW w \in Workers, Answers(w)
    PROVE  Outcomes'
  <1> DEFINE n == Len(aiOutbox) + 1
             d == worker[w].doc
  <1>1. /\ Len(aiOutbox) \in Nat
        /\ DOMAIN aiOutbox = 1..Len(aiOutbox)
        /\ DOMAIN aiOutbox' = 1..n
        /\ \A i \in DOMAIN aiOutbox :
             /\ aiOutbox'[i] = aiOutbox[i]
             /\ aiOutbox[i].doc = d =>
                  /\ aiOutbox[i].attempt # worker[w].attempt
                  /\ aiOutbox[i].status # "READY"
        /\ aiOutbox'[n].doc = d
        /\ aiOutbox'[n].attempt = worker[w].attempt
        /\ \/ /\ aiOutbox'[n].status = "READY"
              /\ jobs'[d].status = "COMPLETED"
              /\ chunks'[d] = worker[w].attempt
           \/ aiOutbox'[n].status = "FAILED"
        /\ \A e \in Documents : e # d => jobs'[e] = jobs[e] /\ chunks'[e] = chunks[e]
    BY AnswerFindsNone
  <1>2. \A i \in DOMAIN aiOutbox' : i = n \/ i \in DOMAIN aiOutbox
    BY <1>1
  <1>3. \A i \in DOMAIN aiOutbox : aiOutbox[i].doc \in Documents /\ i < n /\ i \in Nat
    <2> SUFFICES ASSUME NEW i \in DOMAIN aiOutbox
                 PROVE  aiOutbox[i].doc \in Documents /\ i < n /\ i \in Nat
      OBVIOUS
    <2>1. aiOutbox[i] \in Event
      BY DEF Inv, Typed, QueueTypeOK
    <2>2. QED
      BY <1>1, <2>1 DEF Event
  <1>4. OneOutcomePerAttempt'
    <2> SUFFICES ASSUME NEW i \in DOMAIN aiOutbox', NEW k \in DOMAIN aiOutbox',
                        aiOutbox'[i].doc = aiOutbox'[k].doc,
                        aiOutbox'[i].attempt = aiOutbox'[k].attempt
                 PROVE  i = k
      BY DEF OneOutcomePerAttempt
    <2>1. CASE i \in DOMAIN aiOutbox /\ k \in DOMAIN aiOutbox
      BY <1>1, <2>1 DEF Outcomes, OneOutcomePerAttempt
    <2>2. CASE i = n \/ k = n
      BY <1>1, <1>2, <2>2
    <2>3. QED
      BY <1>2, <2>1, <2>2
  <1>5. ReadyIsFinal'
    <2> SUFFICES ASSUME NEW i \in DOMAIN aiOutbox', aiOutbox'[i].status = "READY"
                 PROVE  /\ jobs'[aiOutbox'[i].doc].status = "COMPLETED"
                        /\ \A k \in DOMAIN aiOutbox' :
                             k > i => aiOutbox'[k].doc # aiOutbox'[i].doc
      BY DEF ReadyIsFinal
    <2>1. CASE i = n
      BY <1>1, <2>1
    <2>2. CASE i \in DOMAIN aiOutbox
      <3>1. /\ aiOutbox'[i] = aiOutbox[i]
            /\ aiOutbox[i].doc # d
            /\ aiOutbox[i].doc \in Documents
            /\ aiOutbox[i].status = "READY"
        BY <1>1, <1>3, <2>2
      <3>2. jobs'[aiOutbox[i].doc].status = "COMPLETED"
        BY <1>1, <2>2, <3>1 DEF Outcomes, ReadyIsFinal
      <3>3. ASSUME NEW k \in DOMAIN aiOutbox', k > i
            PROVE  aiOutbox'[k].doc # aiOutbox[i].doc
        <4>1. CASE k = n
          BY <1>1, <3>1, <4>1
        <4>2. CASE k \in DOMAIN aiOutbox
          BY <1>1, <2>2, <3>1, <3>3, <4>2 DEF Outcomes, ReadyIsFinal
        <4>3. QED
          BY <1>2, <4>1, <4>2
      <3>4. QED
        BY <3>1, <3>2, <3>3
    <2>3. QED
      BY <1>2, <2>1, <2>2
  <1>6. ReadyChunksAreStored'
    <2> SUFFICES ASSUME NEW i \in DOMAIN aiOutbox', aiOutbox'[i].status = "READY"
                 PROVE  chunks'[aiOutbox'[i].doc] = aiOutbox'[i].attempt
      BY DEF ReadyChunksAreStored
    <2>1. CASE i = n
      BY <1>1, <2>1
    <2>2. CASE i \in DOMAIN aiOutbox
      <3>1. /\ aiOutbox'[i] = aiOutbox[i]
            /\ aiOutbox[i].doc # d
            /\ aiOutbox[i].doc \in Documents
        BY <1>1, <1>3, <2>2
      <3>2. QED
        BY <1>1, <2>2, <3>1 DEF Outcomes, ReadyChunksAreStored
    <2>3. QED
      BY <1>2, <2>1, <2>2
  <1>7. QED
    BY <1>4, <1>5, <1>6 DEF Outcomes

\* Every other step leaves the log alone and no COMPLETED row.
LEMMA OutcomesStep == Inv /\ Outcomes /\ [QueueStep]_queueVars => Outcomes'
  <1> SUFFICES ASSUME Inv, Outcomes, [QueueStep]_queueVars PROVE Outcomes'
    OBVIOUS
  <1>1. CASE \E w \in Workers : Answers(w)
    BY <1>1, AnswerKeepsOutcomes
  <1>2. CASE /\ UNCHANGED <<aiOutbox, chunks, dlq>>
             /\ KeepsPhases \/ \E d \in Documents : Arms(d)
    <2>1. \A d \in Documents : jobs[d].status = "COMPLETED" => jobs'[d].status = "COMPLETED"
      BY <1>2 DEF KeepsPhases, Arms
    <2>2. \A i \in DOMAIN aiOutbox : aiOutbox[i].doc \in Documents
      <3> SUFFICES ASSUME NEW i \in DOMAIN aiOutbox PROVE aiOutbox[i].doc \in Documents
        OBVIOUS
      <3>1. aiOutbox[i] \in Event
        BY DEF Inv, Typed, QueueTypeOK
      <3>2. QED
        BY <3>1 DEF Event
    <2>3. QED
      BY <1>2, <2>1, <2>2
         DEF Outcomes, OneOutcomePerAttempt, ReadyIsFinal, ReadyChunksAreStored
  <1>3. QED
    BY <1>1, <1>2, StepKinds

\* The log starts empty.
LEMMA OutcomesInit == QueueInit => Outcomes
  BY DEF QueueInit, Outcomes, OneOutcomePerAttempt, ReadyIsFinal, ReadyChunksAreStored

\* The fence and the log together.
LEMMA QueueInvariant == QueueSpec => [](Inv /\ Outcomes)
  BY InvInit, InvStep, OutcomesInit, OutcomesStep, NextIsQueueStep, PTL DEF QueueSpec

\* No two result rows stem from the same claim, whichever loops hold copies of
\* the job and wherever each of them stops.
THEOREM AtMostOneOutcome == QueueSpec => []OneOutcomePerAttempt
  <1>1. Outcomes => OneOutcomePerAttempt
    BY DEF Outcomes
  <1>2. QED
    BY <1>1, QueueInvariant, PTL

\* Nothing follows a READY result: not a later attempt, not a later result.
THEOREM ReadyIsLast == QueueSpec => []ReadyIsFinal
  <1>1. Outcomes => ReadyIsFinal
    BY DEF Outcomes
  <1>2. QED
    BY <1>1, QueueInvariant, PTL

\* The stored chunks are those of the READY attempt: a fenced-off loop's
\* transaction takes its chunks back with it.
THEOREM ReadyKeepsItsChunks == QueueSpec => []ReadyChunksAreStored
  <1>1. Outcomes => ReadyChunksAreStored
    BY DEF Outcomes
  <1>2. QED
    BY <1>1, QueueInvariant, PTL

(***************************************************************************)
(* The dead-letter queue                                                   *)
(***************************************************************************)

\* A DLQ row comes with its FAILED result; the log only grows.
LEMMA AnswerKeepsDeadLetters ==
    ASSUME Inv, Outcomes, DeadLetterHasOutcome, NEW w \in Workers, Answers(w)
    PROVE  DeadLetterHasOutcome'
  <1> DEFINE n == Len(aiOutbox) + 1
             d == worker[w].doc
  <1>1. /\ Len(aiOutbox) \in Nat
        /\ DOMAIN aiOutbox = 1..Len(aiOutbox)
        /\ DOMAIN aiOutbox' = 1..n
        /\ \A i \in DOMAIN aiOutbox : aiOutbox'[i] = aiOutbox[i]
        /\ d \in Documents
        /\ aiOutbox'[n].doc = d
        /\ aiOutbox'[n].attempt = worker[w].attempt
        /\ \/ aiOutbox'[n].status = "READY" /\ jobs'[d].status = "COMPLETED"
           \/ aiOutbox'[n].status = "FAILED" /\ jobs'[d].status = "FAILED"
    BY AnswerFindsNone
  <1>2. \/ UNCHANGED dlq
        \/ /\ dlq' = [dlq EXCEPT ![d] = worker[w].attempt]
           /\ Settle(d, "FAILED")
    BY DEF Answers
  <1>3. ASSUME dlq' = [dlq EXCEPT ![d] = worker[w].attempt], Settle(d, "FAILED")
        PROVE  aiOutbox'[n].status = "FAILED"
    <2>1. jobs \in [Documents -> JobRow]
      BY DEF Inv, Typed, QueueTypeOK
    <2>2. jobs'[d].status = "FAILED"
      BY <1>1, <1>3, <2>1 DEF Settle, JobRow
    <2>3. QED
      BY <1>1, <2>2
  <1>4. SUFFICES ASSUME NEW e \in Documents, dlq'[e] # 0
                 PROVE  \E i \in DOMAIN aiOutbox' :
                          /\ aiOutbox'[i].doc = e
                          /\ aiOutbox'[i].attempt = dlq'[e]
                          /\ aiOutbox'[i].status = "FAILED"
    BY DEF DeadLetterHasOutcome
  <1>5. CASE dlq'[e] = dlq[e]
    <2>1. PICK i \in DOMAIN aiOutbox : /\ aiOutbox[i].doc = e
                                       /\ aiOutbox[i].attempt = dlq[e]
                                       /\ aiOutbox[i].status = "FAILED"
      BY <1>4, <1>5 DEF DeadLetterHasOutcome
    <2>2. i \in DOMAIN aiOutbox' /\ aiOutbox'[i] = aiOutbox[i]
      BY <1>1
    <2>3. QED
      BY <1>5, <2>1, <2>2
  <1>6. CASE dlq'[e] # dlq[e]
    <2>1. dlq \in [Documents -> Nat]
      BY DEF Inv, Typed, QueueTypeOK
    <2>2. /\ e = d
          /\ dlq'[e] = worker[w].attempt
          /\ aiOutbox'[n].status = "FAILED"
      BY <1>1, <1>2, <1>3, <1>6, <2>1
    <2>3. n \in DOMAIN aiOutbox'
      BY <1>1
    <2>4. QED
      BY <1>1, <2>2, <2>3
  <1>7. QED
    BY <1>5, <1>6

\* Whatever is in the DLQ was answered FAILED, in the same transaction.
THEOREM DeadLettersAreAnswered == QueueSpec => []DeadLetterHasOutcome
  <1>1. QueueInit => DeadLetterHasOutcome
    BY DEF QueueInit, DeadLetterHasOutcome
  <1>2. DeadLetterHasOutcome /\ (Inv /\ Outcomes) /\ [QueueStep]_queueVars
          => DeadLetterHasOutcome'
    <2> SUFFICES ASSUME DeadLetterHasOutcome, Inv, Outcomes, [QueueStep]_queueVars
                 PROVE  DeadLetterHasOutcome'
      OBVIOUS
    <2>1. CASE \E w \in Workers : Answers(w)
      BY <2>1, AnswerKeepsDeadLetters
    <2>2. CASE UNCHANGED <<aiOutbox, chunks, dlq>>
      BY <2>2 DEF DeadLetterHasOutcome
    <2>3. QED
      BY <2>1, <2>2, StepKinds
  <1>3. QED
    BY <1>1, <1>2, QueueInvariant, NextIsQueueStep, PTL DEF QueueSpec

(***************************************************************************)
(* Who writes                                                              *)
(***************************************************************************)

\* A step of loop v.
ActsAlone(v) ==
    \/ Claim(v) \/ SourceFound(v) \/ SourceMissing(v) \/ LoopStep(v) \/ Fault(v)

\* It moves no other loop, and itself always.
LEMMA OneLoopMoves ==
    ASSUME Inv, NEW v \in Workers, ActsAlone(v)
    PROVE  /\ \A w \in Workers : w # v => worker'[w] = worker[w]
           /\ worker'[v] # worker[v]
  <1>1. worker \in [Workers -> LoopState]
    BY DEF Inv, Typed, QueueTypeOK
  <1>2. \E state : worker' = [worker EXCEPT ![v] = state] /\ state # worker[v]
    <2>1. worker[v] \in LoopState
      BY <1>1
    <2>2. ASSUME NEW pc, Goto(v, pc), pc # worker[v].pc
          PROVE  \E state : worker' = [worker EXCEPT ![v] = state] /\ state # worker[v]
      <3>1. worker' = [worker EXCEPT ![v] = [worker[v] EXCEPT !.pc = pc]]
        BY <2>2 DEF Goto
      <3>2. [worker[v] EXCEPT !.pc = pc] # worker[v]
        BY <2>1, <2>2 DEF LoopState
      <3>3. QED
        BY <3>1, <3>2
    <2>3. ASSUME Release(v), worker[v].pc # "idle"
          PROVE  \E state : worker' = [worker EXCEPT ![v] = state] /\ state # worker[v]
      <3>1. worker' = [worker EXCEPT ![v] = Idle]
        BY <2>3 DEF Release
      <3>2. Idle # worker[v]
        BY <2>3 DEF Idle
      <3>3. QED
        BY <3>1, <3>2
    <2>4. ASSUME NEW failure, worker[v].pc # "failing",
                 worker' = [worker EXCEPT ![v].pc = "failing", ![v].failure = failure]
          PROVE  \E state : worker' = [worker EXCEPT ![v] = state] /\ state # worker[v]
      <3>1. worker' = [worker EXCEPT ![v] = [worker[v] EXCEPT !.pc = "failing",
                                                             !.failure = failure]]
        BY <1>1, <2>4
      <3>2. [worker[v] EXCEPT !.pc = "failing", !.failure = failure] # worker[v]
        BY <2>1, <2>4 DEF LoopState
      <3>3. QED
        BY <3>1, <3>2
    <2>5. CASE Claim(v)
      <3>1. worker[v].pc = "idle"
        BY <2>5 DEF Claim
      <3>2. PICK d \in Documents :
              worker' = [worker EXCEPT ![v] =
                           [pc |-> "claimed", doc |-> d, attempt |-> jobs[d].attempts + 1,
                            lease |-> jobs[d].attempts + 1, failure |-> "None"]]
        BY <2>5 DEF Claim
      <3> DEFINE claimed == [pc |-> "claimed", doc |-> d, attempt |-> jobs[d].attempts + 1,
                             lease |-> jobs[d].attempts + 1, failure |-> "None"]
      <3>3. claimed.pc = "claimed"
        OBVIOUS
      <3>4. claimed # worker[v]
        BY <3>1, <3>3
      <3>5. QED
        BY <3>2, <3>4
    <2>6. CASE SourceFound(v)
      BY <2>2, <2>6 DEF SourceFound
    <2>7. CASE SourceMissing(v) \/ ProcessingFails(v) \/ PersistError(v)
      BY <2>4, <2>7 DEF SourceMissing, ProcessingFails, PersistError
    <2>8. CASE BeginPersist(v) \/ LockRow(v)
      BY <2>2, <2>3, <2>8 DEF BeginPersist, LockRow
    <2>9. CASE CommitPersist(v) \/ Fail(v) \/ DeadLetter(v) \/ Crash(v)
      BY <2>3, <2>9 DEF CommitPersist, Fail, DeadLetter, Crash
    <2>10. CASE Retry(v)
      BY <2>2, <2>3, <2>10 DEF Retry, ScheduleRetry, ExhaustRetries, RetryLosesFence
    <2>11. QED
      BY <2>5, <2>6, <2>7, <2>8, <2>9, <2>10 DEF ActsAlone, LoopStep, Fault
  <1>3. QED
    BY <1>1, <1>2

\* What loop v records it records of its own document, under the current claim.
LEMMA LoopWritesUnderClaim ==
    ASSUME Inv, NEW v \in Workers, ActsAlone(v)
    PROVE  /\ worker[v].pc # "idle" /\ ~ClaimIsCurrent(v)
                 => UNCHANGED <<jobs, chunks, dlq, aiOutbox>>
           /\ \A d \in Documents :
                 Recorded(d) => worker[v].pc # "idle" /\ ClaimIsCurrent(v) /\ worker[v].doc = d
  <1> DEFINE own == worker[v].doc
             Goal == /\ worker[v].pc # "idle" /\ ~ClaimIsCurrent(v)
                           => UNCHANGED <<jobs, chunks, dlq, aiOutbox>>
                     /\ \A d \in Documents :
                           Recorded(d) =>
                             worker[v].pc # "idle" /\ ClaimIsCurrent(v) /\ worker[v].doc = d
  <1>1. jobs \in [Documents -> JobRow] /\ chunks \in [Documents -> Nat]
        /\ dlq \in [Documents -> Nat] /\ aiOutbox \in Seq(Event)
    BY DEF Inv, Typed, QueueTypeOK
  <1>2. worker[v].pc # "idle" => own \in Documents
    BY DEF Inv, Typed, BusyLoopsHaveDocuments
  <1>3. CASE UNCHANGED <<jobs, chunks, dlq, aiOutbox>>
    BY <1>1, <1>3 DEF Recorded, JobRow
  <1>4. CASE Claim(v)
    <2>1. worker[v].pc = "idle" /\ UNCHANGED <<chunks, dlq, aiOutbox>>
      BY <1>4 DEF Claim
    <2>2. \A d \in Documents : jobs'[d].retries = jobs[d].retries
                               /\ (jobs'[d].status = jobs[d].status \/ jobs'[d].status = "RUNNING")
      BY <1>1, <1>4 DEF Claim, JobRow
    <2>3. \A d \in Documents : ~Recorded(d)
      BY <1>1, <2>1, <2>2 DEF Recorded, JobRow
    <2>4. QED
      BY <2>1, <2>3
  <1>5. ASSUME Answers(v)
        PROVE  Goal
    <2>1. worker[v].pc # "idle" /\ ClaimIsCurrent(v)
      BY <1>5 DEF Answers, Fenced, ClaimIsCurrent
    <2>2. PICK status, questions : Publish(v, status, questions)
      BY <1>5 DEF Answers
    <2>3. aiOutbox'[Len(aiOutbox')].doc = own
      BY <1>1, <2>2 DEF Publish
    <2>4. \A d \in Documents : d # own => jobs'[d] = jobs[d] /\ chunks'[d] = chunks[d]
                                        /\ dlq'[d] = dlq[d]
      BY <1>1, <1>5 DEF Answers, Settle
    <2>5. \A d \in Documents : Recorded(d) => d = own
      BY <1>1, <2>3, <2>4 DEF Recorded, JobRow
    <2>6. QED
      BY <2>1, <2>5
  <1>6. ASSUME Retry(v), ScheduleRetry(v)
        PROVE  Goal
    <2>1. worker[v].pc # "idle" /\ ClaimIsCurrent(v)
      BY <1>6 DEF Retry, ScheduleRetry, FencedLive, Fenced, ClaimIsCurrent
    <2>2. /\ UNCHANGED <<chunks, dlq, aiOutbox>>
          /\ \A d \in Documents : d # own => jobs'[d] = jobs[d]
      BY <1>1, <1>6 DEF Retry, ScheduleRetry
    <2>3. \A d \in Documents : Recorded(d) => d = own
      BY <1>1, <2>2 DEF Recorded, JobRow
    <2>4. QED
      BY <2>1, <2>3
  <1>7. CASE SourceFound(v) \/ SourceMissing(v) \/ ProcessingFails(v) \/ BeginPersist(v)
             \/ LockRow(v) \/ Fault(v)
    BY <1>3, <1>7 DEF SourceFound, SourceMissing, ProcessingFails, BeginPersist, LockRow,
                      Fault, PersistError, Crash
  <1>8. CASE Retry(v) /\ ~ScheduleRetry(v)
    BY <1>3, <1>8 DEF Retry, ExhaustRetries, RetryLosesFence
  <1>9. CASE CommitPersist(v) \/ Fail(v) \/ DeadLetter(v)
    BY <1>3, <1>5, <1>9, OutcomeAnswersOrDrops
  <1>10. QED
    BY <1>4, <1>6, <1>7, <1>8, <1>9 DEF ActsAlone, LoopStep

\* Callers, time and the detector of expired leases record nothing.
LEMMA OthersRecordNothing ==
    ASSUME Inv, NEW e \in Documents,
           Enqueue(e) \/ Passage(e) \/ LeaseOutrun(e) \/ RequeueExpired(e)
    PROVE  UNCHANGED worker /\ \A d \in Documents : ~Recorded(d)
  <1>1. jobs \in [Documents -> JobRow]
    BY DEF Inv, Typed, QueueTypeOK
  <1>2. UNCHANGED <<worker, aiOutbox, chunks, dlq>>
    BY DEF Enqueue, Passage, LeaseRunsOut, RetryDue, LeaseOutrun, RequeueExpired
  <1>3. \A d \in Documents :
            /\ jobs'[d].retries = jobs[d].retries \/ jobs'[d].retries = 0
            /\ jobs'[d].status = jobs[d].status \/ jobs'[d].status = "PENDING"
    <2>1. CASE InsertJob(e)
      BY <1>1, <2>1 DEF InsertJob, NoRow
    <2>2. CASE RearmJob(e)
      BY <1>1, <2>2 DEF RearmJob, JobRow
    <2>3. CASE IgnoreJob(e)
      BY <2>3 DEF IgnoreJob
    <2>4. CASE Passage(e) \/ LeaseOutrun(e)
      BY <1>1, <2>4 DEF Passage, LeaseRunsOut, RetryDue, LeaseOutrun, JobRow
    <2>5. CASE RequeueExpired(e)
      BY <1>1, <2>5 DEF RequeueExpired, JobRow
    <2>6. QED
      BY <2>1, <2>2, <2>3, <2>4, <2>5 DEF Enqueue
  <1>4. \A d \in Documents : ~Recorded(d)
    BY <1>1, <1>2, <1>3 DEF Recorded, JobRow
  <1>5. QED
    BY <1>2, <1>4

\* A loop that lost its claim writes neither row nor chunks, dead letter nor
\* result, and only the loop under a document's current claim records what
\* became of it: the fences of PersistAndComplete, Fail, Retry and
\* finalizeWithDLQ, for any number of loops.
THEOREM OnlyTheClaimWrites == QueueSpec => WritesUnderCurrentClaim
  <1> DEFINE Step ==
          /\ \A w \in Workers :
                Works(w) /\ ~ClaimIsCurrent(w) => UNCHANGED <<jobs, chunks, dlq, aiOutbox>>
          /\ \A d \in Documents :
                Recorded(d) =>
                  \E w \in Workers : Works(w) /\ ClaimIsCurrent(w) /\ worker[w].doc = d
  <1>1. ASSUME Inv, QueueStep
        PROVE  Step
    <2>1. ASSUME NEW v \in Workers, ActsAlone(v)
          PROVE  Step
      <3>1. /\ \A w \in Workers : Works(w) => w = v
            /\ worker[v].pc # "idle" => Works(v)
        BY <1>1, <2>1, OneLoopMoves DEF Works
      <3>2. /\ worker[v].pc # "idle" /\ ~ClaimIsCurrent(v)
                  => UNCHANGED <<jobs, chunks, dlq, aiOutbox>>
            /\ \A d \in Documents :
                  Recorded(d) => worker[v].pc # "idle" /\ ClaimIsCurrent(v) /\ worker[v].doc = d
        BY <1>1, <2>1, LoopWritesUnderClaim
      <3>3. QED
        BY <3>1, <3>2 DEF Works
    <2>2. ASSUME NEW e \in Documents,
                 Enqueue(e) \/ Passage(e) \/ LeaseOutrun(e) \/ RequeueExpired(e)
          PROVE  Step
      <3>1. UNCHANGED worker /\ \A d \in Documents : ~Recorded(d)
        BY <1>1, <2>2, OthersRecordNothing
      <3>2. QED
        BY <3>1 DEF Works
    <2>3. QED
      BY <1>1, <2>1, <2>2 DEF QueueStep, LoopOrTime, ActsAlone
  <1>2. Inv /\ [QueueStep]_queueVars => [Step]_queueVars
    BY <1>1
  <1>3. QueueSpec => []Inv
    BY InvInit, InvStep, NextIsQueueStep, PTL DEF QueueSpec
  <1>4. QED
    BY <1>2, <1>3, NextIsQueueStep, PTL DEF QueueSpec, WritesUnderCurrentClaim

(***************************************************************************)
(* Refinement of JobOutcomes                                               *)
(***************************************************************************)

AbstractEvent == [doc : Documents, outcome : {"READY", "FAILED"}]

AbstractLog == [i \in DOMAIN aiOutbox |->
                  [doc |-> aiOutbox[i].doc, outcome |-> aiOutbox[i].status]]

AbstractPhase == [d \in Documents |-> PhaseOf(d)]

\* The abstract log is as long as the result log.
LEMMA AbstractLogIsSeq ==
    Inv => /\ AbstractLog \in Seq(AbstractEvent)
           /\ Len(AbstractLog) = Len(aiOutbox)
  <1> SUFFICES ASSUME Inv
               PROVE  /\ AbstractLog \in Seq(AbstractEvent)
                      /\ Len(AbstractLog) = Len(aiOutbox)
    OBVIOUS
  <1>1. /\ Len(aiOutbox) \in Nat
        /\ DOMAIN aiOutbox = 1..Len(aiOutbox)
    BY DEF Inv, Typed, QueueTypeOK
  <1>2. ASSUME NEW i \in 1..Len(aiOutbox)
        PROVE  [doc |-> aiOutbox[i].doc, outcome |-> aiOutbox[i].status] \in AbstractEvent
    <2>1. aiOutbox[i] \in Event
      BY <1>1 DEF Inv, Typed, QueueTypeOK
    <2>2. QED
      BY <2>1 DEF Event, AbstractEvent
  <1>3. AbstractLog \in [1..Len(aiOutbox) -> AbstractEvent]
    BY <1>1, <1>2 DEF AbstractLog
  <1>4. AbstractLog \in Seq(AbstractEvent)
    BY <1>1, <1>3, SeqDef
  <1>5. QED
    BY <1>1, <1>3, <1>4, LenProperties

\* The initial tables hold no work and no answer.
LEMMA RefinesInit == QueueInit => Promise!AbstractInit
  BY DEF QueueInit, Promise!AbstractInit, PhaseOf, NoRow

\* An answering step appends the answer to the abstract log.
LEMMA AnswerRefines ==
    ASSUME Inv, Inv', Outcomes, NEW w \in Workers, Answers(w)
    PROVE  \E d \in Documents, outcome \in {"READY", "FAILED"} :
             Promise!Answer(d, outcome)
  <1>0. PICK d \in Documents : d = worker[w].doc
    BY DEF Answers, Inv, Typed, BusyLoopsHaveDocuments
  <1> DEFINE n == Len(aiOutbox) + 1
             outcome == aiOutbox'[n].status
             entry == [doc |-> d, outcome |-> outcome]
  <1>1. /\ Len(aiOutbox) \in Nat
        /\ DOMAIN aiOutbox = 1..Len(aiOutbox)
        /\ DOMAIN aiOutbox' = 1..n
        /\ \A i \in DOMAIN aiOutbox : aiOutbox'[i] = aiOutbox[i]
        /\ jobs[d].status = "RUNNING"
        /\ aiOutbox'[n].doc = d
        /\ \/ outcome = "READY" /\ jobs'[d].status = "COMPLETED"
           \/ outcome = "FAILED" /\ jobs'[d].status = "FAILED"
        /\ \A e \in Documents : e # d => jobs'[e] = jobs[e]
    BY <1>0, AnswerFindsNone
  <1>2. AbstractPhase[d] = "open"
    BY <1>1 DEF AbstractPhase, PhaseOf
  <1>3. AbstractPhase' = [AbstractPhase EXCEPT ![d] = outcome]
    <2>1. /\ PhaseOf(d)' = outcome
          /\ \A e \in Documents : e # d => PhaseOf(e)' = PhaseOf(e)
      BY <1>1 DEF PhaseOf
    <2>2. QED
      BY <1>1, <2>1 DEF AbstractPhase
  <1>4. AbstractLog' = Append(AbstractLog, entry)
    <2>1. /\ AbstractLog \in Seq(AbstractEvent)
          /\ Len(AbstractLog) = Len(aiOutbox)
          /\ AbstractLog' \in Seq(AbstractEvent)
          /\ Len(AbstractLog') = n
      <3>1. (/\ AbstractLog \in Seq(AbstractEvent)
             /\ Len(AbstractLog) = Len(aiOutbox))'
        BY AbstractLogIsSeq, PTL
      <3>2. Len(aiOutbox') = n
        BY AnswerFindsNone
      <3>3. QED
        BY <3>1, <3>2, AbstractLogIsSeq
    <2>2. entry \in AbstractEvent
      BY <1>1 DEF AbstractEvent
    <2>3. /\ Append(AbstractLog, entry) \in Seq(AbstractEvent)
          /\ Len(Append(AbstractLog, entry)) = n
          /\ Append(AbstractLog, entry)[n] = entry
          /\ \A i \in 1..Len(aiOutbox) : Append(AbstractLog, entry)[i] = AbstractLog[i]
      BY <2>1, <2>2, AppendProperties
    <2>4. ASSUME NEW i \in 1..n
          PROVE  AbstractLog'[i] = Append(AbstractLog, entry)[i]
      <3>0. AbstractLog'[i] = [doc |-> aiOutbox'[i].doc, outcome |-> aiOutbox'[i].status]
        BY <1>1 DEF AbstractLog
      <3>1. CASE i = n
        BY <1>1, <2>3, <3>0, <3>1
      <3>2. CASE i \in 1..Len(aiOutbox)
        <4>1. AbstractLog[i] = [doc |-> aiOutbox[i].doc, outcome |-> aiOutbox[i].status]
          BY <1>1, <3>2 DEF AbstractLog
        <4>2. aiOutbox'[i] = aiOutbox[i]
          BY <1>1, <3>2
        <4>3. QED
          BY <2>3, <3>0, <3>2, <4>1, <4>2
      <3>3. i = n \/ i \in 1..Len(aiOutbox)
        <4>1. Len(aiOutbox) \in Nat
          BY <1>1
        <4>2. QED
          BY <4>1
      <3>4. QED
        BY <3>1, <3>2, <3>3
    <2>5. QED
      BY <2>1, <2>3, <2>4, SeqEqual
  <1>5. QED
    BY <1>1, <1>2, <1>3, <1>4 DEF Promise!Answer, AbstractLog, AbstractPhase

\* Every step answers, arms or stutters.
LEMMA RefinesStep ==
    ASSUME Inv, Inv', Outcomes, [QueueStep]_queueVars
    PROVE  [Promise!AbstractNext]_(Promise!abstractVars)
  <1>1. CASE \E w \in Workers : Answers(w)
    BY <1>1, AnswerRefines DEF Promise!AbstractNext
  <1>2. CASE UNCHANGED aiOutbox /\ KeepsPhases
    <2>1. UNCHANGED AbstractPhase
      <3>1. \A d \in Documents : PhaseOf(d)' = PhaseOf(d)
        BY <1>2 DEF KeepsPhases, PhaseOf
      <3>2. QED
        BY <3>1 DEF AbstractPhase
    <2>2. UNCHANGED AbstractLog
      BY <1>2 DEF AbstractLog
    <2>3. QED
      BY <2>1, <2>2 DEF Promise!abstractVars, AbstractPhase, AbstractLog
  <1>3. ASSUME UNCHANGED aiOutbox, NEW d \in Documents, Arms(d)
        PROVE  Promise!AbstractNext
    <2>1. AbstractPhase[d] \in {"none", "FAILED"}
      BY <1>3 DEF Arms, AbstractPhase, PhaseOf
    <2>2. AbstractPhase' = [AbstractPhase EXCEPT ![d] = "open"]
      <3>1. /\ PhaseOf(d)' = "open"
            /\ \A e \in Documents : e # d => PhaseOf(e)' = PhaseOf(e)
        BY <1>3 DEF Arms, PhaseOf
      <3>2. QED
        BY <1>3, <3>1 DEF AbstractPhase
    <2>3. UNCHANGED AbstractLog
      BY <1>3 DEF AbstractLog
    <2>4. Promise!Arm(d)
      BY <2>1, <2>2, <2>3 DEF Promise!Arm, AbstractPhase, AbstractLog
    <2>5. QED
      BY <2>4 DEF Promise!AbstractNext
  <1>4. QED
    BY <1>1, <1>2, <1>3, StepKinds

\* Behind the row's status and the log the queue is JobOutcomes: every arming is
\* answered at most once, and nothing is armed or answered after READY.
THEOREM QueueImplementsJobOutcomes == QueueSpec => ImplementsJobOutcomes
  <1>1. (Inv /\ Outcomes) /\ (Inv /\ Outcomes)' /\ [QueueStep]_queueVars
          => [Promise!AbstractNext]_(Promise!abstractVars)
    BY RefinesStep
  <1>2. QED
    BY <1>1, RefinesInit, QueueInvariant, NextIsQueueStep, PTL
       DEF QueueSpec, ImplementsJobOutcomes, Promise!AbstractSpec

(***************************************************************************)
(* A job is hidden only behind a retry delay                               *)
(***************************************************************************)

HiddenHasRetried ==
    \A d \in Documents :
        \/ jobs[d].visible
        \/ jobs[d].status = "ABSENT"
        \/ jobs[d].status = "PENDING" /\ jobs[d].retries # 0

\* A step leaves the row alone, or it is due, or it waits for a retry.
StaysDue(d) ==
    \/ jobs'[d] = jobs[d]
    \/ jobs'[d].visible
    \/ jobs'[d].status = "PENDING" /\ jobs'[d].retries # 0

\* Enqueue inserts a job that is due; a FAILED one was due when it was claimed.
LEMMA EnqueueStaysDue ==
    ASSUME Typed, HiddenHasRetried, NEW d \in Documents, Enqueue(d)
    PROVE  \A e \in Documents : StaysDue(e)
  <1>1. jobs \in [Documents -> JobRow] /\ jobs[d] \in JobRow
    BY DEF Typed, QueueTypeOK
  <1>2. CASE InsertJob(d)
    <2>1. jobs'[d].visible
      BY <1>1, <1>2 DEF InsertJob, NoRow
    <2>2. \A e \in Documents : e # d => jobs'[e] = jobs[e]
      BY <1>1, <1>2 DEF InsertJob
    <2>3. QED
      BY <2>1, <2>2 DEF StaysDue
  <1>3. CASE RearmJob(d)
    <2>1. jobs[d].visible
      BY <1>3 DEF RearmJob, HiddenHasRetried
    <2>2. jobs'[d].visible = jobs[d].visible
      BY <1>1, <1>3 DEF RearmJob, JobRow
    <2>3. \A e \in Documents : e # d => jobs'[e] = jobs[e]
      BY <1>1, <1>3 DEF RearmJob
    <2>4. QED
      BY <2>1, <2>2, <2>3 DEF StaysDue
  <1>4. CASE IgnoreJob(d)
    BY <1>4 DEF IgnoreJob, StaysDue
  <1>5. QED
    BY <1>2, <1>3, <1>4 DEF Enqueue

\* A claimed row was due or RUNNING, and a RUNNING row is not hidden.
LEMMA ClaimStaysDue ==
    ASSUME Typed, HiddenHasRetried, NEW w \in Workers, Claim(w)
    PROVE  \A e \in Documents : StaysDue(e)
  <1>1. PICK d \in Documents :
           /\ Claimable(d)
           /\ LET attempt == jobs[d].attempts + 1 IN
              jobs' = [jobs EXCEPT ![d].status = "RUNNING", ![d].attempts = attempt,
                                   ![d].lease = attempt, ![d].leaseLive = TRUE]
    BY DEF Claim
  <1>2. jobs \in [Documents -> JobRow] /\ jobs[d] \in JobRow
    BY DEF Typed, QueueTypeOK
  <1>3. jobs[d].visible
    BY <1>1 DEF Claimable, HiddenHasRetried
  <1>4. jobs'[d].visible = jobs[d].visible
    BY <1>1, <1>2 DEF JobRow
  <1>5. \A e \in Documents : e # d => jobs'[e] = jobs[e]
    BY <1>1, <1>2
  <1>6. QED
    BY <1>3, <1>4, <1>5 DEF StaysDue

\* Settling a RUNNING row leaves it as due as it is.
LEMMA SettleStaysDue ==
    ASSUME Typed, HiddenHasRetried, NEW w \in Workers, worker[w].pc # "idle", Fenced(w),
           NEW status \in Status, Settle(worker[w].doc, status)
    PROVE  \A e \in Documents : StaysDue(e)
  <1> DEFINE d == worker[w].doc
  <1>1. d \in Documents
    BY DEF Typed, BusyLoopsHaveDocuments
  <1>2. jobs \in [Documents -> JobRow] /\ jobs[d] \in JobRow
    BY <1>1 DEF Typed, QueueTypeOK
  <1>3. jobs[d].visible
    BY <1>1 DEF Fenced, HiddenHasRetried
  <1>4. jobs'[d].visible = jobs[d].visible
    BY <1>1, <1>2 DEF Settle, JobRow
  <1>5. \A e \in Documents : e # d => jobs'[e] = jobs[e]
    BY <1>1, <1>2 DEF Settle
  <1>6. QED
    BY <1>3, <1>4, <1>5 DEF StaysDue

\* Retry hides a job, and counts.
LEMMA RetryStaysDue ==
    ASSUME Typed, NEW w \in Workers, Retry(w)
    PROVE  \A e \in Documents : StaysDue(e)
  <1> DEFINE d == worker[w].doc
  <1>1. d \in Documents
    BY DEF Retry, Typed, BusyLoopsHaveDocuments
  <1>2. jobs \in [Documents -> JobRow] /\ jobs[d] \in JobRow /\ jobs[d].retries \in Nat
    BY <1>1 DEF Typed, QueueTypeOK, JobRow
  <1>3. CASE ScheduleRetry(w)
    <2>1. jobs'[d].status = "PENDING" /\ jobs'[d].retries = jobs[d].retries + 1
      BY <1>1, <1>2, <1>3 DEF ScheduleRetry, JobRow
    <2>2. \A e \in Documents : e # d => jobs'[e] = jobs[e]
      BY <1>1, <1>2, <1>3 DEF ScheduleRetry
    <2>3. QED
      BY <1>2, <2>1, <2>2 DEF StaysDue
  <1>4. CASE ExhaustRetries(w) \/ RetryLosesFence(w)
    BY <1>4 DEF ExhaustRetries, RetryLosesFence, StaysDue
  <1>5. QED
    BY <1>3, <1>4 DEF Retry

\* Leases run out under RUNNING rows; delays end; expired claims are due at once.
LEMMA TimeStaysDue ==
    ASSUME Typed, HiddenHasRetried, NEW d \in Documents,
           Passage(d) \/ LeaseOutrun(d) \/ RequeueExpired(d)
    PROVE  \A e \in Documents : StaysDue(e)
  <1>1. jobs \in [Documents -> JobRow] /\ jobs[d] \in JobRow
    BY DEF Typed, QueueTypeOK
  <1>2. \A e \in Documents : e # d => jobs'[e] = jobs[e]
    BY <1>1 DEF Passage, LeaseRunsOut, RetryDue, LeaseOutrun, RequeueExpired
  <1>3. CASE LeaseRunsOut(d) \/ LeaseOutrun(d)
    <2>1. jobs[d].visible
      BY <1>3 DEF LeaseRunsOut, LeaseOutrun, HiddenHasRetried
    <2>2. jobs'[d].visible = jobs[d].visible
      BY <1>1, <1>3 DEF LeaseRunsOut, LeaseOutrun, JobRow
    <2>3. QED
      BY <1>2, <2>1, <2>2 DEF StaysDue
  <1>4. CASE RetryDue(d) \/ RequeueExpired(d)
    <2>1. jobs'[d].visible
      BY <1>1, <1>4 DEF RetryDue, RequeueExpired, JobRow
    <2>2. QED
      BY <1>2, <2>1 DEF StaysDue
  <1>5. QED
    BY <1>3, <1>4 DEF Passage

\* Every step of the queue keeps hidden jobs behind their delays.
LEMMA HiddenStep == Inv /\ HiddenHasRetried /\ [QueueStep]_queueVars => HiddenHasRetried'
  <1> SUFFICES ASSUME Inv, HiddenHasRetried, [QueueStep]_queueVars
               PROVE  \A e \in Documents : StaysDue(e)
    BY DEF HiddenHasRetried, StaysDue
  <1> USE DEF Inv
  <1>1. CASE UNCHANGED jobs
    BY <1>1 DEF StaysDue
  <1>2. ASSUME NEW d \in Documents,
               Enqueue(d) \/ Passage(d) \/ LeaseOutrun(d) \/ RequeueExpired(d)
        PROVE  \A e \in Documents : StaysDue(e)
    BY <1>2, EnqueueStaysDue, TimeStaysDue
  <1>3. ASSUME NEW w \in Workers, CommitPersist(w) \/ Fail(w) \/ DeadLetter(w)
        PROVE  \A e \in Documents : StaysDue(e)
    <2>1. worker[w].pc # "idle"
      BY <1>3 DEF CommitPersist, Fail, DeadLetter
    <2>2. \/ UNCHANGED jobs
          \/ Fenced(w) /\ \E status \in {"COMPLETED", "FAILED"} :
                            Settle(worker[w].doc, status)
      BY <1>3 DEF CommitPersist, Fail, DeadLetter, FencedLive, AttemptFence, CommitHoldsRow
    <2>3. QED
      BY <1>1, <2>1, <2>2, SettleStaysDue DEF Status
  <1>4. ASSUME NEW w \in Workers, Claim(w) \/ Retry(w)
        PROVE  \A e \in Documents : StaysDue(e)
    BY <1>4, ClaimStaysDue, RetryStaysDue
  <1>5. ASSUME NEW w \in Workers,
               \/ SourceFound(w) \/ SourceMissing(w) \/ ProcessingFails(w)
               \/ BeginPersist(w) \/ LockRow(w) \/ Fault(w)
        PROVE  \A e \in Documents : StaysDue(e)
    <2>1. UNCHANGED jobs
      BY <1>5 DEF SourceFound, SourceMissing, ProcessingFails, BeginPersist, LockRow,
                  Fault, PersistError, Crash
    <2>2. QED
      BY <1>1, <2>1
  <1>6. QED
    BY <1>1, <1>2, <1>3, <1>4, <1>5 DEF QueueStep, LoopOrTime, LoopStep, queueVars

\* Enqueue does not write next_visible_at when it re-arms a job: the job is due
\* all the same.
THEOREM RearmedJobsAreDue == QueueSpec => []FreshArmIsDue
  <1>1. QueueInit => HiddenHasRetried
    BY DEF QueueInit, HiddenHasRetried, NoRow
  <1>2. HiddenHasRetried => FreshArmIsDue
    BY DEF HiddenHasRetried, FreshArmIsDue
  <1>3. QED
    BY <1>1, <1>2, HiddenStep, InvInit, InvStep, NextIsQueueStep, PTL DEF QueueSpec

(***************************************************************************)
(* The technical failures of an arming are counted                         *)
(***************************************************************************)

\* A loop stands between Retry and finalizeWithDLQ of d's job, under its claim.
LastChance(d) ==
    \E w \in Workers : worker[w].pc = "exhausted" /\ worker[w].doc = d /\ FencedLive(w)

\* A claim draws a number above 0.
ClaimsCount == \A w \in Workers : worker[w].pc # "idle" => worker[w].attempt > 0

WithinBudget == \A d \in Documents : jobs[d].retries <= MaxRetries

\* Every failure an arming has seen was counted by technical_retry_count, is the
\* one a loop is about to bury, or was buried by a fault.
Accounted(d) ==
    dlq[d] = 0 =>
        \/ reported[d] <= jobs[d].retries + mishaps
        \/ LastChance(d) /\ reported[d] <= jobs[d].retries + mishaps + 1

\* A row that does not exist has no failures behind it.
NoneBeforeInsert == \A d \in Documents : jobs[d].status = "ABSENT" => reported[d] = 0

RetryInv ==
    /\ ClaimsCount
    /\ WithinBudget
    /\ NoneBeforeInsert
    /\ \A d \in Documents : Accounted(d)

\* The ways a step may act on a job's count: no failure, with the last chance kept,
\* taken, or lost to a fault; a new arming; a counted retry; the last failure.
KeepsCount(d) ==
    /\ reported'[d] = reported[d]
    /\ jobs'[d].retries = jobs[d].retries
    /\ \/ mishaps' = mishaps + 1
       \/ mishaps' = mishaps /\ (LastChance(d) => LastChance(d)' \/ dlq'[d] # 0)
Restarts(d) ==
    /\ reported'[d] = 0
    /\ jobs'[d].retries = 0
    /\ mishaps' = mishaps
CountsRetry(d) ==
    /\ reported'[d] = reported[d] + 1
    /\ jobs'[d].retries = jobs[d].retries + 1
    /\ jobs[d].retries < MaxRetries
    /\ mishaps' = mishaps
    /\ ~LastChance(d)
CountsLast(d) ==
    /\ reported'[d] = reported[d] + 1
    /\ jobs'[d].retries = jobs[d].retries
    /\ mishaps' = mishaps
    /\ ~LastChance(d)
    /\ LastChance(d)'

Counts(d) ==
    /\ dlq'[d] = 0 => dlq[d] = 0
    /\ jobs'[d].status = "ABSENT" => jobs[d].status = "ABSENT" /\ reported'[d] = reported[d]
    /\ KeepsCount(d) \/ Restarts(d) \/ CountsRetry(d) \/ CountsLast(d)

\* A step that acts on the count in one of these ways keeps it.
LEMMA CountsKeepAccount ==
    ASSUME Typed, Typed', NEW d \in Documents, Counts(d), Accounted(d),
           jobs[d].retries <= MaxRetries
    PROVE  Accounted(d)' /\ jobs'[d].retries <= MaxRetries
  <1>1. /\ jobs[d].retries \in Nat /\ jobs'[d].retries \in Nat
        /\ reported[d] \in Nat /\ reported'[d] \in Nat
        /\ mishaps \in Nat /\ mishaps' \in Nat
        /\ MaxRetries \in Nat
    BY QueueAssumption DEF Typed, QueueTypeOK, JobRow
  <1>2. CASE KeepsCount(d)
    BY <1>1, <1>2 DEF KeepsCount, Counts, Accounted
  <1>3. CASE Restarts(d)
    BY <1>1, <1>3 DEF Restarts, Accounted
  <1>4. CASE CountsRetry(d)
    BY <1>1, <1>4 DEF CountsRetry, Counts, Accounted
  <1>5. CASE CountsLast(d)
    BY <1>1, <1>5 DEF CountsLast, Counts, Accounted
  <1>6. QED
    BY <1>2, <1>3, <1>4, <1>5 DEF Counts

\* A row and the exhausted loops that work on it are left alone.
LeavesAlone(d) ==
    /\ jobs'[d] = jobs[d]
    /\ reported'[d] = reported[d]
    /\ \A w \in Workers : worker[w].pc = "exhausted" /\ worker[w].doc = d
                            => worker'[w] = worker[w]

\* What is left alone keeps its last chance, ...
LEMMA LeftAloneKeepsCount ==
    ASSUME NEW d \in Documents, LeavesAlone(d), mishaps' = mishaps, dlq'[d] = dlq[d]
    PROVE  Counts(d)
  BY DEF LeavesAlone, Counts, KeepsCount, LastChance, FencedLive, Fenced

\* ... and two loops never share a live claim.
LEMMA OneClaimHolds ==
    ASSUME Inv, NEW v \in Workers, NEW w \in Workers,
           worker[v].pc # "idle", worker[w].pc # "idle",
           worker[v].doc = worker[w].doc, Fenced(v), Fenced(w)
    PROVE  v = w
  BY DEF Inv, AttemptFence, ClaimsAreDistinct, Fenced

\* Enqueue acts on rows that no loop holds.
LEMMA EnqueueCounts ==
    ASSUME Inv, NoneBeforeInsert, NEW d \in Documents, Enqueue(d)
    PROVE  \A e \in Documents : Counts(e)
  <1>1. /\ jobs \in [Documents -> JobRow] /\ jobs[d] \in JobRow
        /\ reported \in [Documents -> Nat]
    BY DEF Inv, Typed, QueueTypeOK
  <1>2. UNCHANGED <<worker, dlq, mishaps>>
    BY DEF Enqueue
  <1>3. ASSUME NEW e \in Documents, e # d PROVE Counts(e)
    <2>1. jobs'[e] = jobs[e] /\ reported'[e] = reported[e]
      BY <1>1, <1>3 DEF Enqueue, InsertJob, RearmJob, IgnoreJob
    <2>2. QED
      BY <1>2, <2>1, LeftAloneKeepsCount DEF LeavesAlone
  <1>4. Counts(d)
    <2>1. CASE InsertJob(d)
      <3>1. reported'[d] = 0
        BY <2>1 DEF InsertJob, NoneBeforeInsert
      <3>2. jobs'[d].retries = 0 /\ jobs'[d].status = "PENDING"
        BY <1>1, <2>1 DEF InsertJob, NoRow
      <3>3. QED
        BY <1>2, <3>1, <3>2 DEF Restarts, Counts
    <2>2. CASE RearmJob(d)
      <3>1. /\ jobs'[d].retries = 0
            /\ jobs'[d].status = "PENDING"
            /\ reported'[d] = 0
        BY <1>1, <2>2 DEF RearmJob, JobRow
      <3>2. QED
        BY <1>2, <3>1 DEF Restarts, Counts
    <2>3. CASE IgnoreJob(d)
      BY <1>2, <2>3, LeftAloneKeepsCount DEF IgnoreJob, LeavesAlone
    <2>4. QED
      BY <2>1, <2>2, <2>3 DEF Enqueue
  <1>5. QED
    BY <1>3, <1>4

\* A row is claimed when no live claim holds it.
LEMMA ClaimCounts ==
    ASSUME Inv, NEW w \in Workers, Claim(w)
    PROVE  \A e \in Documents : Counts(e)
  <1>1. PICK d \in Documents :
           /\ Claimable(d)
           /\ LET attempt == jobs[d].attempts + 1 IN
              jobs' = [jobs EXCEPT ![d].status = "RUNNING", ![d].attempts = attempt,
                                   ![d].lease = attempt, ![d].leaseLive = TRUE]
    BY DEF Claim
  <1>2. jobs \in [Documents -> JobRow] /\ jobs[d] \in JobRow
    BY DEF Inv, Typed, QueueTypeOK
  <1>3. /\ worker[w].pc = "idle"
        /\ UNCHANGED <<dlq, reported, mishaps>>
        /\ \A v \in Workers : v # w => worker'[v] = worker[v]
    BY DEF Claim, Inv, Typed, QueueTypeOK
  <1>4. ASSUME NEW e \in Documents, e # d PROVE Counts(e)
    <2>1. jobs'[e] = jobs[e]
      BY <1>1, <1>2, <1>4
    <2>2. QED
      BY <1>3, <2>1, LeftAloneKeepsCount DEF LeavesAlone
  <1>5. Counts(d)
    <2>1. ~LastChance(d)
      BY <1>1 DEF Claimable, LastChance, FencedLive, Fenced
    <2>2. jobs'[d].retries = jobs[d].retries /\ jobs'[d].status = "RUNNING"
      BY <1>1, <1>2 DEF JobRow
    <2>3. QED
      BY <1>3, <2>1, <2>2 DEF Counts, KeepsCount
  <1>6. QED
    BY <1>4, <1>5

\* The steps of a loop between its claim and its first fenced write.
LEMMA SilentCounts ==
    ASSUME Inv, NEW w \in Workers,
           \/ SourceFound(w) \/ SourceMissing(w) \/ ProcessingFails(w)
           \/ BeginPersist(w) \/ LockRow(w)
    PROVE  \A e \in Documents : Counts(e)
  <1>1. /\ UNCHANGED <<jobs, dlq, reported, mishaps>>
        /\ worker[w].pc \in {"claimed", "processing", "persisting"}
    BY DEF SourceFound, SourceMissing, ProcessingFails, BeginPersist, LockRow
  <1>2. \A v \in Workers : v # w => worker'[v] = worker[v]
    BY DEF SourceFound, SourceMissing, ProcessingFails, BeginPersist, LockRow,
           Goto, Release, Inv, Typed, QueueTypeOK
  <1>3. QED
    BY <1>1, <1>2, LeftAloneKeepsCount DEF LeavesAlone

\* A crash or a failed statement may take a last chance: it is counted itself.
LEMMA FaultCounts ==
    ASSUME Inv, NEW w \in Workers, Fault(w)
    PROVE  \A e \in Documents : Counts(e)
  <1>1. UNCHANGED <<jobs, dlq, reported>> /\ mishaps' = mishaps + 1
    BY DEF Fault, PersistError, Crash, Mishap
  <1>2. QED
    BY <1>1 DEF Counts, KeepsCount

\* The transactions that settle a job take its last chance, if at all, to the DLQ.
LEMMA OutcomeCounts ==
    ASSUME Inv, ClaimsCount, NEW w \in Workers,
           CommitPersist(w) \/ Fail(w) \/ DeadLetter(w)
    PROVE  \A e \in Documents : Counts(e)
  <1>0. PICK d \in Documents : d = worker[w].doc
    BY DEF CommitPersist, Fail, DeadLetter, Inv, Typed, QueueTypeOK, BusyLoopsHaveDocuments
  <1> USE <1>0
  <1>1. /\ worker[w].pc \in {"committing", "failing", "exhausted"}
        /\ UNCHANGED <<reported, mishaps>>
        /\ Release(w)
    BY DEF CommitPersist, Fail, DeadLetter
  <1>2. /\ d \in Documents
        /\ jobs \in [Documents -> JobRow]
        /\ jobs[d] \in JobRow
        /\ dlq \in [Documents -> Nat]
    BY <1>1 DEF Inv, Typed, QueueTypeOK, BusyLoopsHaveDocuments
  <1>3. /\ worker[w].attempt \in Nat
        /\ worker[w].attempt # 0
    <2>1. worker[w] \in LoopState /\ worker[w].attempt > 0
      BY <1>1 DEF Inv, Typed, QueueTypeOK, ClaimsCount
    <2>2. QED
      BY <2>1 DEF LoopState
  <1>4. \A v \in Workers : v # w => worker'[v] = worker[v]
    BY <1>1 DEF Release, Inv, Typed, QueueTypeOK
  <1> DEFINE Drops == /\ UNCHANGED <<jobs, dlq>>
                      /\ ~(worker[w].pc = "exhausted" /\ FencedLive(w) /\ dlq[d] = 0)
             Settles == /\ Fenced(w)
                        /\ \E status \in {"COMPLETED", "FAILED"} : Settle(d, status)
                        /\ \/ UNCHANGED dlq /\ worker[w].pc # "exhausted"
                           \/ dlq' = [dlq EXCEPT ![d] = worker[w].attempt] /\ dlq[d] = 0
  <1>5. Drops \/ Settles
    BY <1>1 DEF CommitPersist, Fail, DeadLetter, FencedLive, Inv, AttemptFence, CommitHoldsRow
  <1>6. ASSUME NEW e \in Documents, e # d PROVE Counts(e)
    <2>1. jobs'[e] = jobs[e] /\ dlq'[e] = dlq[e]
      BY <1>2, <1>5, <1>6 DEF Settle
    <2>2. QED
      BY <1>1, <1>4, <1>6, <2>1, LeftAloneKeepsCount DEF LeavesAlone
  <1>7. Counts(d)
    <2>1. CASE Drops
      <3>1. LastChance(d) => LastChance(d)' \/ dlq'[d] # 0
        <4> SUFFICES ASSUME NEW v \in Workers, worker[v].pc = "exhausted",
                            worker[v].doc = d, FencedLive(v), dlq'[d] = 0
                     PROVE  LastChance(d)'
          BY DEF LastChance
        <4>1. v # w
          BY <2>1
        <4>2. worker'[v] = worker[v] /\ jobs' = jobs
          BY <1>4, <2>1, <4>1
        <4>3. QED
          BY <4>2 DEF LastChance, FencedLive, Fenced
      <3>2. QED
        BY <1>1, <2>1, <3>1 DEF Counts, KeepsCount
    <2>2. CASE Settles
      <3>1. jobs'[d].retries = jobs[d].retries /\ jobs'[d].status # "ABSENT"
        BY <1>2, <2>2 DEF Settle, JobRow
      <3>2. LastChance(d) => worker[w].pc = "exhausted"
        BY <1>1, <2>2, OneClaimHolds DEF LastChance, FencedLive
      <3>3. (dlq'[d] = dlq[d] /\ worker[w].pc # "exhausted") \/ dlq'[d] # 0
        BY <1>2, <1>3, <2>2
      <3>4. QED
        BY <1>1, <3>1, <3>2, <3>3 DEF Counts, KeepsCount
    <2>3. QED
      BY <1>5, <2>1, <2>2
  <1>8. QED
    BY <1>6, <1>7

\* Retry counts a failure, finds the count exhausted, or has lost its claim.
LEMMA RetryCounts ==
    ASSUME Inv, NEW w \in Workers, Retry(w)
    PROVE  \A e \in Documents : Counts(e)
  <1>0. PICK d \in Documents : d = worker[w].doc
    BY DEF Retry, Inv, Typed, QueueTypeOK, BusyLoopsHaveDocuments
  <1> USE <1>0
  <1>1. worker[w].pc = "failing" /\ UNCHANGED <<dlq, mishaps>>
    BY DEF Retry
  <1>2. /\ d \in Documents
        /\ jobs \in [Documents -> JobRow]
        /\ jobs[d] \in JobRow
        /\ reported \in [Documents -> Nat]
        /\ worker \in [Workers -> LoopState]
    BY <1>1 DEF Inv, Typed, QueueTypeOK, BusyLoopsHaveDocuments
  <1>3. \A v \in Workers : v # w => worker'[v] = worker[v]
    BY <1>2 DEF Retry, ScheduleRetry, ExhaustRetries, RetryLosesFence, Release, Goto
  <1>4. ASSUME NEW e \in Documents, e # d PROVE Counts(e)
    <2>1. jobs'[e] = jobs[e] /\ reported'[e] = reported[e]
      BY <1>2, <1>4 DEF Retry, ScheduleRetry, ExhaustRetries, RetryLosesFence
    <2>2. QED
      BY <1>1, <1>3, <1>4, <2>1, LeftAloneKeepsCount DEF LeavesAlone
  <1>5. FencedLive(w) => ~LastChance(d)
    BY <1>1, OneClaimHolds DEF LastChance, FencedLive
  <1>6. Counts(d)
    <2>1. CASE ScheduleRetry(w)
      <3>1. /\ jobs'[d].retries = jobs[d].retries + 1
            /\ jobs'[d].status = "PENDING"
            /\ reported'[d] = reported[d] + 1
            /\ jobs[d].retries < MaxRetries
        BY <1>2, <2>1 DEF ScheduleRetry, JobRow
      <3>2. QED
        BY <1>1, <1>5, <2>1, <3>1 DEF ScheduleRetry, Counts, CountsRetry
    <2>2. CASE ExhaustRetries(w)
      <3>1. /\ UNCHANGED jobs
            /\ reported'[d] = reported[d] + 1
            /\ jobs[d].status = "RUNNING"
        BY <1>2, <2>2 DEF ExhaustRetries, FencedLive, Fenced
      <3>2. /\ worker'[w].pc = "exhausted"
            /\ worker'[w].doc = d
            /\ worker'[w].attempt = worker[w].attempt
            /\ worker'[w].lease = worker[w].lease
        BY <1>2, <2>2 DEF ExhaustRetries, Goto, LoopState
      <3>3. LastChance(d)'
        BY <2>2, <3>1, <3>2 DEF ExhaustRetries, LastChance, FencedLive, Fenced
      <3>4. QED
        BY <1>1, <1>5, <2>2, <3>1, <3>3 DEF ExhaustRetries, Counts, CountsLast
    <2>3. CASE RetryLosesFence(w)
      BY <1>1, <1>2, <1>3, <2>3, LeftAloneKeepsCount DEF RetryLosesFence, LeavesAlone
    <2>4. QED
      BY <2>1, <2>2, <2>3 DEF Retry
  <1>7. QED
    BY <1>4, <1>6

\* A lease runs out under nobody, or under its holder by a mishap.
LEMMA TimeCounts ==
    ASSUME Inv, NEW d \in Documents, Passage(d) \/ LeaseOutrun(d) \/ RequeueExpired(d)
    PROVE  \A e \in Documents : Counts(e)
  <1>1. /\ jobs \in [Documents -> JobRow] /\ jobs[d] \in JobRow
    BY DEF Inv, Typed, QueueTypeOK
  <1>2. /\ UNCHANGED <<worker, dlq, reported>>
        /\ \A e \in Documents : e # d => jobs'[e] = jobs[e]
        /\ mishaps' = mishaps \/ mishaps' = mishaps + 1
    BY <1>1 DEF Passage, LeaseRunsOut, RetryDue, LeaseOutrun, RequeueExpired, Mishap
  <1>3. /\ jobs'[d].retries = jobs[d].retries
        /\ jobs[d].status # "ABSENT"
        /\ jobs'[d].status # "ABSENT"
    <2>1. CASE LeaseRunsOut(d)
      BY <1>1, <2>1 DEF LeaseRunsOut, JobRow
    <2>2. CASE RetryDue(d)
      BY <1>1, <2>2 DEF RetryDue, JobRow
    <2>3. CASE LeaseOutrun(d)
      BY <1>1, <2>3 DEF LeaseOutrun, JobRow
    <2>4. CASE RequeueExpired(d)
      BY <1>1, <2>4 DEF RequeueExpired, JobRow
    <2>5. QED
      BY <2>1, <2>2, <2>3, <2>4 DEF Passage
  <1>4. ASSUME NEW e \in Documents, e # d PROVE Counts(e)
    <2>1. CASE mishaps' = mishaps
      BY <1>2, <1>4, <2>1, LeftAloneKeepsCount DEF LeavesAlone
    <2>2. CASE mishaps' = mishaps + 1
      BY <1>2, <1>4, <2>2 DEF Counts, KeepsCount
    <2>3. QED
      BY <1>2, <2>1, <2>2
  <1>5. LastChance(d) => mishaps' = mishaps + 1
    BY DEF LastChance, FencedLive, Fenced, Passage, LeaseRunsOut, Attended, RetryDue,
           LeaseOutrun, RequeueExpired, Mishap
  <1>6. Counts(d)
    BY <1>2, <1>3, <1>5 DEF Counts, KeepsCount
  <1>7. QED
    BY <1>4, <1>6

\* Every step of the queue acts on the counts in one of these ways.
LEMMA StepCounts ==
    ASSUME Inv, ClaimsCount, NoneBeforeInsert, [QueueStep]_queueVars
    PROVE  \A e \in Documents : Counts(e)
  <1>1. CASE UNCHANGED queueVars
    BY <1>1, LeftAloneKeepsCount DEF queueVars, LeavesAlone
  <1>2. ASSUME NEW d \in Documents,
               Enqueue(d) \/ Passage(d) \/ LeaseOutrun(d) \/ RequeueExpired(d)
        PROVE  \A e \in Documents : Counts(e)
    BY <1>2, EnqueueCounts, TimeCounts
  <1>3. ASSUME NEW w \in Workers,
               Claim(w) \/ SourceFound(w) \/ SourceMissing(w) \/ LoopStep(w) \/ Fault(w)
        PROVE  \A e \in Documents : Counts(e)
    BY <1>3, ClaimCounts, SilentCounts, FaultCounts, OutcomeCounts, RetryCounts
       DEF LoopStep
  <1>4. QED
    BY <1>1, <1>2, <1>3 DEF QueueStep, LoopOrTime

\* Only Claim gives a loop a number, and it is above 0.
LEMMA ClaimsCountStep == Inv /\ ClaimsCount /\ [QueueStep]_queueVars => ClaimsCount'
  <1> SUFFICES ASSUME Inv, ClaimsCount, [QueueStep]_queueVars PROVE ClaimsCount'
    OBVIOUS
  <1>1. worker \in [Workers -> LoopState] /\ jobs \in [Documents -> JobRow]
    BY DEF Inv, Typed, QueueTypeOK
  <1>2. CASE UNCHANGED worker
    BY <1>2 DEF ClaimsCount
  <1>3. ASSUME NEW d \in Documents,
               Enqueue(d) \/ Passage(d) \/ LeaseOutrun(d) \/ RequeueExpired(d)
        PROVE  UNCHANGED worker
    BY <1>3 DEF Enqueue, Passage, LeaseRunsOut, RetryDue, LeaseOutrun, RequeueExpired
  <1>4. ASSUME NEW w \in Workers, Claim(w)
        PROVE  ClaimsCount'
    <2>1. PICK d \in Documents :
             worker' = [worker EXCEPT ![w] =
                          [pc |-> "claimed", doc |-> d, attempt |-> jobs[d].attempts + 1,
                           lease |-> jobs[d].attempts + 1, failure |-> "None"]]
      BY <1>4 DEF Claim
    <2>2. jobs[d].attempts \in Nat
      BY <1>1 DEF JobRow
    <2>3. worker'[w].attempt > 0
      BY <1>1, <2>1, <2>2
    <2>4. QED
      BY <1>1, <2>1, <2>3 DEF ClaimsCount
  <1>5. ASSUME NEW w \in Workers,
               \/ SourceFound(w) \/ SourceMissing(w) \/ LoopStep(w) \/ Fault(w)
        PROVE  ClaimsCount'
    <2>1. worker[w].pc # "idle"
      BY <1>5 DEF LoopStep, Fault, SourceFound, SourceMissing, ProcessingFails, BeginPersist,
                  LockRow, PersistError, Crash, CommitPersist, Fail, DeadLetter, Retry
    <2>2. \/ Release(w)
          \/ \E pc \in {"processing", "persisting", "committing", "exhausted"} : Goto(w, pc)
          \/ \E failure \in {"Final", "Technical"} :
               worker' = [worker EXCEPT ![w].pc = "failing", ![w].failure = failure]
      BY <1>5 DEF LoopStep, Fault, SourceFound, SourceMissing, ProcessingFails, BeginPersist,
                  LockRow, PersistError, Crash, CommitPersist, Fail, DeadLetter, Retry,
                  ScheduleRetry, ExhaustRetries, RetryLosesFence
    <2>3. /\ \A v \in Workers : v # w => worker'[v] = worker[v]
          /\ worker'[w].pc = "idle" \/ worker'[w].attempt = worker[w].attempt
      BY <1>1, <2>2 DEF Release, Idle, Goto, LoopState
    <2>4. QED
      BY <2>1, <2>3 DEF ClaimsCount
  <1>6. QED
    BY <1>2, <1>3, <1>4, <1>5 DEF QueueStep, LoopOrTime, queueVars

\* A job that has not been in the DLQ never reports more technical failures per
\* arming than its retries, the last attempt, and the faults allow.
THEOREM FailuresAreCounted == QueueSpec => []RetryBudgetBeforeDLQ
  <1>1. QueueInit => RetryInv
    BY QueueAssumption DEF QueueInit, RetryInv, ClaimsCount, WithinBudget, NoneBeforeInsert,
       Accounted, NoRow, Idle
  <1>2. Inv /\ Inv' /\ RetryInv /\ [QueueStep]_queueVars => RetryInv'
    <2> SUFFICES ASSUME Inv, Inv', RetryInv, [QueueStep]_queueVars PROVE RetryInv'
      OBVIOUS
    <2>1. \A d \in Documents : Counts(d)
      BY StepCounts DEF RetryInv
    <2>2. \A d \in Documents : Accounted(d)' /\ jobs'[d].retries <= MaxRetries
      BY <2>1, CountsKeepAccount DEF RetryInv, WithinBudget, Inv
    <2>3. NoneBeforeInsert'
      BY <2>1 DEF RetryInv, NoneBeforeInsert, Counts
    <2>4. QED
      BY <2>2, <2>3, ClaimsCountStep DEF RetryInv, WithinBudget
  <1>3. Inv /\ RetryInv => RetryBudgetBeforeDLQ
    <2> SUFFICES ASSUME Inv, RetryInv, NEW d \in Documents, dlq[d] = 0
                 PROVE  reported[d] <= MaxRetries + 1 + mishaps
      BY DEF RetryBudgetBeforeDLQ
    <2>1. /\ jobs[d].retries \in Nat /\ reported[d] \in Nat /\ mishaps \in Nat
          /\ MaxRetries \in Nat
      BY QueueAssumption DEF Inv, Typed, QueueTypeOK, JobRow
    <2>2. QED
      BY <2>1 DEF RetryInv, WithinBudget, Accounted
  <1>4. QED
    BY <1>1, <1>2, <1>3, InvInit, InvStep, NextIsQueueStep, PTL DEF QueueSpec

=============================================================================
