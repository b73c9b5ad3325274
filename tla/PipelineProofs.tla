--------------------------- MODULE PipelineProofs ---------------------------
(***************************************************************************)
(* Theorems about DocumentPipeline, for any number of documents, loops,    *)
(* confirms and faults: what the two relays keep between the schemas no    *)
(* transaction spans, on top of what the attempt fence keeps in the queue. *)
(***************************************************************************)
EXTENDS DocumentPipeline, QueueOutcomeProofs, WellFoundedInduction

(***************************************************************************)
(* The batch of a pump                                                     *)
(***************************************************************************)

\* Induction over the numbers, as a fact about sets: the least counterexample.
LEMMA LeastNumber ==
    ASSUME NEW S \in SUBSET Nat, S # {}
    PROVE  \E n \in S : \A m \in S : n <= m
  <1> DEFINE R == {ss \in Nat \X Nat : ss[1] < ss[2]}
  <1>1. IsWellFoundedOn(R, Nat)
    BY NatLessThanWellFounded DEF OpToRel
  <1> HIDE DEF R
  <1>2. PICK n \in S : \A m \in S : ~ (<<m, n>> \in R)
    <2>1. S \subseteq Nat
      OBVIOUS
    <2>2. IsWellFoundedOn(R, S)
      BY <1>1, <2>1, IsWellFoundedOnSubset, Zenon
    <2>3. QED
      BY <2>1, <2>2, WFMin, Zenon
  <1>3. \A m, k \in S : m < k => <<m, k>> \in R
    BY DEF R
  <1>4. ASSUME NEW m \in S
        PROVE  n <= m
    <2>1. n \in Nat /\ m \in Nat /\ ~ (m < n)
      BY <1>2, <1>3
    <2>2. QED
      BY <2>1
  <1>5. QED
    BY <1>4

\* The rank of a row is the size of a finite set.
LEMMA RankType ==
    ASSUME NEW rows, IsFiniteSet(rows), NEW i
    PROVE  /\ IsFiniteSet({k \in rows : k <= i})
           /\ Rank(rows, i) \in Nat
           /\ Rank(rows, i) = Cardinality({k \in rows : k <= i})
  <1>1. IsFiniteSet({k \in rows : k <= i})
    BY FS_Subset, Zenon
  <1>2. QED
    BY <1>1, FS_CardinalityType DEF Rank

\* Ranks have no gap: a LIMIT finds a row for each place.
LEMMA RankReached ==
    ASSUME NEW rows \in SUBSET Nat, IsFiniteSet(rows), NEW n \in 1 .. Cardinality(rows)
    PROVE  \E i \in rows : Rank(rows, i) = n
  <1> DEFINE count == Cardinality(rows)
             missed == {m \in 1 .. count : \A i \in rows : Rank(rows, i) # m}
  <1>1. count \in Nat
    BY FS_CardinalityType
  <1> HIDE DEF count
  <1>2. SUFFICES ASSUME missed # {} PROVE FALSE
    BY <1>1 DEF count
  <1>3. missed \subseteq Nat
    BY <1>1
  <1>4. PICK m \in missed : \A k \in missed : m <= k
    BY <1>2, <1>3, LeastNumber
  <1>5. m \in 1 .. count /\ \A i \in rows : Rank(rows, i) # m
    BY <1>4
  <1>6. CASE m = 1
    <2>1. rows # {}
      BY <1>5, <1>6, FS_EmptySet DEF count
    <2>2. PICK i \in rows : \A k \in rows : i <= k
      BY <2>1, LeastNumber
    <2>3. {k \in rows : k <= i} = {i}
      <3>1. \A k \in rows : k <= i <=> k = i
        BY <2>2
      <3>2. QED
        BY <3>1
    <2>4. Rank(rows, i) = 1
      BY <2>3, FS_Singleton DEF Rank
    <2>5. QED
      BY <1>5, <1>6, <2>4
  <1>7. CASE m # 1
    <2>1. m - 1 \in 1 .. count /\ m - 1 \notin missed
      BY <1>1, <1>4, <1>5, <1>7
    <2>2. PICK j \in rows : Rank(rows, j) = m - 1
      BY <2>1
    <2> DEFINE upTo == {k \in rows : k <= j}
               rest == {k \in rows : j < k}
    <2>3. IsFiniteSet(upTo) /\ Cardinality(upTo) = m - 1
      BY <2>2, RankType
    <2>4. rest # {}
      <3>1. SUFFICES ASSUME rest = {} PROVE FALSE
        OBVIOUS
      <3>2. \A k \in rows : k \in Nat /\ ~ (j < k)
        BY <3>1
      <3>3. \A k \in rows : k <= j
        BY <2>2, <3>2
      <3>4. rows = upTo
        BY <3>3
      <3>5. QED
        BY <1>1, <1>5, <2>3, <3>4 DEF count
    <2>5. PICK i \in rest : \A k \in rest : i <= k
      <3>1. rest \in SUBSET Nat
        OBVIOUS
      <3>2. QED
        BY <2>4, <3>1, LeastNumber
    <2>6. i \in rows /\ i \notin upTo /\ {k \in rows : k <= i} = upTo \cup {i}
      <3>1. \A k \in rows : k \in Nat /\ (j < k => i <= k)
        BY <2>5
      <3>2. i \in rows /\ j < i
        BY <2>5
      <3>3. \A k \in rows : k <= i <=> (k <= j \/ k = i)
        BY <2>2, <3>1, <3>2
      <3>4. ~ (i <= j)
        BY <3>2
      <3>5. QED
        BY <3>2, <3>3, <3>4
    <2> HIDE DEF upTo
    <2>7. Cardinality(upTo \cup {i}) = m
      BY <1>1, <1>5, <2>3, <2>6, FS_AddElement
    <2>8. Rank(rows, i) = m
      BY <2>6, <2>7 DEF Rank
    <2>9. QED
      BY <1>5, <2>6, <2>8
  <1>8. QED
    BY <1>6, <1>7

\* No row is in a batch twice.
Distinct(batch) == \A i, k \in DOMAIN batch : batch[i] = batch[k] => i = k

\* A pump's batch names waiting rows of its outbox, each once.
LEMMA BatchFits ==
    ASSUME NEW outbox, DOMAIN outbox \in SUBSET Nat, IsFiniteSet(DOMAIN outbox), NEW published
    PROVE  LET batch == Unpublished(outbox, published) IN
           batch \in Seq(Waiting(outbox, published)) /\ Distinct(batch)
  <1> DEFINE rows == Waiting(outbox, published)
             count == Cardinality(rows)
             size == IF count < BatchSize THEN count ELSE BatchSize
             batch == [n \in 1 .. size |-> CHOOSE i \in rows : Rank(rows, i) = n]
  <1>1. IsFiniteSet(rows) /\ rows \in SUBSET Nat
    BY FS_Subset DEF Waiting
  <1>2. count \in Nat
    BY <1>1, FS_CardinalityType
  <1>3. size \in Nat /\ size <= count
    BY <1>2, PipelineAssumption
  <1>4. \A n \in 1 .. size : \E i \in rows : Rank(rows, i) = n
    BY <1>1, <1>2, <1>3, RankReached
  <1> HIDE DEF rows, size
  <1>5. \A n \in 1 .. size : batch[n] \in rows /\ Rank(rows, batch[n]) = n
    BY <1>4
  <1>6. batch \in Seq(rows)
    BY <1>3, <1>5
  <1>7. Distinct(batch)
    BY <1>5 DEF Distinct
  <1>8. Unpublished(outbox, published) = batch
    BY DEF Unpublished, rows, size
  <1>9. QED
    BY <1>6, <1>7, <1>8 DEF rows

\* The rows of a batch stay waiting when others are appended to the outbox ...
LEMMA BatchKeeps ==
    ASSUME NEW S, NEW T, S \subseteq T, NEW batch \in Seq(S)
    PROVE  batch \in Seq(T)
  OBVIOUS

\* ... and when the head of the batch is marked.
LEMMA BatchAdvances ==
    ASSUME NEW S, NEW batch \in Seq(S), batch # <<>>, Distinct(batch)
    PROVE  /\ Head(batch) \in S
           /\ Tail(batch) \in Seq(S \ {Head(batch)})
           /\ Distinct(Tail(batch))
  <1>1. Len(batch) \in Nat \ {0} /\ DOMAIN batch = 1 .. Len(batch) /\ Head(batch) = batch[1]
    OBVIOUS
  <1>2. /\ Tail(batch) \in Seq(S)
        /\ Len(Tail(batch)) = Len(batch) - 1
        /\ \A i \in 1 .. Len(Tail(batch)) : Tail(batch)[i] = batch[i + 1]
    BY HeadTailProperties
  <1>3. \A i \in 1 .. Len(Tail(batch)) : Tail(batch)[i] \in S \ {Head(batch)}
    BY <1>1, <1>2 DEF Distinct
  <1>4. Tail(batch) \in Seq(S \ {Head(batch)})
    <2> DEFINE t == Tail(batch)
               T == S \ {Head(batch)}
    <2>1. t \in Seq(S) /\ \A i \in 1 .. Len(t) : t[i] \in T
      BY <1>2, <1>3
    <2> HIDE DEF t, T
    <2>2. Len(t) \in Nat /\ t \in [1 .. Len(t) -> T]
      BY <2>1
    <2>3. t \in Seq(T)
      BY <2>2
    <2>4. QED
      BY <2>3 DEF t, T
  <1>5. Distinct(Tail(batch))
    BY <1>1, <1>2 DEF Distinct
  <1>6. QED
    BY <1>1, <1>4, <1>5

(***************************************************************************)
(* What the invariant talks about                                          *)
(***************************************************************************)

ForwardStages == {"forward", "forwardMark"}
ReturnStages == {"return", "project", "terminalize", "returnMark"}

\* An outbox row is done before it is marked: the transaction of the other
\* schema has committed, published_at follows.
Forwarded(i) == i \in coursePublished \/ (relay.pc = "forwardMark" /\ i = Row)
Projected(k) == k \in aiPublished \/ (relay.pc = "returnMark" /\ k = Row)

ResultsOf(d) == {k \in DOMAIN aiOutbox : aiOutbox[k].doc = d}
Open(d) == jobs[d].status \in {"PENDING", "RUNNING"}
LastArming(d) == armedBy[d][Len(armedBy[d])]

\* Where a confirm can be before its answer: not enqueued, or published and not
\* projected. Between the two the job is open.
ToForward(d) == {i \in ConfirmsOf(d) : ~Forwarded(i)}
ForwardedOf(d) == {i \in ConfirmsOf(d) : Forwarded(i)}
ToProject(d) == {k \in ResultsOf(d) : ~Projected(k)}

(***************************************************************************)
(* The parts of the invariant                                              *)
(***************************************************************************)

\* A batch names unpublished rows of its outbox, each once.
BatchIsWaiting ==
    /\ relay.pc = "idle" => relay.batch = <<>>
    /\ relay.pc \in ForwardStages =>
           relay.batch \in Seq(Waiting(courseOutbox, coursePublished))
    /\ relay.pc \in ReturnStages =>
           relay.batch \in Seq(Waiting(aiOutbox, aiPublished))
    /\ relay.pc \in {"forwardMark", "project", "terminalize", "returnMark"} =>
           relay.batch # <<>>
    /\ Distinct(relay.batch)

\* The columns keep their types and the relay its place in its batch; each needs
\* the other to be kept.
SeamsTyped == TypeOK /\ BatchIsWaiting

\* Every result stems from an attempt: numbers start at 1.
ResultsCount == \A k \in DOMAIN aiOutbox : aiOutbox[k].attempt > 0

\* A forwarded row has its job, a job its confirm, a settled job its result.
ForwardedHaveJobs ==
    \A i \in DOMAIN courseOutbox : Forwarded(i) => jobs[courseOutbox[i]].status # "ABSENT"

JobsHaveConfirms == \A d \in Documents : jobs[d].status # "ABSENT" => ConfirmsOf(d) # {}

SettledHaveResults ==
    \A d \in Documents : jobs[d].status \in {"COMPLETED", "FAILED"} => ResultsOf(d) # {}

\* No result of a document confirmed once is projected while it still waits.
FirstConfirmWaits ==
    \A d \in Documents :
        docs[d] = "PROCESSING" /\ (\E i \in DOMAIN courseOutbox : ConfirmsOf(d) = {i})
            => ToProject(d) = ResultsOf(d)

\* Whoever can see READY, now or after the next projection, finds a quiz.
ReadyHasQuiz ==
    /\ \A d \in Documents : docs[d] = "READY" => quizzes[d] # 0
    /\ relay.pc = "project" => quizzes[aiOutbox[Row].doc] # 0
    /\ ReadySeenHasQuiz

\* A quiz was made of a READY result.
QuizHasResult ==
    \A d \in Documents : quizzes[d] # 0 =>
        \E k \in ResultsOf(d) : aiOutbox[k].status = "READY" /\ aiOutbox[k].attempt = quizzes[d]

\* An arming is answered at most once.
ArmingsAnsweredOnce ==
    \A d \in Documents :
        Cardinality(ResultsOf(d)) + (IF Open(d) THEN 1 ELSE 0) <= arms[d]

\* The last arming of a job is older than a claim of it.
ArmingsAreOlder ==
    \A d \in Documents : armedBy[d] # <<>> =>
        /\ LastArming(d).from <= jobs[d].attempts
        /\ jobs[d].status = "RUNNING" => LastArming(d).from < jobs[d].attempts

\* As long as the relay has not failed ...
\* ... a row arms its job at most once, ...
ForwardedArmOnce ==
    relayFaults = 0 =>
        \A d \in Documents :
            arms[d] <= Cardinality(ForwardedOf(d))

\* ... a document that waits does so for one thing, which is its latest confirm
\* on the way, and one that does not wait has nothing on the way, ...
OneThingUnderWay(d) ==
    /\ docs[d] # "PROCESSING" => ToForward(d) = {} /\ ~Open(d) /\ ToProject(d) = {}
    /\ \A i \in ToForward(d) : /\ ~Open(d) /\ ToProject(d) = {}
                               /\ \A j \in ConfirmsOf(d) : j <= i
    /\ Open(d) => ToProject(d) = {}
    /\ \A k, l \in ToProject(d) : k = l

\* ... and what is open or published answers that confirm.
LatestIsArmed(d) ==
    Open(d) \/ ToProject(d) # {} =>
        /\ armedBy[d] # <<>>
        /\ \A i \in ConfirmsOf(d) : i <= LastArming(d).row
        /\ \A k \in ToProject(d) : LastArming(d).from < aiOutbox[k].attempt

Reliable ==
    relayFaults = 0 => \A d \in Documents : OneThingUnderWay(d) /\ LatestIsArmed(d)

\* How confirms, armings, results and documents follow each other.
Answering ==
    /\ ResultsCount /\ ForwardedHaveJobs /\ JobsHaveConfirms /\ SettledHaveResults
    /\ FirstConfirmWaits /\ ArmingsAnsweredOnce /\ ArmingsAreOlder
    /\ ForwardedArmOnce /\ Reliable

\* The queue's own invariant.
QueueInv == Inv /\ Outcomes /\ ClaimsCount

PipelineInv == QueueInv /\ SeamsTyped /\ Answering /\ ReadyHasQuiz /\ QuizHasResult

(***************************************************************************)
(* The steps of the pipeline, seen by the queue                            *)
(***************************************************************************)

\* The row a pump works on waits in its outbox.
LEMMA RowWaits ==
    ASSUME SeamsTyped, relay.batch # <<>>
    PROVE  /\ relay.pc \in ForwardStages =>
                /\ Row \in DOMAIN courseOutbox /\ Row \notin coursePublished
                /\ courseOutbox[Row] \in Documents
           /\ relay.pc \in ReturnStages =>
                /\ Row \in DOMAIN aiOutbox /\ Row \notin aiPublished
                /\ aiOutbox[Row] \in Event
  <1>1. CASE relay.pc \in ForwardStages
    <2>1. Row \in Waiting(courseOutbox, coursePublished)
      BY <1>1 DEF SeamsTyped, BatchIsWaiting, Row
    <2>2. courseOutbox \in Seq(Documents)
      BY DEF SeamsTyped, TypeOK
    <2>3. QED
      BY <1>1, <2>1, <2>2 DEF Waiting, ForwardStages, ReturnStages
  <1>2. CASE relay.pc \in ReturnStages
    <2>1. Row \in Waiting(aiOutbox, aiPublished)
      BY <1>2 DEF SeamsTyped, BatchIsWaiting, Row
    <2>2. aiOutbox \in Seq(Event)
      BY DEF SeamsTyped, TypeOK, QueueTypeOK
    <2>3. QED
      BY <1>2, <2>1, <2>2 DEF Waiting, ForwardStages, ReturnStages
  <1>3. QED
    BY <1>1, <1>2

\* The loops' part of the pipeline is a step of the queue without a caller.
LEMMA LoopsAreLoopOrTime ==
    ASSUME QueueProgress \/ QueueFault
    PROVE  LoopOrTime /\ UNCHANGED seamVars
  BY DEF QueueProgress, QueueFault, LoopOrTime, ClaimedSource, Source

\* The relay reaches the queue by Enqueue only; nobody else reaches it.
LEMMA PipelineIsQueueStep ==
    ASSUME SeamsTyped, [Next]_vars
    PROVE  [QueueStep]_queueVars
  <1>1. CASE QueueProgress \/ QueueFault
    BY <1>1, LoopsAreLoopOrTime DEF QueueStep
  <1>2. CASE ForwardEnqueue
    <2>1. courseOutbox[Row] \in Documents
      BY <1>2, RowWaits DEF ForwardEnqueue, ForwardStages
    <2>2. QED
      BY <1>2, <2>1 DEF ForwardEnqueue, QueueStep
  <1>3. CASE Request \/ RelayFault
    BY <1>3 DEF Request, Confirm, ReadDocument, ReadQuiz, RelayFault
  <1>4. CASE \/ ReadCourseOutbox \/ ForwardMark \/ ReadAiOutbox \/ PersistQuiz
             \/ Project \/ ReturnMark \/ EndCycle
    BY <1>4 DEF ReadCourseOutbox, ForwardMark, ReadAiOutbox, PersistQuiz, Project,
                ReturnMark, EndCycle
  <1>5. CASE UNCHANGED vars
    BY <1>5 DEF vars
  <1>6. QED
    BY <1>1, <1>2, <1>3, <1>4, <1>5 DEF Next, RelayStep

\* What the attempt fence keeps, it keeps inside the pipeline.
LEMMA QueueInvStep == QueueInv /\ [QueueStep]_queueVars => QueueInv'
  BY InvStep, OutcomesStep, ClaimsCountStep DEF QueueInv

\* A loop appends to the log, if it touches it.
LEMMA LogGrows ==
    ASSUME QueueInv, LoopOrTime
    PROVE  /\ DOMAIN aiOutbox \subseteq DOMAIN aiOutbox'
           /\ \A k \in DOMAIN aiOutbox : aiOutbox'[k] = aiOutbox[k]
  <1>1. ASSUME NEW w \in Workers, Answers(w)
        PROVE  /\ DOMAIN aiOutbox \subseteq DOMAIN aiOutbox'
               /\ \A k \in DOMAIN aiOutbox : aiOutbox'[k] = aiOutbox[k]
    <2>1. /\ Len(aiOutbox) \in Nat
          /\ DOMAIN aiOutbox = 1 .. Len(aiOutbox)
          /\ DOMAIN aiOutbox' = 1 .. (Len(aiOutbox) + 1)
          /\ \A k \in DOMAIN aiOutbox : aiOutbox'[k] = aiOutbox[k]
      BY <1>1, AnswerFindsNone DEF QueueInv, Inv, Typed, QueueTypeOK
    <2>2. QED
      BY <2>1
  <1>2. QED
    BY <1>1, LoopKinds DEF QueueInv

(***************************************************************************)
(* Type correctness                                                        *)
(***************************************************************************)

\* The loops leave the seams alone and only append to the log.
LEMMA LoopsTyped ==
    ASSUME SeamsTyped, QueueInv, QueueInv', LoopOrTime, UNCHANGED seamVars
    PROVE  SeamsTyped'
  <1>1. UNCHANGED <<docs, courseOutbox, coursePublished, aiPublished, quizzes, relay, reader,
                    armedBy, relayFaults>>
    BY DEF seamVars
  <1>2. DOMAIN aiOutbox \subseteq DOMAIN aiOutbox'
    BY LogGrows
  <1>3. TypeOK'
    BY <1>1, <1>2 DEF SeamsTyped, TypeOK, QueueInv, Inv, Typed
  <1>4. Waiting(aiOutbox, aiPublished) \subseteq Waiting(aiOutbox', aiPublished)
    BY <1>2 DEF Waiting
  <1>5. relay.pc \in ReturnStages => relay.batch \in Seq(Waiting(aiOutbox', aiPublished))
    BY <1>4, BatchKeeps DEF SeamsTyped, BatchIsWaiting
  <1>6. BatchIsWaiting'
    BY <1>1, <1>5 DEF SeamsTyped, BatchIsWaiting, Distinct, Waiting
  <1>7. QED
    BY <1>3, <1>6 DEF SeamsTyped

\* A confirm appends a row, which waits.
LEMMA ConfirmTyped ==
    ASSUME SeamsTyped, NEW d \in Documents, Confirm(d)
    PROVE  SeamsTyped'
  <1>1. /\ UNCHANGED <<queueVars, coursePublished, aiPublished, quizzes, relay, reader,
                       armedBy, relayFaults>>
        /\ docs' = [docs EXCEPT ![d] = "PROCESSING"]
        /\ courseOutbox' = Append(courseOutbox, d)
    BY DEF Confirm
  <1>2. courseOutbox \in Seq(Documents)
    BY DEF SeamsTyped, TypeOK
  <1>3. courseOutbox' \in Seq(Documents) /\ DOMAIN courseOutbox \subseteq DOMAIN courseOutbox'
    BY <1>1, <1>2
  <1>4. TypeOK'
    BY <1>1, <1>3 DEF SeamsTyped, TypeOK, QueueTypeOK, queueVars, DocumentStatus
  <1>5. Waiting(courseOutbox, coursePublished) \subseteq Waiting(courseOutbox', coursePublished)
    BY <1>3 DEF Waiting
  <1>6. relay.pc \in ForwardStages => relay.batch \in Seq(Waiting(courseOutbox', coursePublished))
    BY <1>5, BatchKeeps DEF SeamsTyped, BatchIsWaiting
  <1>7. BatchIsWaiting'
    BY <1>1, <1>6 DEF SeamsTyped, BatchIsWaiting, Distinct, Waiting, queueVars
  <1>8. QED
    BY <1>4, <1>7 DEF SeamsTyped

\* A request's reads keep to its own variable.
LEMMA ReadTyped ==
    ASSUME SeamsTyped, ReadQuiz \/ \E d \in Documents : ReadDocument(d)
    PROVE  SeamsTyped'
  <1>1. UNCHANGED <<queueVars, docs, courseOutbox, coursePublished, aiPublished, quizzes,
                    relay, armedBy, relayFaults>>
    BY DEF ReadQuiz, ReadDocument
  <1>2. reader' \in [doc : Documents \cup {NoDocument}, seen : DocumentStatus]
    BY DEF ReadQuiz, ReadDocument, NoRequest, DocumentStatus, SeamsTyped, TypeOK
  <1>3. TypeOK'
    BY <1>1, <1>2 DEF SeamsTyped, TypeOK, QueueTypeOK, queueVars
  <1>4. BatchIsWaiting'
    BY <1>1 DEF SeamsTyped, BatchIsWaiting, Distinct, Waiting, queueVars
  <1>5. QED
    BY <1>3, <1>4 DEF SeamsTyped

\* Advancing keeps the batch and its head.
LEMMA AdvanceMoves ==
    ASSUME SeamsTyped, NEW pc \in RelayStage, Advance(pc)
    PROVE  /\ relay' \in [pc : RelayStage, batch : Seq(Nat)]
           /\ relay'.pc = pc
           /\ relay'.batch = relay.batch
           /\ Row' = Row
  <1>1. relay \in [pc : RelayStage, batch : Seq(Nat)]
    BY DEF SeamsTyped, TypeOK
  <1>2. relay'.pc = pc /\ relay'.batch = relay.batch
    BY <1>1 DEF Advance
  <1>3. QED
    BY <1>1, <1>2 DEF Advance, Row

\* Advancing within one pump, with the outboxes as they are.
LEMMA AdvanceTyped ==
    ASSUME SeamsTyped, NEW pc \in RelayStage, Advance(pc), relay.batch # <<>>,
           \/ relay.pc \in ForwardStages /\ pc \in ForwardStages
           \/ relay.pc \in ReturnStages /\ pc \in ReturnStages,
           UNCHANGED <<courseOutbox, coursePublished, aiOutbox, aiPublished>>
    PROVE  BatchIsWaiting'
  <1>1. relay'.pc = pc /\ relay'.batch = relay.batch
    BY AdvanceMoves
  <1>2. QED
    BY <1>1 DEF SeamsTyped, BatchIsWaiting, Distinct, Waiting, ForwardStages, ReturnStages

\* The idempotent enqueue keeps a record of the arming.
LEMMA EnqueueTyped ==
    ASSUME SeamsTyped, QueueInv', ForwardEnqueue
    PROVE  SeamsTyped'
  <1> DEFINE d == courseOutbox[Row]
  <1>1. /\ relay.pc = "forward" /\ relay.batch # <<>>
        /\ Advance("forwardMark")
        /\ Enqueue(d)
        /\ UNCHANGED <<docs, courseOutbox, coursePublished, aiPublished, quizzes, reader,
                       relayFaults>>
        /\ armedBy' = IF arms' = arms THEN armedBy
                      ELSE [armedBy EXCEPT ![d] =
                              Append(@, [row |-> Row, from |-> jobs'[d].attempts])]
    BY DEF ForwardEnqueue
  <1>2. d \in Documents /\ Row \in Nat
    <2>1. d \in Documents /\ Row \in DOMAIN courseOutbox
      BY <1>1, RowWaits DEF ForwardStages
    <2>2. courseOutbox \in Seq(Documents)
      BY DEF SeamsTyped, TypeOK
    <2>3. QED
      BY <2>1, <2>2
  <1>3. UNCHANGED aiOutbox
    BY <1>1 DEF Enqueue
  <1>4. armedBy' \in [Documents -> Seq([row : Nat, from : Nat])]
    <2>1. armedBy \in [Documents -> Seq([row : Nat, from : Nat])]
      BY DEF SeamsTyped, TypeOK
    <2>2. jobs'[d].attempts \in Nat
      BY <1>2 DEF QueueInv, Inv, Typed, QueueTypeOK, JobRow
    <2> DEFINE arming == [row |-> Row, from |-> jobs'[d].attempts]
    <2>3. arming \in [row : Nat, from : Nat]
      BY <1>2, <2>2
    <2> HIDE DEF arming
    <2>4. Append(armedBy[d], arming) \in Seq([row : Nat, from : Nat])
      BY <1>2, <2>1, <2>3
    <2>5. armedBy' = armedBy \/ armedBy' = [armedBy EXCEPT ![d] = Append(armedBy[d], arming)]
      BY <1>1 DEF arming
    <2>6. QED
      BY <2>1, <2>4, <2>5
  <1>5. relay' \in [pc : RelayStage, batch : Seq(Nat)]
    BY <1>1, AdvanceMoves DEF RelayStage
  <1>6. TypeOK'
    BY <1>1, <1>3, <1>4, <1>5 DEF SeamsTyped, TypeOK, QueueInv, Inv, Typed
  <1>7. BatchIsWaiting'
    BY <1>1, <1>3, AdvanceTyped DEF ForwardStages, RelayStage
  <1>8. QED
    BY <1>6, <1>7 DEF SeamsTyped

\* A pump reads its batch from the waiting rows.
LEMMA ReadOutboxTyped ==
    ASSUME SeamsTyped, ReadCourseOutbox \/ ReadAiOutbox
    PROVE  SeamsTyped'
  <1>1. UNCHANGED <<queueVars, docs, courseOutbox, coursePublished, aiPublished, quizzes,
                    reader, armedBy, relayFaults>>
    BY DEF ReadCourseOutbox, ReadAiOutbox
  <1>2. courseOutbox \in Seq(Documents) /\ aiOutbox \in Seq(Event)
    BY DEF SeamsTyped, TypeOK, QueueTypeOK
  <1>3. /\ DOMAIN courseOutbox \in SUBSET Nat /\ IsFiniteSet(DOMAIN courseOutbox)
        /\ DOMAIN aiOutbox \in SUBSET Nat /\ IsFiniteSet(DOMAIN aiOutbox)
    <2>1. /\ Len(courseOutbox) \in Nat /\ DOMAIN courseOutbox = 1 .. Len(courseOutbox)
          /\ Len(aiOutbox) \in Nat /\ DOMAIN aiOutbox = 1 .. Len(aiOutbox)
      BY <1>2
    <2>2. IsFiniteSet(1 .. Len(courseOutbox)) /\ IsFiniteSet(1 .. Len(aiOutbox))
      BY <2>1, FS_Interval
    <2>3. QED
      BY <2>1, <2>2
  <1>4. CASE ReadCourseOutbox
    <2> DEFINE batch == Unpublished(courseOutbox, coursePublished)
    <2>1. batch \in Seq(Waiting(courseOutbox, coursePublished)) /\ Distinct(batch)
      BY <1>3, BatchFits
    <2>2. batch \in Seq(Nat)
      BY <1>3, <2>1, BatchKeeps DEF Waiting
    <2>3. relay' = [pc |-> "forward", batch |-> batch]
      BY <1>4 DEF ReadCourseOutbox
    <2> HIDE DEF batch
    <2>4. TypeOK'
      BY <1>1, <2>2, <2>3 DEF SeamsTyped, TypeOK, QueueTypeOK, queueVars, RelayStage
    <2>5. BatchIsWaiting'
      BY <1>1, <2>1, <2>3 DEF BatchIsWaiting, ForwardStages, ReturnStages, Waiting
    <2>6. QED
      BY <2>4, <2>5 DEF SeamsTyped
  <1>5. CASE ReadAiOutbox
    <2> DEFINE batch == Unpublished(aiOutbox, aiPublished)
    <2>1. batch \in Seq(Waiting(aiOutbox, aiPublished)) /\ Distinct(batch)
      BY <1>3, BatchFits
    <2>2. batch \in Seq(Nat)
      BY <1>3, <2>1, BatchKeeps DEF Waiting
    <2>3. relay' = [pc |-> "return", batch |-> batch]
      BY <1>5 DEF ReadAiOutbox
    <2> HIDE DEF batch
    <2>4. TypeOK'
      BY <1>1, <2>2, <2>3 DEF SeamsTyped, TypeOK, QueueTypeOK, queueVars, RelayStage
    <2>5. BatchIsWaiting'
      BY <1>1, <2>1, <2>3 DEF BatchIsWaiting, ForwardStages, ReturnStages, Waiting, queueVars
    <2>6. QED
      BY <2>4, <2>5 DEF SeamsTyped
  <1>6. QED
    BY <1>4, <1>5

\* Marking a row takes it out of the batch and out of the waiting rows.
LEMMA MarkTyped ==
    ASSUME SeamsTyped, ForwardMark \/ ReturnMark
    PROVE  SeamsTyped'
  <1>1. UNCHANGED <<queueVars, docs, courseOutbox, quizzes, reader, armedBy, relayFaults>>
    BY DEF ForwardMark, ReturnMark
  <1>2. relay.batch # <<>> /\ relay.batch \in Seq(Nat) /\ Distinct(relay.batch)
    BY DEF ForwardMark, ReturnMark, SeamsTyped, BatchIsWaiting, TypeOK
  <1>3. Tail(relay.batch) \in Seq(Nat) /\ Distinct(Tail(relay.batch))
    BY <1>2, BatchAdvances, HeadTailProperties
  <1>4. CASE ForwardMark
    <2>1. /\ relay' = [pc |-> "forward", batch |-> Tail(relay.batch)]
          /\ coursePublished' = coursePublished \cup {Row}
          /\ UNCHANGED aiPublished
          /\ relay.pc = "forwardMark"
      BY <1>4 DEF ForwardMark, NextRow
    <2>2. Row \in DOMAIN courseOutbox
      BY <1>2, <2>1, RowWaits DEF ForwardStages
    <2>3. TypeOK'
      BY <1>1, <1>3, <2>1, <2>2 DEF SeamsTyped, TypeOK, QueueTypeOK, queueVars, RelayStage
    <2>4. relay.batch \in Seq(Waiting(courseOutbox, coursePublished))
      BY <2>1 DEF SeamsTyped, BatchIsWaiting, ForwardStages
    <2>5. Waiting(courseOutbox, coursePublished)' =
             Waiting(courseOutbox, coursePublished) \ {Head(relay.batch)}
      BY <1>1, <2>1 DEF Waiting, Row
    <2>6. Tail(relay.batch) \in Seq(Waiting(courseOutbox, coursePublished)')
      BY <1>2, <2>4, <2>5, BatchAdvances
    <2>7. BatchIsWaiting'
      BY <1>3, <2>1, <2>6 DEF BatchIsWaiting, ForwardStages, ReturnStages
    <2>8. QED
      BY <2>3, <2>7 DEF SeamsTyped
  <1>5. CASE ReturnMark
    <2>1. /\ relay' = [pc |-> "return", batch |-> Tail(relay.batch)]
          /\ aiPublished' = aiPublished \cup {Row}
          /\ UNCHANGED coursePublished
          /\ relay.pc = "returnMark"
      BY <1>5 DEF ReturnMark, NextRow
    <2>2. Row \in DOMAIN aiOutbox
      BY <1>2, <2>1, RowWaits DEF ReturnStages
    <2>3. TypeOK'
      BY <1>1, <1>3, <2>1, <2>2 DEF SeamsTyped, TypeOK, QueueTypeOK, queueVars, RelayStage
    <2>4. relay.batch \in Seq(Waiting(aiOutbox, aiPublished))
      BY <2>1 DEF SeamsTyped, BatchIsWaiting, ReturnStages
    <2>5. Waiting(aiOutbox, aiPublished)' = Waiting(aiOutbox, aiPublished) \ {Head(relay.batch)}
      BY <1>1, <2>1 DEF Waiting, Row, queueVars
    <2>6. Tail(relay.batch) \in Seq(Waiting(aiOutbox, aiPublished)')
      BY <1>2, <2>4, <2>5, BatchAdvances
    <2>7. BatchIsWaiting'
      BY <1>3, <2>1, <2>6 DEF BatchIsWaiting, ForwardStages, ReturnStages
    <2>8. QED
      BY <2>3, <2>7 DEF SeamsTyped
  <1>6. QED
    BY <1>4, <1>5

\* The handoff and the projection write one row of their schema.
LEMMA ProjectionTyped ==
    ASSUME SeamsTyped, PersistQuiz \/ Project
    PROVE  SeamsTyped'
  <1> DEFINE event == aiOutbox[Row]
  <1>1. /\ relay.batch # <<>>
        /\ relay.pc \in ReturnStages
        /\ UNCHANGED <<queueVars, courseOutbox, coursePublished, aiPublished, reader, armedBy,
                       relayFaults>>
    BY DEF PersistQuiz, Project, ReturnStages
  <1>2. event \in Event
    BY <1>1, RowWaits
  <1>3. event.doc \in Documents /\ event.attempt \in Nat
    BY <1>2 DEF Event
  <1>4. PICK pc \in {"project", "terminalize", "returnMark"} : Advance(pc)
    BY DEF PersistQuiz, Project
  <1>5. relay' \in [pc : RelayStage, batch : Seq(Nat)]
    BY <1>4, AdvanceMoves DEF RelayStage
  <1>6. quizzes' = quizzes
          \/ quizzes' = [quizzes EXCEPT ![event.doc] = IF @ = 0 THEN event.attempt ELSE @]
    BY DEF PersistQuiz, Project
  <1>7. quizzes' \in [Documents -> Nat]
    BY <1>3, <1>6 DEF SeamsTyped, TypeOK
  <1>8. docs' = docs \/ \E status \in {"READY", "FAILED"} : docs' = [docs EXCEPT ![event.doc] = status]
    BY DEF PersistQuiz, Project, ProjectStatus
  <1>9. docs' \in [Documents -> DocumentStatus]
    BY <1>8 DEF SeamsTyped, TypeOK, DocumentStatus
  <1>10. TypeOK'
    BY <1>1, <1>5, <1>7, <1>9 DEF SeamsTyped, TypeOK, QueueTypeOK, queueVars
  <1>11. BatchIsWaiting'
    BY <1>1, <1>4, AdvanceTyped DEF ReturnStages, RelayStage, queueVars
  <1>12. QED
    BY <1>10, <1>11 DEF SeamsTyped

\* The end of a cycle, or of the process, drops what is left of the batch.
LEMMA IdleTyped ==
    ASSUME SeamsTyped, EndCycle \/ RelayFault
    PROVE  SeamsTyped'
  <1>1. /\ UNCHANGED <<queueVars, docs, courseOutbox, coursePublished, aiPublished, quizzes,
                       reader, armedBy>>
        /\ relay' = IdleRelay
    BY DEF EndCycle, RelayFault
  <1>2. relayFaults' \in 0 .. MaxRelayFaults
    BY PipelineAssumption DEF EndCycle, RelayFault, SeamsTyped, TypeOK
  <1>3. IdleRelay \in [pc : RelayStage, batch : Seq(Nat)]
    BY DEF IdleRelay, RelayStage
  <1>4. TypeOK'
    BY <1>1, <1>2, <1>3 DEF SeamsTyped, TypeOK, QueueTypeOK, queueVars
  <1>5. BatchIsWaiting'
    BY <1>1 DEF BatchIsWaiting, Distinct, IdleRelay, ForwardStages, ReturnStages
  <1>6. QED
    BY <1>4, <1>5 DEF SeamsTyped

\* Every step keeps the tables' columns and the batch.
LEMMA SeamsTypedStep ==
    ASSUME SeamsTyped, QueueInv, [Next]_vars
    PROVE  SeamsTyped'
  <1>1. QueueInv'
    BY PipelineIsQueueStep, QueueInvStep
  <1>2. CASE QueueProgress \/ QueueFault
    BY <1>1, <1>2, LoopsAreLoopOrTime, LoopsTyped
  <1>3. CASE RelayStep \/ RelayFault
    BY <1>1, <1>3, EnqueueTyped, ReadOutboxTyped, MarkTyped, ProjectionTyped, IdleTyped
       DEF RelayStep
  <1>4. CASE Request
    BY <1>4, ConfirmTyped, ReadTyped DEF Request
  <1>5. CASE UNCHANGED vars
    <2>1. UNCHANGED <<queueVars, docs, courseOutbox, coursePublished, aiPublished, quizzes,
                      relay, reader, armedBy, relayFaults>>
      BY <1>5 DEF vars, seamVars
    <2>2. TypeOK'
      BY <2>1 DEF SeamsTyped, TypeOK, QueueTypeOK, queueVars
    <2>3. BatchIsWaiting'
      BY <2>1 DEF SeamsTyped, BatchIsWaiting, Distinct, Waiting, queueVars
    <2>4. QED
      BY <2>2, <2>3 DEF SeamsTyped
  <1>6. QED
    BY <1>2, <1>3, <1>4, <1>5 DEF Next

(***************************************************************************)
(* Confirms, armings, results                                              *)
(***************************************************************************)

\* A step after which every job is in the phase, every row as far, and every
\* document in the status it was.
LEMMA AnsweringUndisturbed ==
    ASSUME SeamsTyped, Answering, ArmingsAreOlder', KeepsPhases,
           UNCHANGED <<aiOutbox, arms, docs, courseOutbox, armedBy, relayFaults>>,
           \A i \in DOMAIN courseOutbox : Forwarded(i)' <=> Forwarded(i),
           \A k \in DOMAIN aiOutbox : Projected(k)' <=> Projected(k)
    PROVE  Answering'
  <1>1. \A d \in Documents : /\ ConfirmsOf(d)' = ConfirmsOf(d)
                             /\ ResultsOf(d)' = ResultsOf(d)
                             /\ LastArming(d)' = LastArming(d)
    BY DEF ConfirmsOf, ResultsOf, LastArming
  <1>2. \A d \in Documents : /\ ToForward(d)' = ToForward(d)
                             /\ ToProject(d)' = ToProject(d)
                             /\ ForwardedOf(d)' = ForwardedOf(d)
    BY <1>1 DEF ToForward, ForwardedOf, ToProject, ConfirmsOf, ResultsOf
  <1>3. \A d \in Documents :
           /\ Open(d)' <=> Open(d)
           /\ jobs'[d].status = "ABSENT" <=> jobs[d].status = "ABSENT"
           /\ jobs'[d].status \in {"COMPLETED", "FAILED"}
                <=> jobs[d].status \in {"COMPLETED", "FAILED"}
    BY DEF KeepsPhases, Open
  <1>4. ResultsCount' /\ SettledHaveResults' /\ JobsHaveConfirms'
    BY <1>1, <1>3 DEF Answering, ResultsCount, SettledHaveResults, JobsHaveConfirms
  <1>5. ForwardedHaveJobs'
    <2>1. \A i \in DOMAIN courseOutbox : courseOutbox[i] \in Documents
      BY DEF SeamsTyped, TypeOK
    <2>2. QED
      BY <1>3, <2>1 DEF Answering, ForwardedHaveJobs
  <1>6. FirstConfirmWaits'
    BY <1>1, <1>2 DEF Answering, FirstConfirmWaits
  <1>7. ArmingsAnsweredOnce' /\ ForwardedArmOnce'
    BY <1>1, <1>2, <1>3 DEF Answering, ArmingsAnsweredOnce, ForwardedArmOnce
  <1>8. Reliable'
    BY <1>1, <1>2, <1>3 DEF Answering, Reliable, OneThingUnderWay, LatestIsArmed
  <1>9. QED
    BY <1>4, <1>5, <1>6, <1>7, <1>8 DEF Answering

\* The steps of a request and of the relay that leave documents, jobs and results
\* as they are: marking follows what was done, and reading does nothing.
LEMMA QuietSteps ==
    ASSUME SeamsTyped,
           \/ ReadQuiz \/ (\E d \in Documents : ReadDocument(d)) \/ ReadCourseOutbox
           \/ ReadAiOutbox \/ ForwardMark \/ ReturnMark \/ PersistQuiz \/ EndCycle
    PROVE  /\ UNCHANGED <<jobs, aiOutbox, arms, docs, courseOutbox, armedBy, relayFaults>>
           /\ \A i : Forwarded(i)' <=> Forwarded(i)
           /\ \A k : Projected(k)' <=> Projected(k)
  <1>1. UNCHANGED <<jobs, aiOutbox, arms, docs, courseOutbox, armedBy, relayFaults>>
    BY DEF ReadQuiz, ReadDocument, ReadCourseOutbox, ReadAiOutbox, ForwardMark, ReturnMark,
           PersistQuiz, EndCycle, queueVars
  <1>2. /\ \A i : Forwarded(i)' <=> Forwarded(i)
        /\ \A k : Projected(k)' <=> Projected(k)
    <2>1. CASE ReadQuiz \/ (\E d \in Documents : ReadDocument(d))
      BY <2>1 DEF ReadQuiz, ReadDocument, Forwarded, Projected, Row
    <2>2. CASE ForwardMark
      <3>1. /\ relay.pc = "forwardMark" /\ relay'.pc = "forward"
            /\ coursePublished' = coursePublished \cup {Row} /\ aiPublished' = aiPublished
        BY <2>2 DEF ForwardMark, NextRow
      <3>2. QED
        BY <3>1 DEF Forwarded, Projected
    <2>3. CASE ReturnMark
      <3>1. /\ relay.pc = "returnMark" /\ relay'.pc = "return"
            /\ aiPublished' = aiPublished \cup {Row} /\ coursePublished' = coursePublished
        BY <2>3 DEF ReturnMark, NextRow
      <3>2. QED
        BY <3>1 DEF Forwarded, Projected
    <2>4. CASE ReadCourseOutbox \/ ReadAiOutbox \/ PersistQuiz \/ EndCycle
      <3>1. UNCHANGED <<coursePublished, aiPublished>>
        BY <2>4 DEF ReadCourseOutbox, ReadAiOutbox, PersistQuiz, EndCycle
      <3>2. relay.pc \notin {"forwardMark", "returnMark"}
        BY <2>4 DEF ReadCourseOutbox, ReadAiOutbox, PersistQuiz, EndCycle
      <3>3. relay'.pc \notin {"forwardMark", "returnMark"}
        <4>1. CASE ReadCourseOutbox \/ ReadAiOutbox \/ EndCycle
          BY <4>1 DEF ReadCourseOutbox, ReadAiOutbox, EndCycle, IdleRelay
        <4>2. CASE PersistQuiz
          <5>1. PICK pc \in {"project", "terminalize"} : Advance(pc)
            BY <4>2 DEF PersistQuiz
          <5>2. QED
            BY <5>1, AdvanceMoves DEF RelayStage
        <4>3. QED
          BY <2>4, <4>1, <4>2
      <3>4. QED
        BY <3>1, <3>2, <3>3 DEF Forwarded, Projected
    <2>5. QED
      BY <2>1, <2>2, <2>3, <2>4
  <1>3. QED
    BY <1>1, <1>2

\* They keep the account of confirms, armings and results.
LEMMA QuietAnswering ==
    ASSUME SeamsTyped, Answering,
           \/ ReadQuiz \/ (\E d \in Documents : ReadDocument(d)) \/ ReadCourseOutbox
           \/ ReadAiOutbox \/ ForwardMark \/ ReturnMark \/ PersistQuiz \/ EndCycle
    PROVE  Answering'
  <1>1. UNCHANGED <<jobs, aiOutbox, arms, docs, courseOutbox, armedBy, relayFaults>>
    BY QuietSteps
  <1>2. ArmingsAreOlder' /\ KeepsPhases
    BY <1>1 DEF Answering, ArmingsAreOlder, LastArming, KeepsPhases
  <1>3. QED
    BY <1>1, <1>2, QuietSteps, AnsweringUndisturbed

\* A row's attempt number never falls, and rises when the row gets RUNNING.
Ages(d) ==
    /\ jobs[d].attempts <= jobs'[d].attempts
    /\ jobs'[d].status = "RUNNING" /\ jobs[d].status # "RUNNING" =>
           jobs[d].attempts < jobs'[d].attempts

\* The loops and time only let rows age.
LEMMA LoopsAge ==
    ASSUME QueueInv, LoopOrTime, NEW d \in Documents
    PROVE  Ages(d)
  <1>1. /\ Inv /\ jobs \in [Documents -> JobRow]
        /\ jobs[d].attempts \in Nat
    BY DEF QueueInv, Inv, Typed, QueueTypeOK, JobRow
  <1>2. ASSUME NEW e \in Documents, Passage(e) \/ LeaseOutrun(e) PROVE Ages(d)
    <2>1. QuietStep
      BY <1>1, <1>2, TimeIsQuiet DEF Inv
    <2>2. QED
      BY <1>1, <2>1 DEF QuietStep, Ages
  <1>3. ASSUME NEW e \in Documents, RequeueExpired(e) PROVE Ages(d)
    <2>1. jobs[e] \in JobRow
      BY <1>1
    <2>2. CASE d = e
      BY <1>1, <1>3, <2>1, <2>2 DEF RequeueExpired, Ages, JobRow
    <2>3. CASE d # e
      BY <1>1, <1>3, <2>3 DEF RequeueExpired, Ages
    <2>4. QED
      BY <2>2, <2>3
  <1>4. ASSUME NEW w \in Workers, Claim(w) PROVE Ages(d)
    <2>1. PICK e \in Documents :
             jobs' = [jobs EXCEPT ![e].status = "RUNNING",
                                  ![e].attempts = jobs[e].attempts + 1,
                                  ![e].lease = jobs[e].attempts + 1,
                                  ![e].leaseLive = TRUE]
      BY <1>4 DEF Claim
    <2>2. CASE d = e
      <3>1. jobs[d] \in JobRow
        BY <1>1
      <3>2. jobs'[d].attempts = jobs[d].attempts + 1
        BY <1>1, <2>1, <2>2, <3>1 DEF JobRow
      <3>3. QED
        BY <1>1, <3>2 DEF Ages
    <2>3. CASE d # e
      BY <1>1, <2>1, <2>3 DEF Ages
    <2>4. QED
      BY <2>2, <2>3
  <1>5. CASE UNCHANGED jobs
    BY <1>1, <1>5 DEF Ages
  <1>6. ASSUME NEW w \in Workers, FencedWrite(w) PROVE Ages(d)
    <2>1. worker[w].doc \in Documents
      BY <1>1, <1>6 DEF FencedWrite, Inv, Typed, BusyLoopsHaveDocuments
    <2>2. QED
      BY <1>1, <1>6, <2>1 DEF FencedWrite, Ages
  <1>7. ASSUME NEW w \in Workers, Retry(w) PROVE Ages(d)
    <2>1. CASE ScheduleRetry(w)
      BY <1>1, <1>6, <1>7, <2>1, ScheduleRetryIsFencedWrite
    <2>2. CASE ExhaustRetries(w) \/ RetryLosesFence(w)
      BY <1>5, <2>2 DEF ExhaustRetries, RetryLosesFence
    <2>3. QED
      BY <1>7, <2>1, <2>2 DEF Retry
  <1>8. ASSUME NEW w \in Workers, CommitPersist(w) \/ Fail(w) \/ DeadLetter(w) PROVE Ages(d)
    BY <1>1, <1>5, <1>6, <1>8, OutcomeAnswersOrDrops, AnswerIsFencedWrite
  <1>9. ASSUME NEW w \in Workers,
               \/ SourceFound(w) \/ SourceMissing(w) \/ ProcessingFails(w)
               \/ BeginPersist(w) \/ LockRow(w) \/ Fault(w)
        PROVE  UNCHANGED jobs
    BY <1>9 DEF SourceFound, SourceMissing, ProcessingFails, BeginPersist, LockRow, Fault,
                PersistError, Crash
  <1>10. QED
    BY <1>2, <1>3, <1>4, <1>5, <1>7, <1>8, <1>9 DEF LoopOrTime, LoopStep

\* Only Enqueue arms.
LEMMA LoopsDoNotArm ==
    ASSUME LoopOrTime
    PROVE  UNCHANGED arms
  BY DEF LoopOrTime, Passage, LeaseRunsOut, RetryDue, LeaseOutrun, RequeueExpired, Claim,
         SourceFound, SourceMissing, LoopStep, Fault, ProcessingFails, BeginPersist, LockRow,
         CommitPersist, Fail, Retry, DeadLetter, PersistError, Crash

\* The last element of a sequence is one of its elements.
LEMMA LastIsElement ==
    ASSUME NEW S, NEW s \in Seq(S), s # <<>>
    PROVE  Len(s) \in DOMAIN s /\ s[Len(s)] \in S
  OBVIOUS

\* The results of a document are finitely many.
LEMMA ResultsFinite ==
    ASSUME SeamsTyped, NEW d
    PROVE  IsFiniteSet(ResultsOf(d)) /\ Cardinality(ResultsOf(d)) \in Nat
  <1>1. Len(aiOutbox) \in Nat /\ DOMAIN aiOutbox = 1 .. Len(aiOutbox)
    BY DEF SeamsTyped, TypeOK, QueueTypeOK
  <1>2. IsFiniteSet(DOMAIN aiOutbox)
    BY <1>1, FS_Interval
  <1>3. IsFiniteSet(ResultsOf(d))
    BY <1>2, FS_Subset DEF ResultsOf
  <1>4. QED
    BY <1>3, FS_CardinalityType

\* An answer turns the open job into a result that waits for its projection.
LEMMA AnswerAnswering ==
    ASSUME SeamsTyped, QueueInv, Answering, ArmingsAreOlder', NEW w \in Workers, Answers(w),
           NEW d \in Documents, d = worker[w].doc, NEW n \in Nat, n = Len(aiOutbox) + 1,
           UNCHANGED arms, UNCHANGED seamVars
    PROVE  Answering'
  <1>1. /\ Len(aiOutbox) \in Nat /\ DOMAIN aiOutbox = 1 .. Len(aiOutbox)
        /\ \A k \in DOMAIN aiOutbox : aiOutbox[k].doc \in Documents
    <2>1. aiOutbox \in Seq(Event)
      BY DEF SeamsTyped, TypeOK, QueueTypeOK
    <2>2. \A k \in DOMAIN aiOutbox : aiOutbox[k] \in Event
      BY <2>1
    <2>3. QED
      BY <2>1, <2>2 DEF Event
  <1>2. /\ DOMAIN aiOutbox' = 1 .. n
        /\ \A k \in DOMAIN aiOutbox : aiOutbox'[k] = aiOutbox[k]
        /\ d \in Documents
        /\ jobs[d].status = "RUNNING"
        /\ jobs'[d].status \in {"COMPLETED", "FAILED"}
        /\ aiOutbox'[n].doc = d
        /\ aiOutbox'[n].attempt = worker[w].attempt
        /\ \A e \in Documents : e # d => jobs'[e] = jobs[e]
    BY AnswerFindsNone DEF QueueInv
  <1>3. /\ worker[w].attempt > 0
        /\ jobs[d].attempts = worker[w].attempt
        /\ worker[w].pc # "idle"
    BY DEF Answers, Fenced, QueueInv, ClaimsCount
  <1>4. UNCHANGED <<arms, docs, courseOutbox, coursePublished, aiPublished, relay, armedBy,
                    relayFaults>>
    BY DEF seamVars
  <1>5. n \notin DOMAIN aiOutbox /\ n \in DOMAIN aiOutbox' /\ DOMAIN aiOutbox' = DOMAIN aiOutbox \cup {n}
    BY <1>1, <1>2
  <1>6. /\ ResultsOf(d)' = ResultsOf(d) \cup {n}
        /\ \A e \in Documents : e # d => ResultsOf(e)' = ResultsOf(e)
    BY <1>2, <1>5 DEF ResultsOf
  <1>7. /\ \A i : Forwarded(i)' <=> Forwarded(i)
        /\ \A k : Projected(k)' <=> Projected(k)
    BY <1>4 DEF Forwarded, Projected, Row
  <1>8. ~ Projected(n)
    <2>1. n \notin aiPublished
      BY <1>5 DEF SeamsTyped, TypeOK
    <2>2. relay.pc = "returnMark" => Row \in DOMAIN aiOutbox
      BY RowWaits DEF SeamsTyped, BatchIsWaiting, ReturnStages
    <2>3. QED
      BY <1>5, <2>1, <2>2 DEF Projected
  <1>9. /\ ToProject(d)' = ToProject(d) \cup {n}
        /\ \A e \in Documents : e # d => ToProject(e)' = ToProject(e)
    BY <1>6, <1>7, <1>8 DEF ToProject
  <1>10. \A e \in Documents : /\ ConfirmsOf(e)' = ConfirmsOf(e)
                              /\ ToForward(e)' = ToForward(e)
                              /\ LastArming(e)' = LastArming(e)
                              /\ ForwardedOf(e)' = ForwardedOf(e)
    BY <1>4, <1>7 DEF ToForward, ForwardedOf, ConfirmsOf, LastArming
  <1>11. /\ Open(d) /\ ~Open(d)'
         /\ \A e \in Documents : e # d => (Open(e)' <=> Open(e))
    BY <1>2 DEF Open
  <1>12. ResultsCount'
    BY <1>2, <1>3, <1>5 DEF Answering, ResultsCount
  <1>13. ForwardedHaveJobs'
    <2>1. \A i \in DOMAIN courseOutbox : courseOutbox[i] \in Documents
      BY DEF SeamsTyped, TypeOK
    <2>2. QED
      BY <1>2, <1>4, <1>7, <2>1 DEF Answering, ForwardedHaveJobs
  <1>14. JobsHaveConfirms'
    BY <1>2, <1>10 DEF Answering, JobsHaveConfirms
  <1>15. SettledHaveResults'
    BY <1>2, <1>6 DEF Answering, SettledHaveResults
  <1>16. FirstConfirmWaits'
    BY <1>4, <1>6, <1>9, <1>10 DEF Answering, FirstConfirmWaits
  <1>17. ArmingsAnsweredOnce'
    <2>1. n \notin ResultsOf(d)
      BY <1>5 DEF ResultsOf
    <2>2. Cardinality(ResultsOf(d)') = Cardinality(ResultsOf(d)) + 1
      BY <1>6, <2>1, ResultsFinite, FS_AddElement
    <2>3. Cardinality(ResultsOf(d)') + (IF Open(d)' THEN 1 ELSE 0)
             = Cardinality(ResultsOf(d)) + (IF Open(d) THEN 1 ELSE 0)
      BY <1>11, <2>2, ResultsFinite
    <2>4. \A e \in Documents : e # d =>
             Cardinality(ResultsOf(e)') + (IF Open(e)' THEN 1 ELSE 0)
             = Cardinality(ResultsOf(e)) + (IF Open(e) THEN 1 ELSE 0)
      BY <1>6, <1>11
    <2>5. QED
      BY <1>4, <2>3, <2>4 DEF Answering, ArmingsAnsweredOnce
  <1>18. ForwardedArmOnce'
    BY <1>4, <1>10 DEF Answering, ForwardedArmOnce
  <1>19. Reliable'
    <2> SUFFICES ASSUME relayFaults = 0, NEW e \in Documents
                 PROVE  OneThingUnderWay(e)' /\ LatestIsArmed(e)'
      BY <1>4 DEF Reliable
    <2>1. OneThingUnderWay(e) /\ LatestIsArmed(e)
      BY DEF Answering, Reliable
    <2>2. CASE e # d
      <3>1. \A k \in ToProject(e) : aiOutbox'[k] = aiOutbox[k]
        BY <1>2 DEF ToProject, ResultsOf
      <3>2. QED
        BY <1>4, <1>9, <1>10, <1>11, <2>1, <2>2, <3>1 DEF OneThingUnderWay, LatestIsArmed
    <2>3. CASE e = d
      <3>1. ToProject(d) = {} /\ ToForward(d) = {} /\ docs[d] = "PROCESSING"
        BY <1>11, <2>1, <2>3 DEF OneThingUnderWay
      <3>2. OneThingUnderWay(d)'
        BY <1>4, <1>9, <1>10, <1>11, <3>1 DEF OneThingUnderWay
      <3>3. /\ armedBy[d] # <<>>
            /\ \A i \in ConfirmsOf(d) : i <= LastArming(d).row
        BY <1>11, <2>1, <2>3 DEF LatestIsArmed
      <3>4. LastArming(d).from < aiOutbox'[n].attempt
        BY <1>2, <1>3, <3>3 DEF Answering, ArmingsAreOlder
      <3>5. LatestIsArmed(d)'
        BY <1>4, <1>9, <1>10, <3>1, <3>3, <3>4 DEF LatestIsArmed
      <3>6. QED
        BY <2>3, <3>2, <3>5
    <2>4. QED
      BY <2>2, <2>3
  <1>20. QED
    BY <1>12, <1>13, <1>14, <1>15, <1>16, <1>17, <1>18, <1>19 DEF Answering

\* Whatever the loops do, they keep the answers in order.
LEMMA LoopsAnswering ==
    ASSUME SeamsTyped, QueueInv, Answering, LoopOrTime, UNCHANGED seamVars
    PROVE  Answering'
  <1>1. UNCHANGED <<docs, courseOutbox, coursePublished, aiPublished, relay, armedBy,
                    relayFaults>>
    BY DEF seamVars
  <1>2. UNCHANGED arms
    BY LoopsDoNotArm
  <1>3. ArmingsAreOlder'
    <2> SUFFICES ASSUME NEW d \in Documents, armedBy[d] # <<>>
                 PROVE  /\ LastArming(d).from <= jobs'[d].attempts
                        /\ jobs'[d].status = "RUNNING" =>
                             LastArming(d).from < jobs'[d].attempts
      BY <1>1 DEF ArmingsAreOlder, LastArming
    <2>1. Ages(d)
      BY LoopsAge
    <2>2. /\ LastArming(d).from <= jobs[d].attempts
          /\ jobs[d].status = "RUNNING" => LastArming(d).from < jobs[d].attempts
      BY DEF Answering, ArmingsAreOlder
    <2>3. LastArming(d).from \in Nat
      <3>1. armedBy[d] \in Seq([row : Nat, from : Nat])
        BY DEF SeamsTyped, TypeOK
      <3>2. LastArming(d) \in [row : Nat, from : Nat]
        BY <3>1, LastIsElement DEF LastArming
      <3>3. QED
        BY <3>2
    <2>4. jobs[d].attempts \in Nat /\ jobs'[d].attempts \in Nat
      <3>1. Inv'
        BY InvStep DEF QueueInv, QueueStep
      <3>2. QED
        BY <3>1 DEF QueueInv, Inv, Typed, QueueTypeOK, JobRow
    <2>5. QED
      BY <2>1, <2>2, <2>3, <2>4 DEF Ages
  <1>4. ASSUME NEW w \in Workers, Answers(w)
        PROVE  Answering'
    <2>1. worker[w].doc \in Documents /\ Len(aiOutbox) + 1 \in Nat
      BY <1>4 DEF Answers, QueueInv, Inv, Typed, BusyLoopsHaveDocuments, QueueTypeOK
    <2>2. PICK d \in Documents, n \in Nat : d = worker[w].doc /\ n = Len(aiOutbox) + 1
      BY <2>1
    <2>3. QED
      BY <1>2, <1>3, <1>4, <2>2, AnswerAnswering
  <1>5. CASE UNCHANGED <<aiOutbox, chunks, dlq>> /\ KeepsPhases
    <2>1. /\ \A i : Forwarded(i)' <=> Forwarded(i)
          /\ \A k : Projected(k)' <=> Projected(k)
      BY <1>1 DEF Forwarded, Projected, Row
    <2>2. QED
      BY <1>1, <1>2, <1>3, <1>5, <2>1, AnsweringUndisturbed
  <1>6. QED
    BY <1>4, <1>5, LoopKinds DEF QueueInv

\* Enqueue arms a job that is not open, or finds one and does nothing.
LEMMA EnqueueKinds ==
    ASSUME Inv, NEW d \in Documents, Enqueue(d)
    PROVE  /\ UNCHANGED aiOutbox
           /\ \/ Arms(d) /\ arms' = [arms EXCEPT ![d] = @ + 1]
              \/ UNCHANGED <<jobs, arms>> /\ jobs[d].status # "ABSENT"
  <1>1. jobs \in [Documents -> JobRow] /\ jobs[d] \in JobRow
    BY DEF Inv, Typed, QueueTypeOK
  <1>2. CASE InsertJob(d)
    BY <1>1, <1>2 DEF InsertJob, NoRow, Arms, Enqueue
  <1>3. CASE RearmJob(d)
    BY <1>1, <1>3 DEF RearmJob, JobRow, Arms, Enqueue
  <1>4. CASE IgnoreJob(d)
    BY <1>4 DEF IgnoreJob, Enqueue
  <1>5. QED
    BY <1>2, <1>3, <1>4 DEF Enqueue

\* The confirms of a document are finitely many.
LEMMA ConfirmsFinite ==
    ASSUME SeamsTyped, NEW T, NEW d, T \subseteq ConfirmsOf(d)
    PROVE  IsFiniteSet(T) /\ Cardinality(T) \in Nat
  <1>1. Len(courseOutbox) \in Nat /\ DOMAIN courseOutbox = 1 .. Len(courseOutbox)
    BY DEF SeamsTyped, TypeOK
  <1>2. IsFiniteSet(DOMAIN courseOutbox)
    BY <1>1, FS_Interval
  <1>3. IsFiniteSet(T)
    BY <1>2, FS_Subset DEF ConfirmsOf
  <1>4. QED
    BY <1>3, FS_CardinalityType

\* The forwarded row either arms its job, or finds it there.
LEMMA EnqueueAnswering ==
    ASSUME SeamsTyped, QueueInv, QueueInv', Answering, ForwardEnqueue,
           NEW r \in DOMAIN courseOutbox, r = Row, NEW d \in Documents, d = courseOutbox[r]
    PROVE  Answering'
  <1>1. /\ relay.pc = "forward" /\ relay.batch # <<>>
        /\ Advance("forwardMark")
        /\ Enqueue(d)
        /\ UNCHANGED <<docs, courseOutbox, coursePublished, aiPublished, relayFaults>>
        /\ armedBy' = IF arms' = arms THEN armedBy
                      ELSE [armedBy EXCEPT ![d] =
                              Append(@, [row |-> r, from |-> jobs'[d].attempts])]
    BY DEF ForwardEnqueue
  <1>2. /\ UNCHANGED aiOutbox
        /\ \/ Arms(d) /\ arms' = [arms EXCEPT ![d] = @ + 1]
           \/ UNCHANGED <<jobs, arms>> /\ jobs[d].status # "ABSENT"
    BY <1>1, EnqueueKinds DEF QueueInv
  <1>3. relay'.pc = "forwardMark" /\ Row' = r
    BY <1>1, AdvanceMoves DEF RelayStage
  <1>4. ~ Forwarded(r) /\ r \in ConfirmsOf(d)
    <2>1. r \notin coursePublished
      BY <1>1, RowWaits DEF ForwardStages
    <2>2. QED
      BY <1>1, <2>1 DEF Forwarded, ConfirmsOf
  <1>5. /\ \A i : Forwarded(i)' <=> (Forwarded(i) \/ i = r)
        /\ \A k : Projected(k)' <=> Projected(k)
    BY <1>1, <1>3 DEF Forwarded, Projected
  <1>6. \A e \in Documents : /\ ConfirmsOf(e)' = ConfirmsOf(e)
                             /\ ResultsOf(e)' = ResultsOf(e)
                             /\ ToProject(e)' = ToProject(e)
    BY <1>1, <1>2, <1>5 DEF ConfirmsOf, ResultsOf, ToProject
  <1>7. /\ ToForward(d)' = ToForward(d) \ {r}
        /\ ForwardedOf(d)' = ForwardedOf(d) \cup {r}
        /\ r \in ToForward(d)
    BY <1>4, <1>5, <1>6 DEF ToForward, ForwardedOf
  <1>8. \A e \in Documents : e # d =>
           /\ ToForward(e)' = ToForward(e)
           /\ ForwardedOf(e)' = ForwardedOf(e)
    <2>1. \A e \in Documents : e # d => r \notin ConfirmsOf(e)
      BY DEF ConfirmsOf
    <2>2. QED
      BY <1>5, <1>6, <2>1 DEF ToForward, ForwardedOf
  <1>9. \A i \in DOMAIN courseOutbox : courseOutbox[i] \in Documents
    BY DEF SeamsTyped, TypeOK
  <1>10. arms \in [Documents -> Nat]
    BY DEF SeamsTyped, TypeOK, QueueTypeOK
  <1>11. /\ Cardinality(ForwardedOf(d)) \in Nat
         /\ Cardinality(ForwardedOf(d)') = Cardinality(ForwardedOf(d)) + 1
    <2>1. ForwardedOf(d) \subseteq ConfirmsOf(d) /\ r \notin ForwardedOf(d)
      BY <1>4 DEF ForwardedOf
    <2>2. IsFiniteSet(ForwardedOf(d)) /\ Cardinality(ForwardedOf(d)) \in Nat
      BY <2>1, ConfirmsFinite
    <2>3. Cardinality(ForwardedOf(d) \cup {r}) = Cardinality(ForwardedOf(d)) + 1
      BY <2>1, <2>2, FS_AddElement
    <2>4. QED
      BY <1>7, <2>2, <2>3
  <1>12. ASSUME relayFaults = 0
         PROVE  /\ ~ Open(d) /\ ToProject(d) = {} /\ ToForward(d)' = {}
                /\ docs[d] = "PROCESSING"
                /\ \A j \in ConfirmsOf(d) : j <= r
    <2>1. OneThingUnderWay(d)
      BY <1>12 DEF Answering, Reliable
    <2>2. \A j \in ToForward(d) : j = r
      <3>1. \A j \in ToForward(d) : j \in Nat /\ j <= r /\ r <= j
        BY <1>4, <1>7, <2>1 DEF OneThingUnderWay, ToForward, ConfirmsOf, SeamsTyped, TypeOK
      <3>2. r \in Nat
        BY <1>7, <3>1
      <3>3. QED
        BY <3>1, <3>2
    <2>3. QED
      BY <1>7, <2>1, <2>2 DEF OneThingUnderWay
  <1>13. CASE Arms(d) /\ arms' = [arms EXCEPT ![d] = @ + 1]
    <2>1. /\ arms'[d] = arms[d] + 1 /\ arms' # arms
          /\ \A e \in Documents : e # d => arms'[e] = arms[e]
      BY <1>10, <1>13
    <2>2. armedBy' = [armedBy EXCEPT ![d] =
                        Append(@, [row |-> r, from |-> jobs'[d].attempts])]
      BY <1>1, <2>1
    <2>3. /\ armedBy'[d] # <<>>
          /\ LastArming(d)' = [row |-> r, from |-> jobs'[d].attempts]
          /\ \A e \in Documents : e # d => armedBy'[e] = armedBy[e]
      <3>1. armedBy \in [Documents -> Seq([row : Nat, from : Nat])]
        BY DEF SeamsTyped, TypeOK
      <3>2. [row |-> r, from |-> jobs'[d].attempts] \in [row : Nat, from : Nat]
        <4>1. r \in Nat
          BY DEF SeamsTyped, TypeOK
        <4>2. jobs'[d].attempts \in Nat
          BY DEF QueueInv, Inv, Typed, QueueTypeOK, JobRow
        <4>3. QED
          BY <4>1, <4>2
      <3>3. armedBy'[d] = Append(armedBy[d], [row |-> r, from |-> jobs'[d].attempts])
        BY <2>2, <3>1
      <3>4. LastArming(d)' = [row |-> r, from |-> jobs'[d].attempts] /\ armedBy'[d] # <<>>
        BY <3>1, <3>2, <3>3, AppendProperties DEF LastArming
      <3>5. QED
        BY <2>2, <3>1, <3>4
    <2>4. /\ jobs'[d].status = "PENDING" /\ ~ Open(d) /\ Open(d)'
          /\ \A e \in Documents : e # d => jobs'[e] = jobs[e] /\ (Open(e)' <=> Open(e))
      BY <1>13 DEF Arms, Open
    <2>5. \A e \in Documents : e # d => LastArming(e)' = LastArming(e)
      BY <2>3 DEF LastArming
    <2>6. ResultsCount' /\ FirstConfirmWaits'
      BY <1>1, <1>2, <1>6 DEF Answering, ResultsCount, FirstConfirmWaits
    <2>7. ForwardedHaveJobs'
      BY <1>1, <1>5, <1>9, <2>4 DEF Answering, ForwardedHaveJobs
    <2>8. JobsHaveConfirms' /\ SettledHaveResults'
      BY <1>4, <1>6, <2>4 DEF Answering, JobsHaveConfirms, SettledHaveResults
    <2>9. ArmingsAnsweredOnce'
      <3>1. Cardinality(ResultsOf(d)) \in Nat
        BY ResultsFinite
      <3>2. Cardinality(ResultsOf(d)) + 1 <= arms[d] + 1
        BY <1>10, <2>4, <3>1 DEF Answering, ArmingsAnsweredOnce
      <3>3. QED
        BY <1>6, <2>1, <2>4, <3>2 DEF Answering, ArmingsAnsweredOnce
    <2>10. ArmingsAreOlder'
      <3>1. jobs'[d].attempts \in Nat
        BY DEF QueueInv, Inv, Typed, QueueTypeOK, JobRow
      <3>2. QED
        BY <2>3, <2>4, <2>5, <3>1 DEF Answering, ArmingsAreOlder
    <2>11. ForwardedArmOnce'
      <3>1. relayFaults = 0 => arms[d] + 1 <= Cardinality(ForwardedOf(d)')
        BY <1>10, <1>11 DEF Answering, ForwardedArmOnce
      <3>2. QED
        BY <1>1, <1>8, <2>1, <3>1 DEF Answering, ForwardedArmOnce
    <2>12. Reliable'
      <3> SUFFICES ASSUME relayFaults = 0, NEW e \in Documents
                   PROVE  OneThingUnderWay(e)' /\ LatestIsArmed(e)'
        BY <1>1 DEF Reliable
      <3>1. CASE e # d
        BY <1>1, <1>2, <1>6, <1>8, <2>3, <2>4, <2>5, <3>1
           DEF Answering, Reliable, OneThingUnderWay, LatestIsArmed
      <3>2. CASE e = d
        BY <1>1, <1>2, <1>6, <1>12, <2>3, <2>4, <3>2 DEF OneThingUnderWay, LatestIsArmed
      <3>3. QED
        BY <3>1, <3>2
    <2>13. QED
      BY <2>6, <2>7, <2>8, <2>9, <2>10, <2>11, <2>12 DEF Answering
  <1>14. CASE UNCHANGED <<jobs, arms>> /\ jobs[d].status # "ABSENT"
    <2>1. UNCHANGED armedBy
      BY <1>1, <1>14
    <2>2. \A e \in Documents : LastArming(e)' = LastArming(e) /\ (Open(e)' <=> Open(e))
      BY <1>14, <2>1 DEF LastArming, Open
    <2>3. ResultsCount' /\ FirstConfirmWaits'
      BY <1>1, <1>2, <1>6 DEF Answering, ResultsCount, FirstConfirmWaits
    <2>4. ForwardedHaveJobs'
      BY <1>1, <1>5, <1>9, <1>14 DEF Answering, ForwardedHaveJobs
    <2>5. JobsHaveConfirms' /\ SettledHaveResults' /\ ArmingsAnsweredOnce' /\ ArmingsAreOlder'
      BY <1>6, <1>14, <2>1, <2>2
         DEF Answering, JobsHaveConfirms, SettledHaveResults, ArmingsAnsweredOnce, ArmingsAreOlder
    <2>6. ForwardedArmOnce'
      <3>1. relayFaults = 0 => arms[d] <= Cardinality(ForwardedOf(d)')
        BY <1>10, <1>11 DEF Answering, ForwardedArmOnce
      <3>2. QED
        BY <1>1, <1>8, <1>14, <3>1 DEF Answering, ForwardedArmOnce
    <2>7. Reliable'
      <3> SUFFICES ASSUME relayFaults = 0, NEW e \in Documents
                   PROVE  OneThingUnderWay(e)' /\ LatestIsArmed(e)'
        BY <1>1 DEF Reliable
      <3>1. CASE e # d
        BY <1>1, <1>2, <1>6, <1>8, <2>1, <2>2, <3>1
           DEF Answering, Reliable, OneThingUnderWay, LatestIsArmed
      <3>2. CASE e = d
        BY <1>1, <1>2, <1>6, <1>12, <2>2, <3>2 DEF OneThingUnderWay, LatestIsArmed
      <3>3. QED
        BY <3>1, <3>2
    <2>8. QED
      BY <2>3, <2>4, <2>5, <2>6, <2>7 DEF Answering
  <1>15. QED
    BY <1>2, <1>13, <1>14

\* A document with results has a job.
LEMMA ResultsHaveJobs ==
    ASSUME QueueInv, Answering, NEW d \in Documents, jobs[d].status = "ABSENT"
    PROVE  ResultsOf(d) = {}
  <1> SUFFICES ASSUME NEW k \in ResultsOf(d) PROVE FALSE
    OBVIOUS
  <1>1. k \in DOMAIN aiOutbox /\ aiOutbox[k].doc = d
    BY DEF ResultsOf
  <1>2. aiOutbox[k].attempt <= jobs[d].attempts /\ jobs[d].attempts = 0
    BY <1>1 DEF QueueInv, Inv, AttemptFence, OutcomesArePast, AbsentIsFresh
  <1>3. aiOutbox[k].attempt > 0
    BY <1>1 DEF Answering, ResultsCount
  <1>4. aiOutbox[k].attempt \in Nat
    <2>1. aiOutbox \in Seq(Event)
      BY DEF QueueInv, Inv, Typed, QueueTypeOK
    <2>2. aiOutbox[k] \in Event
      BY <1>1, <2>1
    <2>3. QED
      BY <2>2 DEF Event
  <1>5. QED
    BY <1>2, <1>3, <1>4

\* A confirm is new work: the document waited for nothing, and waits for its
\* newest row now.
LEMMA ConfirmAnswering ==
    ASSUME SeamsTyped, QueueInv, Answering, NEW d \in Documents, Confirm(d),
           NEW c \in Nat, c = Len(courseOutbox) + 1
    PROVE  Answering'
  <1>1. /\ docs[d] # "PROCESSING" /\ docs' = [docs EXCEPT ![d] = "PROCESSING"]
        /\ courseOutbox' = Append(courseOutbox, d)
        /\ UNCHANGED <<jobs, aiOutbox, arms, coursePublished, aiPublished, relay, armedBy,
                       relayFaults>>
    BY DEF Confirm, queueVars
  <1>2. /\ courseOutbox \in Seq(Documents) /\ docs \in [Documents -> DocumentStatus]
        /\ coursePublished \subseteq DOMAIN courseOutbox
    BY DEF SeamsTyped, TypeOK
  <1>3. /\ DOMAIN courseOutbox = 1 .. Len(courseOutbox) /\ Len(courseOutbox) \in Nat
        /\ DOMAIN courseOutbox' = DOMAIN courseOutbox \cup {c} /\ c \notin DOMAIN courseOutbox
        /\ courseOutbox'[c] = d
        /\ \A i \in DOMAIN courseOutbox : courseOutbox'[i] = courseOutbox[i]
    BY <1>1, <1>2
  <1>4. /\ docs'[d] = "PROCESSING"
        /\ \A e \in Documents : e # d => docs'[e] = docs[e]
    BY <1>1, <1>2
  <1>5. /\ \A i : Forwarded(i)' <=> Forwarded(i)
        /\ \A k : Projected(k)' <=> Projected(k)
    BY <1>1 DEF Forwarded, Projected, Row
  <1>6. ~ Forwarded(c)
    <2>1. relay.pc = "forwardMark" => Row \in DOMAIN courseOutbox
      BY RowWaits DEF SeamsTyped, BatchIsWaiting, ForwardStages
    <2>2. QED
      BY <1>2, <1>3, <2>1 DEF Forwarded
  <1>7. /\ ConfirmsOf(d)' = ConfirmsOf(d) \cup {c}
        /\ \A e \in Documents : e # d => ConfirmsOf(e)' = ConfirmsOf(e)
    BY <1>3 DEF ConfirmsOf
  <1>8. /\ ToForward(d)' = ToForward(d) \cup {c}
        /\ \A e \in Documents : e # d => ToForward(e)' = ToForward(e)
        /\ \A e \in Documents : ForwardedOf(e)' = ForwardedOf(e)
    BY <1>5, <1>6, <1>7 DEF ToForward, ForwardedOf
  <1>9. \A e \in Documents : /\ ResultsOf(e)' = ResultsOf(e)
                             /\ ToProject(e)' = ToProject(e)
                             /\ LastArming(e)' = LastArming(e)
                             /\ Open(e)' <=> Open(e)
    BY <1>1, <1>5 DEF ResultsOf, ToProject, LastArming, Open
  <1>10. ForwardedHaveJobs'
    BY <1>1, <1>3, <1>5, <1>6 DEF Answering, ForwardedHaveJobs
  <1>11. JobsHaveConfirms'
    BY <1>1, <1>7 DEF Answering, JobsHaveConfirms
  <1>12. /\ ResultsCount' /\ SettledHaveResults' /\ ArmingsAnsweredOnce'
         /\ ArmingsAreOlder' /\ ForwardedArmOnce'
    BY <1>1, <1>8, <1>9 DEF Answering, ResultsCount, SettledHaveResults, ArmingsAnsweredOnce,
                            ArmingsAreOlder, ForwardedArmOnce
  <1>13. FirstConfirmWaits'
    <2> SUFFICES ASSUME NEW e \in Documents, docs'[e] = "PROCESSING",
                        NEW i \in DOMAIN courseOutbox', ConfirmsOf(e)' = {i}
                 PROVE  ToProject(e)' = ResultsOf(e)'
      BY DEF FirstConfirmWaits
    <2>1. CASE e = d
      <3>1. c \notin ConfirmsOf(d)
        BY <1>3 DEF ConfirmsOf
      <3>2. ConfirmsOf(d) = {}
        BY <1>7, <2>1, <3>1
      <3>3. jobs[d].status = "ABSENT"
        BY <3>2 DEF Answering, JobsHaveConfirms
      <3>4. ResultsOf(d) = {}
        BY <3>3, ResultsHaveJobs
      <3>5. QED
        BY <1>9, <2>1, <3>4 DEF ToProject
    <2>2. CASE e # d
      <3>1. ConfirmsOf(e) = {i} /\ i \in DOMAIN courseOutbox
        BY <1>7, <2>2 DEF ConfirmsOf
      <3>2. QED
        BY <1>4, <1>9, <2>2, <3>1 DEF Answering, FirstConfirmWaits
    <2>3. QED
      BY <2>1, <2>2
  <1>14. Reliable'
    <2> SUFFICES ASSUME relayFaults = 0, NEW e \in Documents
                 PROVE  OneThingUnderWay(e)' /\ LatestIsArmed(e)'
      BY <1>1 DEF Reliable
    <2>1. OneThingUnderWay(e) /\ LatestIsArmed(e)
      BY DEF Answering, Reliable
    <2>2. CASE e # d
      BY <1>1, <1>4, <1>7, <1>8, <1>9, <2>1, <2>2 DEF OneThingUnderWay, LatestIsArmed
    <2>3. CASE e = d
      <3>1. ToForward(d) = {} /\ ~ Open(d) /\ ToProject(d) = {}
        BY <1>1, <2>1, <2>3 DEF OneThingUnderWay
      <3>2. \A j \in ConfirmsOf(d) \cup {c} : j <= c
        BY <1>3 DEF ConfirmsOf
      <3>3. QED
        BY <1>4, <1>7, <1>8, <1>9, <2>3, <3>1, <3>2 DEF OneThingUnderWay, LatestIsArmed
    <2>4. QED
      BY <2>2, <2>3
  <1>15. QED
    BY <1>10, <1>11, <1>12, <1>13, <1>14 DEF Answering

\* The projection ends a document's waiting, with its only result.
LEMMA ProjectAnswering ==
    ASSUME SeamsTyped, Answering, Project, NEW r \in DOMAIN aiOutbox, r = Row,
           NEW d \in Documents, d = aiOutbox[r].doc
    PROVE  Answering'
  <1>1. /\ relay.batch # <<>> /\ relay.pc \in {"return", "project", "terminalize"}
        /\ Advance("returnMark")
        /\ UNCHANGED <<jobs, aiOutbox, arms, courseOutbox, coursePublished, aiPublished, armedBy,
                       relayFaults>>
        /\ \E status \in {"READY", "FAILED"} : ProjectStatus(d, status)
    BY DEF Project, queueVars
  <1>2. relay'.pc = "returnMark" /\ Row' = r
    BY <1>1, AdvanceMoves DEF RelayStage
  <1>3. /\ docs'[d] # "PROCESSING"
        /\ \A e \in Documents : e # d => docs'[e] = docs[e]
    BY <1>1 DEF ProjectStatus, SeamsTyped, TypeOK
  <1>4. ~ Projected(r) /\ r \in ResultsOf(d)
    BY <1>1, RowWaits DEF ReturnStages, Projected, ResultsOf
  <1>5. /\ \A i : Forwarded(i)' <=> Forwarded(i)
        /\ \A k : Projected(k)' <=> (Projected(k) \/ k = r)
    BY <1>1, <1>2 DEF Forwarded, Projected
  <1>6. \A e \in Documents : /\ ConfirmsOf(e)' = ConfirmsOf(e)
                             /\ ToForward(e)' = ToForward(e)
                             /\ ForwardedOf(e)' = ForwardedOf(e)
                             /\ ResultsOf(e)' = ResultsOf(e)
                             /\ LastArming(e)' = LastArming(e)
                             /\ Open(e)' <=> Open(e)
    BY <1>1, <1>5 DEF ConfirmsOf, ToForward, ForwardedOf, ResultsOf, LastArming, Open
  <1>7. /\ ToProject(d)' = ToProject(d) \ {r} /\ r \in ToProject(d)
        /\ \A e \in Documents : e # d => ToProject(e)' = ToProject(e)
    <2>1. \A e \in Documents : e # d => r \notin ResultsOf(e)
      BY DEF ResultsOf
    <2>2. QED
      BY <1>4, <1>5, <1>6, <2>1 DEF ToProject
  <1>8. ResultsCount' /\ ForwardedHaveJobs' /\ JobsHaveConfirms' /\ SettledHaveResults'
    BY <1>1, <1>5, <1>6
       DEF Answering, ResultsCount, ForwardedHaveJobs, JobsHaveConfirms, SettledHaveResults
  <1>9. ArmingsAnsweredOnce' /\ ArmingsAreOlder' /\ ForwardedArmOnce'
    BY <1>1, <1>6 DEF Answering, ArmingsAnsweredOnce, ArmingsAreOlder, ForwardedArmOnce
  <1>10. FirstConfirmWaits'
    BY <1>1, <1>3, <1>6, <1>7 DEF Answering, FirstConfirmWaits
  <1>11. Reliable'
    <2> SUFFICES ASSUME relayFaults = 0, NEW e \in Documents
                 PROVE  OneThingUnderWay(e)' /\ LatestIsArmed(e)'
      BY <1>1 DEF Reliable
    <2>1. OneThingUnderWay(e) /\ LatestIsArmed(e)
      BY DEF Answering, Reliable
    <2>2. CASE e # d
      BY <1>1, <1>3, <1>6, <1>7, <2>1, <2>2 DEF OneThingUnderWay, LatestIsArmed
    <2>3. CASE e = d
      <3>1. ~ Open(d) /\ ToForward(d) = {} /\ ToProject(d)' = {}
        BY <1>7, <2>1, <2>3 DEF OneThingUnderWay
      <3>2. QED
        BY <1>3, <1>6, <2>3, <3>1 DEF OneThingUnderWay, LatestIsArmed
    <2>4. QED
      BY <2>2, <2>3
  <1>12. QED
    BY <1>8, <1>9, <1>10, <1>11 DEF Answering

\* A fault of the relay forgets at most what was done and not yet marked.
LEMMA FaultAnswering ==
    ASSUME SeamsTyped, Answering, RelayFault
    PROVE  Answering'
  <1>1. /\ UNCHANGED <<jobs, aiOutbox, arms, docs, courseOutbox, coursePublished, aiPublished,
                       armedBy>>
        /\ relayFaults' = relayFaults + 1
        /\ relay'.pc = "idle"
    BY DEF RelayFault, queueVars, IdleRelay
  <1>2. relayFaults' # 0
    BY <1>1, PipelineAssumption DEF SeamsTyped, TypeOK
  <1>3. /\ \A i : Forwarded(i)' => Forwarded(i)
        /\ \A k : Projected(k)' => Projected(k)
    BY <1>1 DEF Forwarded, Projected
  <1>4. \A d \in Documents : /\ ConfirmsOf(d)' = ConfirmsOf(d)
                             /\ ResultsOf(d)' = ResultsOf(d)
                             /\ LastArming(d)' = LastArming(d)
                             /\ Open(d)' <=> Open(d)
    BY <1>1 DEF ConfirmsOf, ResultsOf, LastArming, Open
  <1>5. /\ ResultsCount' /\ ForwardedHaveJobs' /\ JobsHaveConfirms' /\ SettledHaveResults'
        /\ ArmingsAnsweredOnce' /\ ArmingsAreOlder'
    BY <1>1, <1>3, <1>4 DEF Answering, ResultsCount, ForwardedHaveJobs, JobsHaveConfirms,
                            SettledHaveResults, ArmingsAnsweredOnce, ArmingsAreOlder
  <1>6. FirstConfirmWaits'
    <2>1. \A d \in Documents : ToProject(d) = ResultsOf(d) => ToProject(d)' = ResultsOf(d)'
      BY <1>3, <1>4 DEF ToProject
    <2>2. QED
      BY <1>1, <1>4, <2>1 DEF Answering, FirstConfirmWaits
  <1>7. ForwardedArmOnce' /\ Reliable'
    BY <1>2 DEF ForwardedArmOnce, Reliable
  <1>8. QED
    BY <1>5, <1>6, <1>7 DEF Answering

(***************************************************************************)
(* Quizzes                                                                 *)
(***************************************************************************)

\* READY follows the quiz, and the quiz a READY result.
LEMMA QuizStep ==
    ASSUME SeamsTyped, QueueInv, Answering, ReadyHasQuiz, QuizHasResult, [Next]_vars
    PROVE  ReadyHasQuiz' /\ QuizHasResult'
  <1>1. CASE QueueProgress \/ QueueFault
    <2>1. /\ UNCHANGED <<docs, quizzes, relay, reader>>
          /\ DOMAIN aiOutbox \subseteq DOMAIN aiOutbox'
          /\ \A k \in DOMAIN aiOutbox : aiOutbox'[k] = aiOutbox[k]
      BY <1>1, LoopsAreLoopOrTime, LogGrows DEF seamVars
    <2>2. relay.pc = "project" => Row \in DOMAIN aiOutbox
      BY RowWaits DEF SeamsTyped, BatchIsWaiting, ReturnStages
    <2>3. ReadyHasQuiz'
      BY <2>1, <2>2 DEF ReadyHasQuiz, ReadySeenHasQuiz, Row
    <2>4. QuizHasResult'
      BY <2>1 DEF QuizHasResult, ResultsOf
    <2>5. QED
      BY <2>3, <2>4
  <1>2. CASE Request
    <2>1. UNCHANGED <<aiOutbox, quizzes, relay>>
      BY <1>2 DEF Request, Confirm, ReadDocument, ReadQuiz, queueVars
    <2>2. \A d \in Documents : docs'[d] = "READY" => docs[d] = "READY"
      BY <1>2 DEF Request, Confirm, ReadDocument, ReadQuiz, SeamsTyped, TypeOK
    <2>3. ReadySeenHasQuiz'
      <3>1. CASE UNCHANGED reader
        BY <2>1, <3>1 DEF ReadyHasQuiz, ReadySeenHasQuiz
      <3>2. CASE ReadQuiz
        BY <3>2 DEF ReadQuiz, NoRequest, ReadySeenHasQuiz
      <3>3. ASSUME NEW d \in Documents, ReadDocument(d) PROVE ReadySeenHasQuiz'
        BY <2>1, <3>3 DEF ReadDocument, ReadyHasQuiz, ReadySeenHasQuiz
      <3>4. QED
        BY <1>2, <3>1, <3>2, <3>3 DEF Request, Confirm
    <2>4. QED
      BY <2>1, <2>2, <2>3 DEF ReadyHasQuiz, QuizHasResult, ResultsOf, Row
  <1>3. CASE \/ ReadCourseOutbox \/ ForwardMark \/ ReadAiOutbox \/ ReturnMark \/ EndCycle
             \/ RelayFault \/ ForwardEnqueue
    <2>1. UNCHANGED <<aiOutbox, docs, quizzes, reader>>
      BY <1>3 DEF ReadCourseOutbox, ForwardMark, ReadAiOutbox, ReturnMark, EndCycle, RelayFault,
                  ForwardEnqueue, Enqueue, queueVars
    <2>2. relay'.pc # "project"
      <3>1. CASE ForwardEnqueue
        BY <3>1, AdvanceMoves DEF ForwardEnqueue, RelayStage
      <3>2. CASE ~ ForwardEnqueue
        BY <1>3, <3>2 DEF ReadCourseOutbox, ForwardMark, ReadAiOutbox, ReturnMark, EndCycle,
                          RelayFault, NextRow, IdleRelay
      <3>3. QED
        BY <3>1, <3>2
    <2>3. QED
      BY <2>1, <2>2 DEF ReadyHasQuiz, ReadySeenHasQuiz, QuizHasResult, ResultsOf
  <1>4. CASE PersistQuiz
    <2>1. PICK r \in DOMAIN aiOutbox : r = Row /\ aiOutbox[r] \in Event
      BY <1>4, RowWaits DEF PersistQuiz, ReturnStages
    <2>2. PICK d \in Documents : d = aiOutbox[r].doc
      BY <2>1 DEF Event
    <2>3. /\ UNCHANGED <<aiOutbox, docs, reader>>
          /\ aiOutbox[r].status = "READY"
          /\ \/ /\ quizzes' = [quizzes EXCEPT ![d] = IF @ = 0 THEN aiOutbox[r].attempt ELSE @]
                /\ Advance("project")
             \/ UNCHANGED quizzes /\ Advance("terminalize")
      BY <1>4, <2>1, <2>2 DEF PersistQuiz, queueVars
    <2>4. aiOutbox[r].attempt # 0
      BY <2>1 DEF Answering, ResultsCount, Event
    <2>5. /\ \A e \in Documents : quizzes'[e] # quizzes[e] =>
                e = d /\ quizzes'[d] = aiOutbox[r].attempt
          /\ \A e \in Documents : quizzes[e] # 0 => quizzes'[e] = quizzes[e]
          /\ relay'.pc = "project" => quizzes'[d] # 0
          /\ Row' = r
      BY <2>1, <2>3, <2>4, AdvanceMoves DEF RelayStage, SeamsTyped, TypeOK
    <2>6. QuizHasResult'
      <3>1. \A e \in Documents : ResultsOf(e)' = ResultsOf(e)
        BY <2>3 DEF ResultsOf
      <3>2. r \in ResultsOf(d)
        BY <2>2 DEF ResultsOf
      <3>3. QED
        BY <2>3, <2>5, <3>1, <3>2 DEF QuizHasResult
    <2>7. ReadyHasQuiz'
      <3>1. reader.doc # NoDocument => reader.doc \in Documents
        BY DEF SeamsTyped, TypeOK
      <3>2. ReadySeenHasQuiz'
        BY <2>3, <2>5, <3>1 DEF ReadyHasQuiz, ReadySeenHasQuiz
      <3>3. \A e \in Documents : docs'[e] = "READY" => quizzes'[e] # 0
        BY <2>3, <2>5 DEF ReadyHasQuiz
      <3>4. relay'.pc = "project" => quizzes'[aiOutbox'[Row'].doc] # 0
        BY <2>2, <2>3, <2>5
      <3>5. QED
        BY <3>2, <3>3, <3>4 DEF ReadyHasQuiz
    <2>8. QED
      BY <2>6, <2>7
  <1>5. CASE Project
    <2>1. /\ UNCHANGED <<aiOutbox, quizzes, reader>>
          /\ Advance("returnMark")
      BY <1>5 DEF Project, queueVars
    <2>2. relay'.pc = "returnMark"
      BY <2>1, AdvanceMoves DEF RelayStage
    <2>3. \A d \in Documents : docs'[d] = "READY" => quizzes[d] # 0
      <3>1. CASE relay.pc = "project" /\ ProjectStatus(aiOutbox[Row].doc, "READY")
        BY <3>1 DEF ProjectStatus, ReadyHasQuiz, SeamsTyped, TypeOK
      <3>2. CASE ProjectStatus(aiOutbox[Row].doc, "FAILED")
        BY <3>2 DEF ProjectStatus, ReadyHasQuiz, SeamsTyped, TypeOK
      <3>3. QED
        BY <1>5, <3>1, <3>2 DEF Project
    <2>4. QED
      BY <2>1, <2>2, <2>3 DEF ReadyHasQuiz, ReadySeenHasQuiz, QuizHasResult, ResultsOf
  <1>6. CASE UNCHANGED vars
    <2>1. UNCHANGED <<aiOutbox, docs, quizzes, relay, reader>>
      BY <1>6 DEF vars, queueVars, seamVars
    <2>2. QED
      BY <2>1 DEF ReadyHasQuiz, ReadySeenHasQuiz, QuizHasResult, ResultsOf, Row
  <1>7. QED
    BY <1>1, <1>2, <1>3, <1>4, <1>5, <1>6 DEF Next, RelayStep

(***************************************************************************)
(* The theorems                                                            *)
(***************************************************************************)

\* Every step keeps the account of confirms, armings and results.
LEMMA AnsweringStep ==
    ASSUME SeamsTyped, QueueInv, Answering, [Next]_vars
    PROVE  Answering'
  <1>1. QueueInv'
    BY PipelineIsQueueStep, QueueInvStep
  <1>2. CASE QueueProgress \/ QueueFault
    BY <1>2, LoopsAreLoopOrTime, LoopsAnswering
  <1>3. CASE ForwardEnqueue
    <2>1. PICK r \in DOMAIN courseOutbox, d \in Documents : r = Row /\ d = courseOutbox[r]
      BY <1>3, RowWaits DEF ForwardEnqueue, ForwardStages
    <2>2. QED
      BY <1>1, <1>3, <2>1, EnqueueAnswering
  <1>4. ASSUME NEW d \in Documents, Confirm(d)
        PROVE  Answering'
    <2>1. Len(courseOutbox) + 1 \in Nat
      BY DEF SeamsTyped, TypeOK
    <2>2. PICK c \in Nat : c = Len(courseOutbox) + 1
      BY <2>1
    <2>3. QED
      BY <1>4, <2>2, ConfirmAnswering
  <1>5. CASE Project
    <2>1. /\ Row \in DOMAIN aiOutbox
          /\ aiOutbox[Row] \in Event
      BY <1>5, RowWaits DEF Project, ReturnStages
    <2>2. PICK r \in DOMAIN aiOutbox, d \in Documents : r = Row /\ d = aiOutbox[r].doc
      BY <2>1 DEF Event
    <2>3. QED
      BY <1>5, <2>2, ProjectAnswering
  <1>6. CASE RelayFault
    BY <1>6, FaultAnswering
  <1>7. CASE \/ ReadQuiz \/ (\E d \in Documents : ReadDocument(d)) \/ ReadCourseOutbox
             \/ ReadAiOutbox \/ ForwardMark \/ ReturnMark \/ PersistQuiz \/ EndCycle
    BY <1>7, QuietAnswering
  <1>8. CASE UNCHANGED vars
    <2>1. UNCHANGED <<jobs, aiOutbox, arms, docs, courseOutbox, coursePublished, aiPublished,
                      relay, armedBy, relayFaults>>
      BY <1>8 DEF vars, queueVars, seamVars
    <2>2. ArmingsAreOlder' /\ KeepsPhases
      BY <2>1 DEF Answering, ArmingsAreOlder, LastArming, KeepsPhases
    <2>3. /\ \A i : Forwarded(i)' <=> Forwarded(i)
          /\ \A k : Projected(k)' <=> Projected(k)
      BY <2>1 DEF Forwarded, Projected, Row
    <2>4. QED
      BY <2>1, <2>2, <2>3, AnsweringUndisturbed
  <1>9. QED
    BY <1>2, <1>3, <1>4, <1>5, <1>6, <1>7, <1>8 DEF Next, RelayStep, Request

\* The empty tables satisfy the inductive invariant, ...
LEMMA PipelineInitially == Init => PipelineInv
  <1> SUFFICES ASSUME Init PROVE PipelineInv
    OBVIOUS
  <1>1. QueueInit /\ Inv /\ Outcomes
    BY InvInit, OutcomesInit DEF Init
  <1>2. QueueInv
    BY <1>1 DEF QueueInv, ClaimsCount, QueueInit, Idle
  <1>3. SeamsTyped
    <2>1. QueueTypeOK
      BY <1>1 DEF Inv, Typed
    <2>2. TypeOK
      BY <2>1, PipelineAssumption DEF Init, TypeOK, IdleRelay, RelayStage, NoRequest, DocumentStatus
    <2>3. BatchIsWaiting
      BY DEF Init, BatchIsWaiting, IdleRelay, ForwardStages, ReturnStages, Distinct
    <2>4. QED
      BY <2>2, <2>3 DEF SeamsTyped
  <1>4. /\ \A d \in Documents : /\ ConfirmsOf(d) = {} /\ ResultsOf(d) = {} /\ ~ Open(d)
                                /\ ToForward(d) = {} /\ ToProject(d) = {} /\ ForwardedOf(d) = {}
                                /\ jobs[d].status = "ABSENT" /\ arms[d] = 0 /\ armedBy[d] = <<>>
        /\ DOMAIN aiOutbox = {} /\ DOMAIN courseOutbox = {}
    BY DEF Init, QueueInit, ConfirmsOf, ResultsOf, Open, ToForward, ToProject, ForwardedOf, NoRow
  <1>5. Answering
    <2>1. ResultsCount /\ ForwardedHaveJobs /\ JobsHaveConfirms /\ SettledHaveResults
          /\ FirstConfirmWaits /\ ArmingsAreOlder
      BY <1>4 DEF ResultsCount, ForwardedHaveJobs, JobsHaveConfirms, SettledHaveResults,
                  FirstConfirmWaits, ArmingsAreOlder
    <2>2. ArmingsAnsweredOnce /\ ForwardedArmOnce
      <3>1. Cardinality({}) = 0
        BY FS_EmptySet
      <3>2. \A d \in Documents : Cardinality(ResultsOf(d)) = 0 /\ Cardinality(ForwardedOf(d)) = 0
        BY <1>4, <3>1
      <3>3. ArmingsAnsweredOnce
        BY <1>4, <3>2 DEF ArmingsAnsweredOnce
      <3>4. ForwardedArmOnce
        BY <1>4, <3>2 DEF ForwardedArmOnce
      <3>5. QED
        BY <3>3, <3>4
    <2>3. Reliable
      BY <1>4 DEF Reliable, OneThingUnderWay, LatestIsArmed
    <2>4. QED
      BY <2>1, <2>2, <2>3 DEF Answering
  <1>6. ReadyHasQuiz /\ QuizHasResult
    BY DEF Init, ReadyHasQuiz, ReadySeenHasQuiz, QuizHasResult, IdleRelay, NoRequest
  <1>7. QED
    BY <1>2, <1>3, <1>5, <1>6 DEF PipelineInv

\* ... every step keeps it, ...
LEMMA PipelineStep == PipelineInv /\ [Next]_vars => PipelineInv'
  BY PipelineIsQueueStep, QueueInvStep, SeamsTypedStep, AnsweringStep, QuizStep DEF PipelineInv

\* ... and so it holds throughout.
LEMMA PipelineInvariant == Spec => []PipelineInv
  BY PipelineInitially, PipelineStep, PTL DEF Spec

\* Every table of the three schemas and the relay's position keep their shape.
THEOREM PipelineTypeCorrect == Spec => []TypeOK
  <1>1. PipelineInv => TypeOK
    BY DEF PipelineInv, SeamsTyped
  <1>2. QED
    BY <1>1, PipelineInvariant, PTL

\* The fence of the queue and what it gives the readers of the log hold with the
\* relay as the caller, however often it delivers a row.
THEOREM PipelineKeepsFence == Spec => [](AttemptFence /\ Outcomes)
  <1>1. PipelineInv => AttemptFence /\ Outcomes
    BY DEF PipelineInv, QueueInv, Inv
  <1>2. QED
    BY <1>1, PipelineInvariant, PTL

\* Whoever saw a document READY finds its quiz.
THEOREM ReadyAnswersQuiz == Spec => []ReadySeenHasQuiz
  <1>1. PipelineInv => ReadySeenHasQuiz
    BY DEF PipelineInv, ReadyHasQuiz
  <1>2. QED
    BY <1>1, PipelineInvariant, PTL

\* The quiz is of the attempt whose chunks are stored: the relay takes the first
\* READY result, and there is no second one.
THEOREM CitationsAreStored == Spec => []QuizCitesStoredChunks
  <1>1. PipelineInv => QuizCitesStoredChunks
    BY DEF PipelineInv, QueueInv, Outcomes, ReadyChunksAreStored, QuizHasResult, ResultsOf,
           QuizCitesStoredChunks
  <1>2. QED
    BY <1>1, PipelineInvariant, PTL

\* In the invariant, a document confirmed once never waits for nothing.
LEMMA FirstConfirmFindsWork ==
    PipelineInv => FirstConfirmIsUnderWay
  <1> SUFFICES ASSUME PipelineInv, NEW d \in Documents, docs[d] = "PROCESSING",
                      Cardinality(ConfirmsOf(d)) = 1,
                      \A i \in ConfirmsOf(d) : i \in coursePublished,
                      ~ Open(d)
               PROVE  \E k \in DOMAIN aiOutbox : aiOutbox[k].doc = d /\ k \notin aiPublished
    BY DEF FirstConfirmIsUnderWay, AnswerUnderWay, Open
  <1>1. PICK i : ConfirmsOf(d) = {i}
    BY ConfirmsFinite, FS_Singleton DEF PipelineInv
  <1>2. i \in DOMAIN courseOutbox /\ courseOutbox[i] = d /\ Forwarded(i)
    BY <1>1 DEF ConfirmsOf, Forwarded
  <1>3. jobs[d].status # "ABSENT"
    BY <1>2 DEF PipelineInv, Answering, ForwardedHaveJobs
  <1>4. jobs[d].status \in {"COMPLETED", "FAILED"}
    BY <1>3 DEF PipelineInv, QueueInv, Inv, Typed, QueueTypeOK, JobRow, Status, Open
  <1>5. ResultsOf(d) # {} /\ ToProject(d) = ResultsOf(d)
    BY <1>1, <1>2, <1>4 DEF PipelineInv, Answering, SettledHaveResults, FirstConfirmWaits
  <1>6. QED
    BY <1>5 DEF ToProject, ResultsOf, Projected

\* A document confirmed once never waits for nothing.
THEOREM FirstConfirmIsAnswered == Spec => []FirstConfirmIsUnderWay
  BY FirstConfirmFindsWork, PipelineInvariant, PTL

\* Without a fault of the relay no document gets more results than confirms.
THEOREM LoopsAnswerConfirmsOnly == Spec => []LoopsAddNoOutcome
  <1>1. PipelineInv => LoopsAddNoOutcome
    <2> SUFFICES ASSUME PipelineInv, relayFaults = 0, NEW d \in Documents
                 PROVE  Cardinality(ResultsOf(d)) <= Cardinality(ConfirmsOf(d))
      BY DEF LoopsAddNoOutcome, OneOutcomePerConfirm, ResultsOf
    <2>1. Cardinality(ResultsOf(d)) \in Nat
      BY ResultsFinite DEF PipelineInv
    <2>2. Cardinality(ResultsOf(d)) <= arms[d]
      <3>1. arms[d] \in Nat
        BY DEF PipelineInv, SeamsTyped, TypeOK, QueueTypeOK
      <3>2. QED
        BY <2>1, <3>1 DEF PipelineInv, Answering, ArmingsAnsweredOnce
    <2>3. arms[d] <= Cardinality(ForwardedOf(d))
      BY DEF PipelineInv, Answering, ForwardedArmOnce
    <2>4. /\ IsFiniteSet(ConfirmsOf(d)) /\ Cardinality(ConfirmsOf(d)) \in Nat
          /\ ForwardedOf(d) \subseteq ConfirmsOf(d)
      BY ConfirmsFinite DEF PipelineInv, ForwardedOf
    <2>5. /\ Cardinality(ForwardedOf(d)) <= Cardinality(ConfirmsOf(d))
          /\ Cardinality(ForwardedOf(d)) \in Nat
      BY <2>4, FS_Subset, FS_CardinalityType
    <2>6. arms[d] \in Nat
      BY DEF PipelineInv, SeamsTyped, TypeOK, QueueTypeOK
    <2>7. QED
      BY <2>1, <2>2, <2>3, <2>4, <2>5, <2>6
  <1>2. QED
    BY <1>1, PipelineInvariant, PTL

\* A relay that has not failed settles a document by the answer to its latest
\* confirm.
THEOREM LatestConfirmIsAnswered == Spec => ReliableRelayAnswersLatestConfirm
  <1>1. PipelineInv /\ [Next]_vars => [relayFaults = 0 => AnswersLatest]_vars
    <2> SUFFICES ASSUME PipelineInv, [Next]_vars, relayFaults = 0, NEW d \in Documents,
                        docs[d] = "PROCESSING", docs'[d] # "PROCESSING",
                        NEW i \in ConfirmsOf(d)
                 PROVE  i <= ConfirmAnsweredBy(aiOutbox[Row])
      BY DEF AnswersLatest
    <2>1. Project
      <3>1. UNCHANGED docs \/ Project \/ \E e \in Documents : Confirm(e)
        BY DEF Next, Request, RelayStep, QueueProgress, QueueFault, seamVars, vars, ReadQuiz,
               ReadDocument, ReadCourseOutbox, ForwardEnqueue, ForwardMark, ReadAiOutbox,
               PersistQuiz, ReturnMark, EndCycle, RelayFault
      <3>2. ASSUME NEW e \in Documents, Confirm(e) PROVE docs'[d] = "PROCESSING"
        BY <3>2 DEF Confirm, PipelineInv, SeamsTyped, TypeOK
      <3>3. QED
        BY <3>1, <3>2
    <2>2. /\ Row \in DOMAIN aiOutbox /\ Row \notin aiPublished
          /\ relay.pc # "returnMark"
      BY <2>1, RowWaits DEF Project, ReturnStages, PipelineInv
    <2>3. aiOutbox[Row].doc = d
      BY <2>1 DEF Project, ProjectStatus, PipelineInv, SeamsTyped, TypeOK
    <2>4. Row \in ToProject(d)
      BY <2>2, <2>3 DEF ToProject, ResultsOf, Projected
    <2>5. /\ armedBy[d] # <<>>
          /\ i <= LastArming(d).row
          /\ LastArming(d).from < aiOutbox[Row].attempt
      BY <2>4 DEF PipelineInv, Answering, Reliable, LatestIsArmed
    <2> DEFINE earlier == {k \in DOMAIN armedBy[d] : armedBy[d][k].from < aiOutbox[Row].attempt}
               last == Len(armedBy[d])
    <2>6. /\ armedBy[d] \in Seq([row : Nat, from : Nat])
          /\ last \in Nat /\ DOMAIN armedBy[d] = 1 .. last
      BY DEF PipelineInv, SeamsTyped, TypeOK
    <2>7. last \in earlier /\ \A j \in earlier : j \in Nat /\ j <= last
      <3>1. last \in DOMAIN armedBy[d]
        BY <2>5, <2>6, LastIsElement
      <3>2. last \in earlier
        BY <2>5, <3>1 DEF LastArming
      <3>3. QED
        BY <2>6, <3>2
    <2> HIDE DEF earlier, last
    <2>8. (CHOOSE k \in earlier : \A j \in earlier : j <= k) = last
      <3>1. \A k \in earlier : (\A j \in earlier : j <= k) => k = last
        <4> TAKE k \in earlier
        <4>1. k \in Nat /\ k <= last /\ last \in Nat
          BY <2>6, <2>7
        <4>2. (\A j \in earlier : j <= k) => last <= k
          BY <2>7
        <4>3. QED
          BY <4>1, <4>2
      <3>2. QED
        BY <2>7, <3>1
    <2>9. ConfirmAnsweredBy(aiOutbox[Row]) = LastArming(d).row
      BY <2>3, <2>8 DEF ConfirmAnsweredBy, LastArming, earlier, last
    <2>10. QED
      BY <2>5, <2>9
  <1>2. QED
    BY <1>1, PipelineInvariant, PTL DEF Spec, ReliableRelayAnswersLatestConfirm

(***************************************************************************)
(* Refinement of DocumentLifecycle                                         *)
(***************************************************************************)

\* Every row that waits before a row of the batch is in the batch before it.
OldestFirst(batch, rows) ==
    \A n \in DOMAIN batch : \A i \in rows :
        i < batch[n] => \E m \in DOMAIN batch : m < n /\ batch[m] = i

\* The return relay takes the results in their order: none is passed over.
BatchIsOldest ==
    relay.pc \in ReturnStages => OldestFirst(relay.batch, Waiting(aiOutbox, aiPublished))

\* A document that was confirmed is never UPLOADED again.
UploadedIsUnconfirmed == \A d \in Documents : docs[d] = "UPLOADED" => ConfirmsOf(d) = {}

\* A quiz is of a sound READY result, and no other result of its document waits.
QuizIsOfLast ==
    \A d \in Documents : quizzes[d] # 0 =>
        \E k \in ResultsOf(d) :
            /\ aiOutbox[k].status = "READY" /\ aiOutbox[k].questions = "Valid"
            /\ \A j \in ResultsOf(d) : j # k => j \in aiPublished

\* The branch of the return relay fits the result it works on.
BranchFitsResult ==
    /\ relay.pc \in {"project", "terminalize"} => aiOutbox[Row].status = "READY"
    /\ relay.pc = "terminalize" => aiOutbox[Row].questions # "Valid"

InOrder == BatchIsOldest /\ UploadedIsUnconfirmed /\ QuizIsOfLast /\ BranchFitsResult

LifecycleInv == PipelineInv /\ InOrder

\* A later row has a higher rank.
LEMMA RankGrows ==
    ASSUME NEW rows \in SUBSET Nat, IsFiniteSet(rows), NEW i \in rows, NEW j \in rows, i < j
    PROVE  /\ Rank(rows, i) \in Nat \ {0} /\ Rank(rows, j) \in Nat
           /\ Rank(rows, i) < Rank(rows, j)
  <1> DEFINE upToI == {k \in rows : k <= i}
             upToJ == {k \in rows : k <= j}
  <1>1. /\ IsFiniteSet(upToI) /\ Rank(rows, i) \in Nat /\ Rank(rows, i) = Cardinality(upToI)
        /\ IsFiniteSet(upToJ) /\ Rank(rows, j) \in Nat /\ Rank(rows, j) = Cardinality(upToJ)
    BY RankType
  <1>2. i \in upToI /\ j \in upToJ /\ j \notin upToI /\ upToI \subseteq upToJ
    <2>1. i \in Nat /\ j \in Nat /\ \A k \in rows : k \in Nat
      OBVIOUS
    <2>2. i <= i /\ j <= j /\ ~ (j <= i) /\ \A k \in rows : k <= i => k <= j
      BY <2>1
    <2>3. QED
      BY <2>2
  <1> HIDE DEF upToI, upToJ
  <1>3. upToI \subseteq upToJ \ {j}
    BY <1>2
  <1>4. IsFiniteSet(upToJ \ {j}) /\ Cardinality(upToJ \ {j}) = Cardinality(upToJ) - 1
    BY <1>1, <1>2, FS_RemoveElement
  <1>5. Cardinality(upToI) <= Cardinality(upToJ \ {j})
    BY <1>3, <1>4, FS_Subset
  <1>6. Cardinality(upToI) # 0
    BY <1>1, <1>2, FS_EmptySet
  <1>7. QED
    BY <1>1, <1>4, <1>5, <1>6

\* A pump's batch is the oldest waiting rows, in order.
LEMMA BatchTakesOldest ==
    ASSUME NEW outbox, DOMAIN outbox \in SUBSET Nat, IsFiniteSet(DOMAIN outbox), NEW published
    PROVE  OldestFirst(Unpublished(outbox, published), Waiting(outbox, published))
  <1> DEFINE rows == Waiting(outbox, published)
             count == Cardinality(rows)
             size == IF count < BatchSize THEN count ELSE BatchSize
             batch == [n \in 1 .. size |-> CHOOSE i \in rows : Rank(rows, i) = n]
  <1>1. IsFiniteSet(rows) /\ rows \in SUBSET Nat
    BY FS_Subset DEF Waiting
  <1>2. count \in Nat
    BY <1>1, FS_CardinalityType
  <1>3. size \in Nat /\ size <= count
    BY <1>2, PipelineAssumption
  <1>4. \A n \in 1 .. size : \E i \in rows : Rank(rows, i) = n
    BY <1>1, <1>2, <1>3, RankReached
  <1> HIDE DEF rows, size
  <1>5. /\ DOMAIN batch = 1 .. size
        /\ \A n \in 1 .. size : batch[n] \in rows /\ Rank(rows, batch[n]) = n
    BY <1>4
  <1>6. Unpublished(outbox, published) = batch
    BY DEF Unpublished, rows, size
  <1> HIDE DEF batch
  <1>7. ASSUME NEW n \in 1 .. size, NEW i \in rows, i < batch[n]
        PROVE  \E m \in 1 .. size : m < n /\ batch[m] = i
    <2>1. batch[n] \in rows /\ Rank(rows, batch[n]) = n
      BY <1>5
    <2>2. PICK m \in Nat \ {0} : m = Rank(rows, i) /\ m < n
      BY <1>1, <1>7, <2>1, RankGrows
    <2>3. m \in 1 .. size
      BY <1>3, <2>2
    <2>4. batch[m] \in rows /\ Rank(rows, batch[m]) = m
      BY <1>5, <2>3
    <2>5. ~ (batch[m] < i) /\ ~ (i < batch[m])
      <3>1. batch[m] < i => Rank(rows, batch[m]) < Rank(rows, i)
        BY <1>1, <2>4, RankGrows
      <3>2. i < batch[m] => Rank(rows, i) < Rank(rows, batch[m])
        BY <1>1, <2>4, RankGrows
      <3>3. ~ (m < m)
        BY <2>2
      <3>4. QED
        BY <2>2, <2>4, <3>1, <3>2, <3>3
    <2>6. batch[m] = i
      <3>1. batch[m] \in Nat /\ i \in Nat
        BY <1>1, <2>4
      <3>2. QED
        BY <2>5, <3>1
    <2>7. QED
      BY <2>2, <2>3, <2>6
  <1>8. OldestFirst(batch, rows)
    BY <1>5, <1>7 DEF OldestFirst
  <1>9. QED
    BY <1>6, <1>8 DEF rows

\* Rows appended behind the batch do not come before it ...
LEMMA OldestFirstKeeps ==
    ASSUME NEW rows, NEW more, NEW batch, OldestFirst(batch, rows),
           \A i \in more : i \in rows \/ \A n \in DOMAIN batch : ~ (i < batch[n])
    PROVE  OldestFirst(batch, more)
  BY DEF OldestFirst

\* ... and the rest of a batch is as ordered as the batch.
LEMMA OldestFirstAdvances ==
    ASSUME NEW rows, NEW batch \in Seq(rows), batch # <<>>, OldestFirst(batch, rows)
    PROVE  OldestFirst(Tail(batch), rows \ {Head(batch)})
  <1>1. PICK len \in Nat \ {0} : len = Len(batch) /\ DOMAIN batch = 1 .. len
    OBVIOUS
  <1>2. Head(batch) = batch[1]
    OBVIOUS
  <1>3. /\ DOMAIN Tail(batch) = 1 .. (len - 1)
        /\ \A i \in 1 .. (len - 1) : Tail(batch)[i] = batch[i + 1]
    BY <1>1, HeadTailProperties
  <1>4. ASSUME NEW n \in 1 .. (len - 1), NEW i \in rows, i # Head(batch), i < Tail(batch)[n]
        PROVE  \E m \in 1 .. (len - 1) : m < n /\ Tail(batch)[m] = i
    <2>1. n + 1 \in 1 .. len /\ Tail(batch)[n] = batch[n + 1]
      BY <1>1, <1>3
    <2>2. PICK m \in 1 .. len : m < n + 1 /\ batch[m] = i
      BY <1>1, <1>4, <2>1 DEF OldestFirst
    <2>3. m # 1
      BY <1>2, <1>4, <2>2
    <2>4. m - 1 \in 1 .. (len - 1) /\ m - 1 < n /\ (m - 1) + 1 = m
      BY <1>1, <2>2, <2>3
    <2>5. Tail(batch)[m - 1] = i
      BY <1>3, <2>2, <2>4
    <2>6. QED
      BY <2>4, <2>5
  <1>5. QED
    BY <1>3, <1>4 DEF OldestFirst

\* The log of results is finite and its rows have their columns.
LEMMA LogTyped ==
    ASSUME SeamsTyped
    PROVE  /\ DOMAIN aiOutbox \in SUBSET Nat /\ IsFiniteSet(DOMAIN aiOutbox)
           /\ \A k \in DOMAIN aiOutbox : /\ aiOutbox[k] \in Event
                                         /\ aiOutbox[k].doc \in Documents
                                         /\ aiOutbox[k].status \in {"READY", "FAILED"}
  <1>1. aiOutbox \in Seq(Event) /\ Len(aiOutbox) \in Nat /\ DOMAIN aiOutbox = 1 .. Len(aiOutbox)
    BY DEF SeamsTyped, TypeOK, QueueTypeOK
  <1>2. IsFiniteSet(1 .. Len(aiOutbox))
    BY <1>1, FS_Interval
  <1>3. \A k \in DOMAIN aiOutbox : aiOutbox[k] \in Event
    BY <1>1
  <1>4. QED
    BY <1>1, <1>2, <1>3 DEF Event

\* The loops append behind the batch, and answer no document that has its quiz.
LEMMA LoopsInOrder ==
    ASSUME SeamsTyped, QueueInv, InOrder, LoopOrTime, UNCHANGED seamVars
    PROVE  InOrder'
  <1>1. UNCHANGED <<docs, courseOutbox, aiPublished, quizzes, relay>>
    BY DEF seamVars
  <1>2. UploadedIsUnconfirmed'
    BY <1>1 DEF InOrder, UploadedIsUnconfirmed, ConfirmsOf
  <1>3. BranchFitsResult'
    <2>1. relay.pc \in {"project", "terminalize"} => Row \in DOMAIN aiOutbox
      BY RowWaits DEF SeamsTyped, BatchIsWaiting, ReturnStages
    <2>2. Row' = Row
      BY <1>1 DEF Row
    <2>3. \A k \in DOMAIN aiOutbox : aiOutbox'[k] = aiOutbox[k]
      BY LogGrows
    <2>4. QED
      BY <1>1, <2>1, <2>2, <2>3 DEF InOrder, BranchFitsResult
  <1>4. CASE UNCHANGED aiOutbox
    BY <1>1, <1>2, <1>3, <1>4 DEF InOrder, BatchIsOldest, QuizIsOfLast, ResultsOf
  <1>5. ASSUME NEW w \in Workers, Answers(w)
        PROVE  InOrder'
    <2>1. worker[w].doc \in Documents /\ Len(aiOutbox) + 1 \in Nat
      BY <1>5 DEF Answers, QueueInv, Inv, Typed, BusyLoopsHaveDocuments, QueueTypeOK
    <2>2. PICK d \in Documents, n \in Nat : d = worker[w].doc /\ n = Len(aiOutbox) + 1
      BY <2>1
    <2>3. /\ Len(aiOutbox) \in Nat /\ DOMAIN aiOutbox = 1 .. Len(aiOutbox)
          /\ DOMAIN aiOutbox' = 1 .. n
          /\ \A k \in DOMAIN aiOutbox : /\ aiOutbox'[k] = aiOutbox[k]
                                        /\ aiOutbox[k].doc = d => aiOutbox[k].status # "READY"
          /\ aiOutbox'[n].doc = d
      BY <1>5, <2>2, AnswerFindsNone DEF QueueInv
    <2>4. \A k \in DOMAIN aiOutbox' : k \in DOMAIN aiOutbox \/ k = n
      BY <2>2, <2>3
    <2>5. BatchIsOldest'
      <3> SUFFICES ASSUME relay.pc \in ReturnStages
                   PROVE  OldestFirst(relay.batch, Waiting(aiOutbox', aiPublished))
        BY <1>1 DEF BatchIsOldest
      <3>1. relay.batch \in Seq(Waiting(aiOutbox, aiPublished))
        BY DEF SeamsTyped, BatchIsWaiting
      <3>2. \A m \in DOMAIN relay.batch : relay.batch[m] \in DOMAIN aiOutbox
        BY <3>1 DEF Waiting
      <3>3. \A m \in DOMAIN relay.batch : ~ (n < relay.batch[m])
        BY <2>2, <2>3, <3>2
      <3>4. \A i \in Waiting(aiOutbox', aiPublished) : i \in Waiting(aiOutbox, aiPublished) \/ i = n
        BY <2>4 DEF Waiting
      <3>5. OldestFirst(relay.batch, Waiting(aiOutbox, aiPublished))
        BY DEF InOrder, BatchIsOldest
      <3>6. QED
        BY <3>3, <3>4, <3>5, OldestFirstKeeps
    <2>6. QuizIsOfLast'
      <3> SUFFICES ASSUME NEW e \in Documents, quizzes[e] # 0
                   PROVE  (\E k \in ResultsOf(e) :
                             /\ aiOutbox[k].status = "READY" /\ aiOutbox[k].questions = "Valid"
                             /\ \A j \in ResultsOf(e) : j # k => j \in aiPublished)'
        BY <1>1 DEF QuizIsOfLast
      <3>1. PICK k \in ResultsOf(e) :
              /\ aiOutbox[k].status = "READY" /\ aiOutbox[k].questions = "Valid"
              /\ \A j \in ResultsOf(e) : j # k => j \in aiPublished
        BY DEF InOrder, QuizIsOfLast
      <3>2. e # d
        BY <2>3, <3>1 DEF ResultsOf
      <3>3. ResultsOf(e)' = ResultsOf(e)
        BY <2>2, <2>3, <2>4, <3>2 DEF ResultsOf
      <3>4. aiOutbox'[k] = aiOutbox[k]
        BY <2>3, <3>1 DEF ResultsOf
      <3>5. QED
        BY <1>1, <3>1, <3>3, <3>4
    <2>7. QED
      BY <1>2, <1>3, <2>5, <2>6 DEF InOrder
  <1>6. QED
    BY <1>4, <1>5, LoopKinds DEF QueueInv

\* A confirm leaves UPLOADED for good; reads change nothing.
LEMMA RequestInOrder ==
    ASSUME SeamsTyped, InOrder, Request
    PROVE  InOrder'
  <1>1. UNCHANGED <<aiOutbox, aiPublished, quizzes, relay>>
    BY DEF Request, Confirm, ReadDocument, ReadQuiz, queueVars
  <1>2. BatchIsOldest' /\ QuizIsOfLast' /\ BranchFitsResult'
    BY <1>1 DEF InOrder, BatchIsOldest, QuizIsOfLast, BranchFitsResult, ResultsOf, Row
  <1>3. UploadedIsUnconfirmed'
    <2>1. CASE ReadQuiz \/ \E d \in Documents : ReadDocument(d)
      BY <2>1 DEF ReadQuiz, ReadDocument, InOrder, UploadedIsUnconfirmed, ConfirmsOf
    <2>2. ASSUME NEW d \in Documents, Confirm(d)
          PROVE  UploadedIsUnconfirmed'
      <3>1. /\ docs \in [Documents -> DocumentStatus] /\ courseOutbox \in Seq(Documents)
            /\ docs' = [docs EXCEPT ![d] = "PROCESSING"]
            /\ courseOutbox' = Append(courseOutbox, d)
        BY <2>2 DEF Confirm, SeamsTyped, TypeOK
      <3>2. \A e \in Documents : e # d => docs'[e] = docs[e] /\ ConfirmsOf(e)' = ConfirmsOf(e)
        <4> SUFFICES ASSUME NEW e \in Documents, e # d
                     PROVE  docs'[e] = docs[e] /\ ConfirmsOf(e)' = ConfirmsOf(e)
          OBVIOUS
        <4>1. PICK c \in Nat : c = Len(courseOutbox) + 1
          BY <3>1
        <4>2. /\ DOMAIN courseOutbox' = DOMAIN courseOutbox \cup {c} /\ c \notin DOMAIN courseOutbox
              /\ courseOutbox'[c] = d
              /\ \A i \in DOMAIN courseOutbox : courseOutbox'[i] = courseOutbox[i]
          BY <3>1, <4>1
        <4>3. QED
          BY <3>1, <4>2 DEF ConfirmsOf
      <3>3. docs'[d] # "UPLOADED"
        BY <3>1
      <3>4. QED
        BY <3>2, <3>3 DEF InOrder, UploadedIsUnconfirmed
    <2>3. QED
      BY <2>1, <2>2 DEF Request
  <1>4. QED
    BY <1>2, <1>3 DEF InOrder

\* The pump reads the oldest results; the other steps between results keep the
\* batch or drop it.
LEMMA RelayInOrder ==
    ASSUME SeamsTyped, InOrder,
           \/ ReadCourseOutbox \/ ForwardEnqueue \/ ForwardMark \/ ReadAiOutbox \/ ReturnMark
           \/ EndCycle \/ RelayFault
    PROVE  InOrder'
  <1>1. UNCHANGED <<docs, courseOutbox, quizzes, aiOutbox>>
    BY DEF ReadCourseOutbox, ForwardEnqueue, ForwardMark, ReadAiOutbox, ReturnMark, EndCycle,
           RelayFault, Enqueue, queueVars
  <1>2. UploadedIsUnconfirmed'
    BY <1>1 DEF InOrder, UploadedIsUnconfirmed, ConfirmsOf
  <1>3. aiPublished \subseteq aiPublished'
    BY DEF ReadCourseOutbox, ForwardEnqueue, ForwardMark, ReadAiOutbox, ReturnMark, EndCycle,
           RelayFault
  <1>4. QuizIsOfLast'
    BY <1>1, <1>3 DEF InOrder, QuizIsOfLast, ResultsOf
  <1>5. relay'.pc \notin {"project", "terminalize"}
    <2>1. CASE ForwardEnqueue
      BY <2>1, AdvanceMoves DEF ForwardEnqueue, RelayStage
    <2>2. CASE ~ ForwardEnqueue
      BY <2>2 DEF ReadCourseOutbox, ForwardMark, ReadAiOutbox, ReturnMark, EndCycle, RelayFault,
                  NextRow, IdleRelay
    <2>3. QED
      BY <2>1, <2>2
  <1>6. BranchFitsResult'
    BY <1>5 DEF BranchFitsResult
  <1>7. BatchIsOldest'
    <2>1. CASE ReadCourseOutbox \/ ForwardEnqueue \/ ForwardMark \/ EndCycle \/ RelayFault
      <3>1. relay'.pc \in {"forward", "forwardMark", "idle"}
        <4>1. CASE ForwardEnqueue
          BY <4>1, AdvanceMoves DEF ForwardEnqueue, RelayStage
        <4>2. CASE ~ ForwardEnqueue
          BY <2>1, <4>2 DEF ReadCourseOutbox, ForwardMark, EndCycle, RelayFault, NextRow, IdleRelay
        <4>3. QED
          BY <4>1, <4>2
      <3>2. QED
        BY <3>1 DEF BatchIsOldest, ReturnStages
    <2>2. CASE ReadAiOutbox
      <3>1. relay'.batch = Unpublished(aiOutbox, aiPublished) /\ aiPublished' = aiPublished
        BY <2>2 DEF ReadAiOutbox
      <3>2. OldestFirst(Unpublished(aiOutbox, aiPublished), Waiting(aiOutbox, aiPublished))
        BY LogTyped, BatchTakesOldest
      <3>3. QED
        BY <1>1, <3>1, <3>2 DEF BatchIsOldest
    <2>3. CASE ReturnMark
      <3>1. /\ relay.pc = "returnMark" /\ relay'.batch = Tail(relay.batch)
            /\ aiPublished' = aiPublished \cup {Row}
        BY <2>3 DEF ReturnMark, NextRow
      <3>2. /\ relay.batch \in Seq(Waiting(aiOutbox, aiPublished)) /\ relay.batch # <<>>
            /\ OldestFirst(relay.batch, Waiting(aiOutbox, aiPublished))
        BY <3>1 DEF SeamsTyped, BatchIsWaiting, ReturnStages, InOrder, BatchIsOldest
      <3>3. OldestFirst(Tail(relay.batch), Waiting(aiOutbox, aiPublished) \ {Head(relay.batch)})
        BY <3>2, OldestFirstAdvances
      <3>4. Waiting(aiOutbox, aiPublished)' = Waiting(aiOutbox, aiPublished) \ {Head(relay.batch)}
        BY <1>1, <3>1 DEF Waiting, Row
      <3>5. QED
        BY <3>1, <3>3, <3>4 DEF BatchIsOldest
    <2>4. QED
      BY <2>1, <2>2, <2>3
  <1>8. QED
    BY <1>2, <1>4, <1>6, <1>7 DEF InOrder

\* When the relay works on a result, the earlier results of its document are
\* published: the batch would hold them before it.
LEMMA EarlierArePublished ==
    ASSUME SeamsTyped, InOrder, relay.pc \in ReturnStages, relay.batch # <<>>,
           NEW j \in DOMAIN aiOutbox, j < Row
    PROVE  j \in aiPublished
  <1> SUFFICES ASSUME j \notin aiPublished PROVE FALSE
    OBVIOUS
  <1>1. relay.batch \in Seq(Nat)
    BY DEF SeamsTyped, TypeOK
  <1>2. 1 \in DOMAIN relay.batch /\ Row = relay.batch[1] /\ \A m \in DOMAIN relay.batch : ~ (m < 1)
    BY <1>1 DEF Row
  <1>3. OldestFirst(relay.batch, Waiting(aiOutbox, aiPublished))
    BY DEF InOrder, BatchIsOldest
  <1>4. j \in Waiting(aiOutbox, aiPublished)
    BY DEF Waiting
  <1>5. QED
    BY <1>2, <1>3, <1>4 DEF OldestFirst

\* The handoff makes a quiz of a READY result, the last of its document.
LEMMA PersistInOrder ==
    ASSUME SeamsTyped, QueueInv, InOrder, PersistQuiz
    PROVE  InOrder'
  <1>1. PICK r \in DOMAIN aiOutbox : r = Row /\ aiOutbox[r] \in Event
    BY RowWaits DEF PersistQuiz, ReturnStages
  <1>2. PICK d \in Documents : d = aiOutbox[r].doc
    BY <1>1 DEF Event
  <1>3. /\ relay.pc = "return" /\ relay.batch # <<>>
        /\ UNCHANGED <<aiOutbox, docs, courseOutbox, aiPublished>>
        /\ aiOutbox[r].status = "READY"
        /\ \/ /\ aiOutbox[r].questions = "Valid"
              /\ quizzes' = [quizzes EXCEPT ![d] = IF @ = 0 THEN aiOutbox[r].attempt ELSE @]
              /\ Advance("project")
           \/ /\ aiOutbox[r].questions # "Valid"
              /\ UNCHANGED quizzes /\ Advance("terminalize")
    BY <1>1, <1>2 DEF PersistQuiz, queueVars
  <1>4. /\ Row' = r /\ relay'.batch = relay.batch
        /\ relay'.pc = IF aiOutbox[r].questions = "Valid" THEN "project" ELSE "terminalize"
    BY <1>1, <1>3, AdvanceMoves DEF RelayStage
  <1>5. UploadedIsUnconfirmed'
    BY <1>3 DEF InOrder, UploadedIsUnconfirmed, ConfirmsOf
  <1>6. BranchFitsResult'
    BY <1>3, <1>4 DEF BranchFitsResult
  <1>7. BatchIsOldest'
    BY <1>3, <1>4 DEF InOrder, BatchIsOldest, ReturnStages
  <1>8. QuizIsOfLast'
    <2>1. \A e \in Documents : ResultsOf(e)' = ResultsOf(e)
      BY <1>3 DEF ResultsOf
    <2>2. \A e \in Documents : quizzes'[e] # 0 =>
              quizzes[e] # 0 \/ (e = d /\ aiOutbox[r].questions = "Valid")
      BY <1>3 DEF SeamsTyped, TypeOK
    <2>3. ASSUME NEW j \in ResultsOf(d), j # r
          PROVE  j \in aiPublished
      <3>1. j \in Nat /\ r \in Nat /\ j \in DOMAIN aiOutbox /\ aiOutbox[j].doc = d
        BY LogTyped DEF ResultsOf
      <3>2. ~ (j > r)
        BY <1>2, <1>3, <3>1 DEF QueueInv, Outcomes, ReadyIsFinal
      <3>3. j < r
        BY <2>3, <3>1, <3>2
      <3>4. QED
        BY <1>1, <1>3, <3>1, <3>3, EarlierArePublished DEF ReturnStages
    <2>4. r \in ResultsOf(d)
      BY <1>2 DEF ResultsOf
    <2>5. QED
      BY <1>3, <2>1, <2>2, <2>3, <2>4 DEF InOrder, QuizIsOfLast
  <1>9. QED
    BY <1>5, <1>6, <1>7, <1>8 DEF InOrder

\* The projection moves no row and no document back to UPLOADED.
LEMMA ProjectInOrder ==
    ASSUME SeamsTyped, InOrder, Project
    PROVE  InOrder'
  <1>1. /\ UNCHANGED <<aiOutbox, courseOutbox, aiPublished, quizzes>>
        /\ relay.pc \in ReturnStages
        /\ Advance("returnMark")
    BY DEF Project, queueVars, ReturnStages
  <1>2. relay'.pc = "returnMark" /\ relay'.batch = relay.batch
    BY <1>1, AdvanceMoves DEF RelayStage
  <1>3. \A d \in Documents : docs'[d] = "UPLOADED" => docs[d] = "UPLOADED"
    BY DEF Project, ProjectStatus, SeamsTyped, TypeOK
  <1>4. QED
    BY <1>1, <1>2, <1>3 DEF InOrder, BatchIsOldest, UploadedIsUnconfirmed, QuizIsOfLast,
                            BranchFitsResult, ResultsOf, ConfirmsOf

\* Results are delivered in order, whatever else happens.
LEMMA InOrderStep ==
    ASSUME SeamsTyped, QueueInv, InOrder, [Next]_vars
    PROVE  InOrder'
  <1>1. CASE QueueProgress \/ QueueFault
    BY <1>1, LoopsAreLoopOrTime, LoopsInOrder
  <1>2. CASE Request
    BY <1>2, RequestInOrder
  <1>3. CASE RelayStep \/ RelayFault
    BY <1>3, RelayInOrder, PersistInOrder, ProjectInOrder DEF RelayStep
  <1>4. CASE UNCHANGED vars
    <2>1. UNCHANGED <<aiOutbox, docs, courseOutbox, aiPublished, quizzes, relay>>
      BY <1>4 DEF vars, queueVars, seamVars
    <2>2. QED
      BY <2>1 DEF InOrder, BatchIsOldest, UploadedIsUnconfirmed, QuizIsOfLast, BranchFitsResult,
                  ResultsOf, ConfirmsOf, Row
  <1>5. QED
    BY <1>1, <1>2, <1>3, <1>4 DEF Next

\* The empty tables are in order.
LEMMA InOrderInitially == Init => InOrder
  BY DEF Init, QueueInit, InOrder, BatchIsOldest, UploadedIsUnconfirmed, QuizIsOfLast,
         BranchFitsResult, IdleRelay, ReturnStages, ConfirmsOf

\* The pipeline's invariant, with the order of its results.
LEMMA LifecycleInvariant == Spec => []LifecycleInv
  <1>1. Init => LifecycleInv
    BY PipelineInitially, InOrderInitially DEF LifecycleInv
  <1>2. LifecycleInv /\ [Next]_vars => LifecycleInv'
    BY PipelineStep, InOrderStep DEF LifecycleInv, PipelineInv
  <1>3. QED
    BY <1>1, <1>2, PTL DEF Spec

Quizzed == {d \in Documents : quizzes[d] # 0}

\* The initial tables map to the initial lifecycle.
LEMMA LifecycleRefinesInit == Init => Lifecycle!LifecycleInit
  <1> SUFFICES ASSUME Init PROVE Lifecycle!LifecycleInit
    OBVIOUS
  <1>1. Lifecycle!AbstractInit
    BY RefinesInit DEF Init, Promise!AbstractInit, Lifecycle!AbstractInit
  <1>2. Quizzed = {}
    BY DEF Init, Quizzed
  <1>3. QED
    BY <1>1, <1>2 DEF Init, Lifecycle!LifecycleInit, Quizzed

\* A step that moves no job, appends no result and changes neither a document nor
\* whether it has a quiz is invisible.
LEMMA HiddenSteps ==
    ASSUME KeepsPhases, UNCHANGED <<aiOutbox, docs, Quizzed>>
    PROVE  UNCHANGED Lifecycle!lifecycleVars
  <1>1. UNCHANGED AbstractPhase
    <2>1. \A d \in Documents : PhaseOf(d)' = PhaseOf(d)
      BY DEF KeepsPhases, PhaseOf
    <2>2. QED
      BY <2>1 DEF AbstractPhase
  <1>2. UNCHANGED AbstractLog
    BY DEF AbstractLog
  <1>3. QED
    BY <1>1, <1>2 DEF Lifecycle!lifecycleVars, Lifecycle!abstractVars, AbstractPhase,
                      AbstractLog, Quizzed

\* The loops answer open work, or are invisible.
LEMMA LoopsRefine ==
    ASSUME QueueInv, QueueInv', LoopOrTime, UNCHANGED seamVars
    PROVE  [Lifecycle!LifecycleNext]_(Lifecycle!lifecycleVars)
  <1>1. UNCHANGED <<docs, Quizzed>>
    BY DEF seamVars, Quizzed
  <1>2. ASSUME NEW w \in Workers, Answers(w)
        PROVE  Lifecycle!LifecycleNext
    <2>1. PICK d \in Documents, outcome \in {"READY", "FAILED"} : Promise!Answer(d, outcome)
      BY <1>2, AnswerRefines DEF QueueInv
    <2>2. Lifecycle!Answer(d, outcome)
      BY <2>1 DEF Promise!Answer, Lifecycle!Answer
    <2>3. Lifecycle!Work(d)
      BY <1>1, <2>2 DEF Lifecycle!Work, Quizzed
    <2>4. QED
      BY <2>3 DEF Lifecycle!LifecycleNext
  <1>3. QED
    BY <1>1, <1>2, LoopKinds, HiddenSteps DEF QueueInv

\* The forward relay starts work for a document that was confirmed, or finds it
\* started.
LEMMA EnqueueRefines ==
    ASSUME SeamsTyped, QueueInv, InOrder, ForwardEnqueue
    PROVE  [Lifecycle!LifecycleNext]_(Lifecycle!lifecycleVars)
  <1>1. PICK d \in Documents : d = courseOutbox[Row] /\ Row \in DOMAIN courseOutbox
    BY RowWaits DEF ForwardEnqueue, ForwardStages
  <1>2. Enqueue(d) /\ UNCHANGED <<aiOutbox, docs, Quizzed>>
    BY <1>1 DEF ForwardEnqueue, Enqueue, Quizzed
  <1>3. CASE Arms(d)
    <2>1. docs[d] # "UPLOADED"
      BY <1>1 DEF InOrder, UploadedIsUnconfirmed, ConfirmsOf
    <2>2. AbstractPhase[d] \in {"none", "FAILED"}
      BY <1>3 DEF Arms, AbstractPhase, PhaseOf
    <2>3. AbstractPhase' = [AbstractPhase EXCEPT ![d] = "open"]
      <3>1. /\ PhaseOf(d)' = "open"
            /\ \A e \in Documents : e # d => PhaseOf(e)' = PhaseOf(e)
        BY <1>3 DEF Arms, PhaseOf
      <3>2. QED
        BY <3>1 DEF AbstractPhase
    <2>4. UNCHANGED AbstractLog
      BY <1>2 DEF AbstractLog
    <2>5. Lifecycle!Arm(d)
      BY <2>2, <2>3, <2>4 DEF Lifecycle!Arm, AbstractPhase, AbstractLog
    <2>6. Lifecycle!Work(d)
      BY <1>2, <2>1, <2>5 DEF Lifecycle!Work, Quizzed
    <2>7. QED
      BY <2>6 DEF Lifecycle!LifecycleNext
  <1>4. CASE KeepsPhases
    BY <1>2, <1>4, HiddenSteps
  <1>5. QED
    BY <1>2, <1>3, <1>4, EnqueueArmsOrKeeps DEF QueueInv

\* A step outside the queue leaves its part of the lifecycle alone.
LEMMA QueueUntouched ==
    ASSUME UNCHANGED queueVars
    PROVE  UNCHANGED Lifecycle!abstractVars /\ UNCHANGED aiOutbox /\ KeepsPhases
  <1>1. UNCHANGED <<jobs, aiOutbox>>
    BY DEF queueVars
  <1>2. UNCHANGED AbstractPhase
    <2>1. \A d \in Documents : PhaseOf(d)' = PhaseOf(d)
      BY <1>1 DEF PhaseOf
    <2>2. QED
      BY <2>1 DEF AbstractPhase
  <1>3. UNCHANGED AbstractLog
    BY <1>1 DEF AbstractLog
  <1>4. QED
    BY <1>1, <1>2, <1>3 DEF Lifecycle!abstractVars, AbstractPhase, AbstractLog, KeepsPhases

\* The owner's confirm asks for work.
LEMMA ConfirmRefines ==
    ASSUME NEW d \in Documents, Confirm(d)
    PROVE  Lifecycle!LifecycleNext
  <1>1. /\ docs[d] \in {"UPLOADED", "FAILED"}
        /\ docs' = [docs EXCEPT ![d] = "PROCESSING"]
        /\ UNCHANGED Lifecycle!abstractVars
        /\ UNCHANGED Quizzed
    BY QueueUntouched DEF Confirm, Quizzed
  <1>2. Lifecycle!Ask(d)
    BY <1>1 DEF Lifecycle!Ask, Quizzed
  <1>3. QED
    BY <1>2 DEF Lifecycle!LifecycleNext

\* The result the relay works on is in the abstract log.
LEMMA ResultIsAnswer ==
    ASSUME SeamsTyped, NEW r \in DOMAIN aiOutbox, NEW d, d = aiOutbox[r].doc,
           NEW outcomes, aiOutbox[r].status \in outcomes
    PROVE  Lifecycle!Answered(d, outcomes)
  <1>1. /\ r \in DOMAIN AbstractLog
        /\ AbstractLog[r].doc = d /\ AbstractLog[r].outcome \in outcomes
    BY DEF AbstractLog
  <1>2. QED
    BY <1>1 DEF Lifecycle!Answered, AbstractLog

\* The handoff makes the document's quiz, or finds it made.
LEMMA PersistRefines ==
    ASSUME SeamsTyped, Answering, PersistQuiz
    PROVE  [Lifecycle!LifecycleNext]_(Lifecycle!lifecycleVars)
  <1>1. PICK r \in DOMAIN aiOutbox : r = Row /\ aiOutbox[r] \in Event
    BY RowWaits DEF PersistQuiz, ReturnStages
  <1>2. PICK d \in Documents : d = aiOutbox[r].doc
    BY <1>1 DEF Event
  <1>3. /\ UNCHANGED <<queueVars, docs>>
        /\ aiOutbox[r].status = "READY"
        /\ \/ quizzes' = [quizzes EXCEPT ![d] = IF @ = 0 THEN aiOutbox[r].attempt ELSE @]
           \/ UNCHANGED quizzes
    BY <1>1, <1>2 DEF PersistQuiz
  <1>4. UNCHANGED Lifecycle!abstractVars /\ UNCHANGED aiOutbox /\ KeepsPhases
    BY <1>3, QueueUntouched
  <1>5. CASE UNCHANGED Quizzed
    BY <1>3, <1>4, <1>5, HiddenSteps
  <1>6. CASE ~ UNCHANGED Quizzed
    <2>1. quizzes' # quizzes
      BY <1>6 DEF Quizzed
    <2>2. quizzes' = [quizzes EXCEPT ![d] = IF @ = 0 THEN aiOutbox[r].attempt ELSE @]
      BY <1>3, <2>1
    <2>3. aiOutbox[r].attempt # 0
      BY <1>1 DEF Answering, ResultsCount, Event
    <2>4. quizzes[d] = 0 /\ \A e \in Documents : quizzes'[e] # 0 <=> quizzes[e] # 0 \/ e = d
      BY <2>1, <2>2, <2>3 DEF SeamsTyped, TypeOK
    <2>5. d \notin Quizzed /\ Quizzed' = Quizzed \cup {d}
      BY <2>4 DEF Quizzed
    <2>6. Lifecycle!Answered(d, {"READY"})
      BY <1>2, <1>3, ResultIsAnswer
    <2>7. Lifecycle!MakeQuiz(d)
      BY <1>3, <1>4, <2>5, <2>6 DEF Lifecycle!MakeQuiz, Quizzed
    <2>8. QED
      BY <2>7 DEF Lifecycle!LifecycleNext
  <1>7. QED
    BY <1>5, <1>6

\* The projection delivers READY to a document with a quiz and FAILED to one
\* without: a failure that waits would be that document's last result.
LEMMA DeliveryFitsQuiz ==
    ASSUME SeamsTyped, InOrder, ReadyHasQuiz, Project
    PROVE  \E r \in DOMAIN aiOutbox, d \in Documents :
             /\ r = Row /\ r \notin aiPublished /\ relay.pc # "returnMark"
             /\ d = aiOutbox[r].doc
             /\ ProjectStatus(d, IF d \in Quizzed THEN "READY" ELSE "FAILED")
  <1>1. PICK r \in DOMAIN aiOutbox : r = Row /\ r \notin aiPublished
    BY RowWaits DEF Project, ReturnStages
  <1>2. PICK d \in Documents : d = aiOutbox[r].doc
    BY LogTyped
  <1>3. ProjectStatus(d, IF d \in Quizzed THEN "READY" ELSE "FAILED")
    <2>1. CASE relay.pc = "project"
      <3>1. ProjectStatus(d, "READY")
        BY <1>1, <1>2, <2>1 DEF Project
      <3>2. quizzes[d] # 0
        BY <1>1, <1>2, <2>1 DEF ReadyHasQuiz
      <3>3. QED
        BY <3>1, <3>2 DEF Quizzed
    <2>2. CASE relay.pc # "project"
      <3>1. /\ ProjectStatus(d, "FAILED")
            /\ \/ aiOutbox[r].status = "FAILED"
               \/ aiOutbox[r].questions # "Valid"
        BY <1>1, <1>2, <2>2 DEF Project, InOrder, BranchFitsResult
      <3>2. ASSUME quizzes[d] # 0 PROVE FALSE
        <4>1. PICK k \in ResultsOf(d) :
                /\ aiOutbox[k].status = "READY" /\ aiOutbox[k].questions = "Valid"
                /\ \A j \in ResultsOf(d) : j # k => j \in aiPublished
          BY <3>2 DEF InOrder, QuizIsOfLast
        <4>2. r \in ResultsOf(d)
          BY <1>2 DEF ResultsOf
        <4>3. r = k
          BY <1>1, <4>1, <4>2
        <4>4. QED
          BY <3>1, <4>1, <4>3
      <3>3. QED
        BY <3>1, <3>2 DEF Quizzed
    <2>3. QED
      BY <2>1, <2>2
  <1>4. QED
    BY <1>1, <1>2, <1>3 DEF Project

\* A projection is delivered to a document that waits, and lost on another.
LEMMA ProjectRefines ==
    ASSUME SeamsTyped, InOrder, ReadyHasQuiz, Project
    PROVE  [Lifecycle!LifecycleNext]_(Lifecycle!lifecycleVars)
  <1>1. PICK r \in DOMAIN aiOutbox, d \in Documents :
           /\ d = aiOutbox[r].doc
           /\ ProjectStatus(d, IF d \in Quizzed THEN "READY" ELSE "FAILED")
    BY DeliveryFitsQuiz
  <1>2. aiOutbox[r].status \in {"READY", "FAILED"}
    BY LogTyped
  <1>3. UNCHANGED <<queueVars, Quizzed>>
    BY DEF Project, Quizzed
  <1>4. UNCHANGED Lifecycle!abstractVars /\ UNCHANGED aiOutbox /\ KeepsPhases
    BY <1>3, QueueUntouched
  <1>5. CASE docs[d] # "PROCESSING"
    <2>1. UNCHANGED docs
      BY <1>1, <1>5 DEF ProjectStatus
    <2>2. QED
      BY <1>3, <1>4, <2>1, HiddenSteps
  <1>6. CASE docs[d] = "PROCESSING"
    <2>1. docs' = [docs EXCEPT ![d] = IF d \in Quizzed THEN "READY" ELSE "FAILED"]
      BY <1>1, <1>6 DEF ProjectStatus
    <2>2. Lifecycle!Answered(d, {"READY", "FAILED"})
      BY <1>1, <1>2, ResultIsAnswer
    <2>3. Lifecycle!Deliver(d)
      BY <1>3, <1>4, <1>6, <2>1, <2>2 DEF Lifecycle!Deliver, Quizzed
    <2>4. QED
      BY <2>3 DEF Lifecycle!LifecycleNext
  <1>7. QED
    BY <1>5, <1>6

\* Every step of the pipeline is a step of the lifecycle or invisible in it.
LEMMA LifecycleRefinesStep ==
    ASSUME LifecycleInv, LifecycleInv', [Next]_vars
    PROVE  [Lifecycle!LifecycleNext]_(Lifecycle!lifecycleVars)
  <1>1. /\ SeamsTyped /\ QueueInv /\ QueueInv' /\ InOrder /\ Answering /\ ReadyHasQuiz
    BY DEF LifecycleInv, PipelineInv
  <1>2. CASE QueueProgress \/ QueueFault
    BY <1>1, <1>2, LoopsAreLoopOrTime, LoopsRefine
  <1>3. CASE ForwardEnqueue \/ PersistQuiz \/ Project
    BY <1>1, <1>3, EnqueueRefines, PersistRefines, ProjectRefines
  <1>4. ASSUME NEW d \in Documents, Confirm(d)
        PROVE  Lifecycle!LifecycleNext
    BY <1>4, ConfirmRefines
  <1>5. CASE \/ ReadQuiz \/ (\E d \in Documents : ReadDocument(d)) \/ ReadCourseOutbox
             \/ ForwardMark \/ ReadAiOutbox \/ ReturnMark \/ EndCycle \/ RelayFault
             \/ UNCHANGED vars
    <2>1. UNCHANGED <<queueVars, docs, quizzes>>
      BY <1>5 DEF ReadQuiz, ReadDocument, ReadCourseOutbox, ForwardMark, ReadAiOutbox,
                  ReturnMark, EndCycle, RelayFault, vars, seamVars
    <2>2. UNCHANGED <<aiOutbox, docs, Quizzed>> /\ KeepsPhases
      BY <2>1, QueueUntouched DEF Quizzed
    <2>3. QED
      BY <2>2, HiddenSteps
  <1>6. QED
    BY <1>2, <1>3, <1>4, <1>5 DEF Next, Request, RelayStep

\* The pipeline implements the lifecycle: whatever the relay repeats, marks late or
\* forgets in a crash, a document is told FAILED only without a quiz, READY only
\* with one, and nothing after READY.
THEOREM PipelineImplementsLifecycle == Spec => ImplementsLifecycle
  <1>1. LifecycleInv /\ LifecycleInv' /\ [Next]_vars
          => [Lifecycle!LifecycleNext]_(Lifecycle!lifecycleVars)
    BY LifecycleRefinesStep
  <1>2. QED
    BY <1>1, LifecycleRefinesInit, LifecycleInvariant, PTL
       DEF Spec, ImplementsLifecycle, Lifecycle!LifecycleSpec

(***************************************************************************)
(* What a waiting document waits for                                       *)
(***************************************************************************)

\* A document in PROCESSING has a confirm to forward, open work or a result to
\* project, or its work was completed before: that re-arms no job.
WaitsForWork ==
    \A d \in Documents : docs[d] = "PROCESSING" =>
        ToForward(d) # {} \/ Open(d) \/ ToProject(d) # {} \/ jobs[d].status = "COMPLETED"

\* As long as the relay has not failed, a quiz is on its way to a document or there.
QuizIsDelivered ==
    relayFaults = 0 =>
        \A d \in Documents : quizzes[d] # 0 => docs[d] = "READY" \/ ToProject(d) # {}

Waits == WaitsForWork /\ QuizIsDelivered

WaitingInv == LifecycleInv /\ Waits

\* An answer turns open work into a result to project; nothing else the loops do
\* is seen outside.
LEMMA LoopsWait ==
    ASSUME SeamsTyped, QueueInv, Waits, LoopOrTime, UNCHANGED seamVars
    PROVE  Waits'
  <1>1. UNCHANGED <<docs, courseOutbox, coursePublished, aiPublished, quizzes, relay,
                    relayFaults>>
    BY DEF seamVars
  <1>2. /\ \A i : Forwarded(i)' <=> Forwarded(i)
        /\ \A k : Projected(k)' <=> Projected(k)
    BY <1>1 DEF Forwarded, Projected, Row
  <1>3. \A d \in Documents : ToForward(d)' = ToForward(d) /\ ToProject(d) \subseteq ToProject(d)'
    BY <1>1, <1>2, LogGrows DEF ToForward, ConfirmsOf, ToProject, ResultsOf
  <1>4. QuizIsDelivered'
    BY <1>1, <1>3 DEF Waits, QuizIsDelivered
  <1>5. CASE KeepsPhases
    <2>1. \A d \in Documents : /\ Open(d) => Open(d)'
                               /\ jobs[d].status = "COMPLETED" => jobs'[d].status = "COMPLETED"
      BY <1>5 DEF KeepsPhases, Open
    <2>2. WaitsForWork'
      BY <1>1, <1>3, <2>1 DEF Waits, WaitsForWork
    <2>3. QED
      BY <1>4, <2>2 DEF Waits
  <1>6. ASSUME NEW w \in Workers, Answers(w)
        PROVE  Waits'
    <2>1. worker[w].doc \in Documents /\ Len(aiOutbox) + 1 \in Nat
      BY <1>6 DEF Answers, QueueInv, Inv, Typed, BusyLoopsHaveDocuments, QueueTypeOK
    <2>2. PICK d \in Documents, n \in Nat : d = worker[w].doc /\ n = Len(aiOutbox) + 1
      BY <2>1
    <2>3. /\ Len(aiOutbox) \in Nat /\ DOMAIN aiOutbox = 1 .. Len(aiOutbox)
          /\ DOMAIN aiOutbox' = 1 .. n
          /\ aiOutbox'[n].doc = d
          /\ \A e \in Documents : e # d => jobs'[e] = jobs[e]
      BY <1>6, <2>2, AnswerFindsNone DEF QueueInv
    <2>4. n \in DOMAIN aiOutbox' /\ n \notin DOMAIN aiOutbox
      BY <2>2, <2>3
    <2>5. ~ Projected(n)
      <3>1. n \notin aiPublished
        BY <2>4 DEF SeamsTyped, TypeOK
      <3>2. relay.pc = "returnMark" => Row \in DOMAIN aiOutbox
        BY RowWaits DEF SeamsTyped, BatchIsWaiting, ReturnStages
      <3>3. QED
        BY <2>4, <3>1, <3>2 DEF Projected
    <2>6. n \in ToProject(d)'
      BY <1>2, <2>3, <2>4, <2>5 DEF ToProject, ResultsOf
    <2>7. \A e \in Documents : e # d =>
             /\ Open(e) => Open(e)'
             /\ jobs[e].status = "COMPLETED" => jobs'[e].status = "COMPLETED"
      BY <2>3 DEF Open
    <2>8. WaitsForWork'
      BY <1>1, <1>3, <2>6, <2>7 DEF Waits, WaitsForWork
    <2>9. QED
      BY <1>4, <2>8 DEF Waits
  <1>7. QED
    BY <1>5, <1>6, LoopKinds DEF QueueInv

\* A confirm is a row to forward; it finds no quiz on its way.
LEMMA ConfirmWaits ==
    ASSUME SeamsTyped, Answering, Waits, NEW d \in Documents, Confirm(d)
    PROVE  Waits'
  <1>1. /\ docs[d] \in {"UPLOADED", "FAILED"} /\ docs' = [docs EXCEPT ![d] = "PROCESSING"]
        /\ courseOutbox' = Append(courseOutbox, d)
        /\ UNCHANGED <<jobs, aiOutbox, coursePublished, aiPublished, quizzes, relay, relayFaults>>
    BY DEF Confirm, queueVars
  <1>2. /\ courseOutbox \in Seq(Documents) /\ docs \in [Documents -> DocumentStatus]
        /\ coursePublished \subseteq DOMAIN courseOutbox
    BY DEF SeamsTyped, TypeOK
  <1>3. PICK c \in Nat : c = Len(courseOutbox) + 1
    BY <1>2
  <1>4. /\ DOMAIN courseOutbox' = DOMAIN courseOutbox \cup {c} /\ c \notin DOMAIN courseOutbox
        /\ courseOutbox'[c] = d
        /\ \A i \in DOMAIN courseOutbox : courseOutbox'[i] = courseOutbox[i]
    BY <1>1, <1>2, <1>3
  <1>5. /\ \A i : Forwarded(i)' <=> Forwarded(i)
        /\ \A k : Projected(k)' <=> Projected(k)
    BY <1>1 DEF Forwarded, Projected, Row
  <1>6. ~ Forwarded(c)
    <2>1. relay.pc = "forwardMark" => Row \in DOMAIN courseOutbox
      BY RowWaits DEF SeamsTyped, BatchIsWaiting, ForwardStages
    <2>2. QED
      BY <1>2, <1>4, <2>1 DEF Forwarded
  <1>7. c \in ToForward(d)'
    BY <1>4, <1>5, <1>6 DEF ToForward, ConfirmsOf
  <1>8. \A e \in Documents : /\ ToForward(e) \subseteq ToForward(e)'
                             /\ ToProject(e)' = ToProject(e)
                             /\ Open(e)' <=> Open(e)
                             /\ e # d => docs'[e] = docs[e]
    BY <1>1, <1>2, <1>4, <1>5 DEF ToForward, ConfirmsOf, ToProject, ResultsOf, Open
  <1>9. WaitsForWork'
    BY <1>1, <1>7, <1>8 DEF Waits, WaitsForWork
  <1>10. QuizIsDelivered'
    <2> SUFFICES ASSUME relayFaults = 0, NEW e \in Documents, quizzes[e] # 0
                 PROVE  docs'[e] = "READY" \/ ToProject(e)' # {}
      BY <1>1 DEF QuizIsDelivered
    <2>1. docs[e] = "READY" \/ ToProject(e) # {}
      BY DEF Waits, QuizIsDelivered
    <2>2. e = d => ToProject(e) # {}
      BY <1>1, <2>1
    <2>3. QED
      BY <1>8, <2>1, <2>2
  <1>11. QED
    BY <1>9, <1>10 DEF Waits

\* What is enqueued is open work then, or was completed.
LEMMA EnqueueWaits ==
    ASSUME SeamsTyped, QueueInv, Waits, ForwardEnqueue
    PROVE  Waits'
  <1>1. PICK d \in Documents : d = courseOutbox[Row] /\ Row \in DOMAIN courseOutbox
    BY RowWaits DEF ForwardEnqueue, ForwardStages
  <1>2. /\ relay.pc = "forward" /\ Enqueue(d) /\ Advance("forwardMark")
        /\ UNCHANGED <<aiOutbox, docs, courseOutbox, coursePublished, aiPublished, quizzes,
                       relayFaults>>
    BY <1>1 DEF ForwardEnqueue, Enqueue
  <1>3. relay'.pc = "forwardMark" /\ Row' = Row
    BY <1>2, AdvanceMoves DEF RelayStage
  <1>4. /\ \A i : Forwarded(i)' => Forwarded(i) \/ i = Row
        /\ \A k : Projected(k)' <=> Projected(k)
    BY <1>2, <1>3 DEF Forwarded, Projected
  <1>5. \A e \in Documents : ToProject(e)' = ToProject(e) /\ (e # d => ToForward(e) \subseteq ToForward(e)')
    BY <1>1, <1>2, <1>4 DEF ToForward, ConfirmsOf, ToProject, ResultsOf
  <1>6. Open(d)' \/ jobs'[d].status = "COMPLETED"
    <2>1. jobs \in [Documents -> JobRow]
      BY DEF QueueInv, Inv, Typed, QueueTypeOK
    <2>2. CASE InsertJob(d)
      BY <2>1, <2>2 DEF InsertJob, NoRow, Open
    <2>3. CASE RearmJob(d)
      BY <2>1, <2>3 DEF RearmJob, JobRow, Open
    <2>4. CASE IgnoreJob(d)
      BY <2>4 DEF IgnoreJob, Open
    <2>5. QED
      BY <1>2, <2>2, <2>3, <2>4 DEF Enqueue
  <1>7. \A e \in Documents : e # d =>
           /\ Open(e) => Open(e)'
           /\ jobs[e].status = "COMPLETED" => jobs'[e].status = "COMPLETED"
    BY <1>2, EnqueueArmsOrKeeps DEF QueueInv, Arms, KeepsPhases, Open
  <1>8. WaitsForWork'
    BY <1>2, <1>5, <1>6, <1>7 DEF Waits, WaitsForWork
  <1>9. QuizIsDelivered'
    BY <1>2, <1>5 DEF Waits, QuizIsDelivered
  <1>10. QED
    BY <1>8, <1>9 DEF Waits

\* The quiz that is made is of the result in hand, which is to be projected.
LEMMA PersistWaits ==
    ASSUME SeamsTyped, Waits, PersistQuiz
    PROVE  Waits'
  <1>1. PICK r \in DOMAIN aiOutbox, d \in Documents :
           r = Row /\ r \notin aiPublished /\ d = aiOutbox[r].doc
    BY RowWaits, LogTyped DEF PersistQuiz, ReturnStages
  <1>2. /\ UNCHANGED <<jobs, aiOutbox, docs, courseOutbox, relayFaults>>
        /\ \A i : Forwarded(i)' <=> Forwarded(i)
        /\ \A k : Projected(k)' <=> Projected(k)
    BY QuietSteps
  <1>3. \A e \in Documents : /\ ToForward(e)' = ToForward(e)
                             /\ ToProject(e)' = ToProject(e)
                             /\ Open(e)' <=> Open(e)
    BY <1>2 DEF ToForward, ConfirmsOf, ToProject, ResultsOf, Open
  <1>4. r \in ToProject(d)
    BY <1>1 DEF PersistQuiz, ToProject, ResultsOf, Projected
  <1>5. \A e \in Documents : e # d => quizzes'[e] = quizzes[e]
    BY <1>1 DEF PersistQuiz, SeamsTyped, TypeOK
  <1>6. QuizIsDelivered'
    BY <1>2, <1>3, <1>4, <1>5 DEF Waits, QuizIsDelivered
  <1>7. WaitsForWork'
    BY <1>2, <1>3 DEF Waits, WaitsForWork
  <1>8. QED
    BY <1>6, <1>7 DEF Waits

\* A projection ends the waiting; without a fault of the relay it finds the
\* document waiting, and a document with a quiz becomes READY.
LEMMA ProjectWaits ==
    ASSUME SeamsTyped, Answering, InOrder, ReadyHasQuiz, Waits, Project
    PROVE  Waits'
  <1>1. PICK r \in DOMAIN aiOutbox, d \in Documents :
           /\ r = Row /\ r \notin aiPublished /\ relay.pc # "returnMark"
           /\ d = aiOutbox[r].doc
           /\ ProjectStatus(d, IF d \in Quizzed THEN "READY" ELSE "FAILED")
    BY DeliveryFitsQuiz
  <1>2. /\ UNCHANGED <<jobs, aiOutbox, courseOutbox, coursePublished, aiPublished, quizzes,
                       relayFaults>>
        /\ relay.pc # "forwardMark"
        /\ Advance("returnMark")
    BY DEF Project, queueVars
  <1>3. relay'.pc = "returnMark" /\ Row' = r
    BY <1>1, <1>2, AdvanceMoves DEF RelayStage
  <1>4. /\ \A i : Forwarded(i)' <=> Forwarded(i)
        /\ \A k : Projected(k)' => Projected(k) \/ k = r
    BY <1>1, <1>2, <1>3 DEF Forwarded, Projected
  <1>5. /\ docs'[d] # "PROCESSING"
        /\ docs[d] = "PROCESSING" /\ d \in Quizzed => docs'[d] = "READY"
        /\ \A e \in Documents : e # d => docs'[e] = docs[e]
    BY <1>1 DEF ProjectStatus, SeamsTyped, TypeOK
  <1>6. \A e \in Documents : e # d => ToForward(e)' = ToForward(e)
                                      /\ ToProject(e) \subseteq ToProject(e)'
    BY <1>1, <1>2, <1>4 DEF ToForward, ConfirmsOf, ToProject, ResultsOf
  <1>7. WaitsForWork'
    BY <1>2, <1>5, <1>6 DEF Waits, WaitsForWork, Open
  <1>8. r \in ToProject(d)
    BY <1>1 DEF ToProject, ResultsOf, Projected
  <1>9. relayFaults = 0 => docs[d] = "PROCESSING"
    BY <1>8 DEF Answering, Reliable, OneThingUnderWay
  <1>10. QuizIsDelivered'
    BY <1>2, <1>5, <1>6, <1>9 DEF Waits, QuizIsDelivered, Quizzed
  <1>11. QED
    BY <1>7, <1>10 DEF Waits

\* The other steps of requests and of the relay; a fault returns what was done and
\* not marked to what is to do.
LEMMA QuietWaits ==
    ASSUME SeamsTyped, Waits,
           \/ ReadQuiz \/ (\E d \in Documents : ReadDocument(d)) \/ ReadCourseOutbox
           \/ ReadAiOutbox \/ ForwardMark \/ ReturnMark \/ EndCycle \/ RelayFault
           \/ UNCHANGED vars
    PROVE  Waits'
  <1>1. UNCHANGED <<jobs, aiOutbox, docs, courseOutbox, quizzes>>
    BY DEF ReadQuiz, ReadDocument, ReadCourseOutbox, ReadAiOutbox, ForwardMark, ReturnMark,
           EndCycle, RelayFault, vars, queueVars, seamVars
  <1>2. /\ \A i : Forwarded(i)' => Forwarded(i)
        /\ \A k : Projected(k)' => Projected(k)
        /\ relayFaults' = 0 => relayFaults = 0
    <2>1. CASE RelayFault
      <3>1. /\ UNCHANGED <<coursePublished, aiPublished>>
            /\ relay'.pc = "idle" /\ relayFaults' = relayFaults + 1
        BY <2>1 DEF RelayFault, IdleRelay
      <3>2. relayFaults' # 0
        BY <3>1, PipelineAssumption DEF SeamsTyped, TypeOK
      <3>3. QED
        BY <3>1, <3>2 DEF Forwarded, Projected
    <2>2. CASE UNCHANGED vars
      BY <2>2 DEF vars, seamVars, Forwarded, Projected, Row
    <2>3. QED
      BY <2>1, <2>2, QuietSteps
  <1>3. \A d \in Documents : /\ ToForward(d) \subseteq ToForward(d)'
                             /\ ToProject(d) \subseteq ToProject(d)'
                             /\ Open(d)' <=> Open(d)
    BY <1>1, <1>2 DEF ToForward, ConfirmsOf, ToProject, ResultsOf, Open
  <1>4. WaitsForWork'
    BY <1>1, <1>3 DEF Waits, WaitsForWork
  <1>5. QuizIsDelivered'
    BY <1>1, <1>2, <1>3 DEF Waits, QuizIsDelivered
  <1>6. QED
    BY <1>4, <1>5 DEF Waits

\* No step leaves a document waiting for nothing, but for completed work.
LEMMA WaitingInvariant == Spec => []WaitingInv
  <1>1. Init => WaitingInv
    <2> SUFFICES ASSUME Init PROVE Waits
      BY PipelineInitially, InOrderInitially DEF WaitingInv, LifecycleInv
    <2>1. QED
      BY DEF Init, Waits, WaitsForWork, QuizIsDelivered
  <1>2. ASSUME WaitingInv, [Next]_vars
        PROVE  WaitingInv'
    <2>1. /\ SeamsTyped /\ QueueInv /\ InOrder /\ Answering /\ ReadyHasQuiz /\ Waits
      BY <1>2 DEF WaitingInv, LifecycleInv, PipelineInv
    <2>2. LifecycleInv'
      BY <1>2, PipelineStep, InOrderStep DEF WaitingInv, LifecycleInv, PipelineInv
    <2>3. CASE QueueProgress \/ QueueFault
      BY <2>1, <2>2, <2>3, LoopsAreLoopOrTime, LoopsWait DEF WaitingInv
    <2>4. ASSUME NEW d \in Documents, Confirm(d)
          PROVE  WaitingInv'
      BY <2>1, <2>2, <2>4, ConfirmWaits DEF WaitingInv
    <2>5. CASE ForwardEnqueue \/ PersistQuiz \/ Project
      BY <2>1, <2>2, <2>5, EnqueueWaits, PersistWaits, ProjectWaits DEF WaitingInv
    <2>6. CASE \/ ReadQuiz \/ (\E d \in Documents : ReadDocument(d)) \/ ReadCourseOutbox
               \/ ReadAiOutbox \/ ForwardMark \/ ReturnMark \/ EndCycle \/ RelayFault
               \/ UNCHANGED vars
      BY <2>1, <2>2, <2>6, QuietWaits DEF WaitingInv
    <2>7. QED
      BY <1>2, <2>3, <2>4, <2>5, <2>6 DEF Next, Request, RelayStep
  <1>3. QED
    BY <1>1, <1>2, PTL DEF Spec

\* A document waits for nothing only when it was confirmed again after its work was
\* completed, and without a fault of the relay only when that brought no quiz.
THEOREM VoidHasOneCause == Spec => []VoidFollowsCompletion
  <1>1. WaitingInv => VoidFollowsCompletion
    <2> SUFFICES ASSUME WaitingInv, NEW d \in Documents, docs[d] = "PROCESSING",
                        ~ AnswerUnderWay(d)
                 PROVE  /\ Cardinality(ConfirmsOf(d)) > 1
                        /\ jobs[d].status = "COMPLETED"
                        /\ relayFaults = 0 => quizzes[d] = 0
      BY DEF VoidFollowsCompletion
    <2>1. PipelineInv /\ SeamsTyped /\ Waits
      BY DEF WaitingInv, LifecycleInv, PipelineInv
    <2>2. ToForward(d) = {} /\ ToProject(d) = {} /\ ~ Open(d)
      BY DEF AnswerUnderWay, ToForward, ToProject, Forwarded, Projected, ResultsOf, Open
    <2>3. jobs[d].status = "COMPLETED"
      BY <2>1, <2>2 DEF Waits, WaitsForWork
    <2>4. relayFaults = 0 => quizzes[d] = 0
      BY <2>1, <2>2 DEF Waits, QuizIsDelivered
    <2>5. ConfirmsOf(d) # {}
      BY <2>1, <2>3 DEF PipelineInv, Answering, JobsHaveConfirms
    <2>6. IsFiniteSet(ConfirmsOf(d)) /\ Cardinality(ConfirmsOf(d)) \in Nat
      BY <2>1, ConfirmsFinite
    <2>7. Cardinality(ConfirmsOf(d)) # 0
      BY <2>5, <2>6, FS_EmptySet
    <2>8. Cardinality(ConfirmsOf(d)) # 1
      BY <2>1, FirstConfirmFindsWork DEF FirstConfirmIsUnderWay
    <2>9. QED
      BY <2>3, <2>4, <2>6, <2>7, <2>8
  <1>2. QED
    BY <1>1, WaitingInvariant, PTL

=============================================================================
