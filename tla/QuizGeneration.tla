--------------------------- MODULE QuizGeneration ---------------------------
(***************************************************************************)
(* The Node generation path kept beside the Go worker: one processing job, *)
(* the attempts that run ExtractionJobProcessor.process and                *)
(* QuizGenerationService.generate for it, the bounded pool of chunk calls, *)
(* the usage records of the provider calls, the generation cache, and the  *)
(* owner's credits (BudgetReservationRepository): reserved before the      *)
(* calls, settled after them.                                              *)
(*                                                                         *)
(* A run is named by the attempt number it claimed. Its lease may expire   *)
(* under it, and the next attempt then runs beside it. One step is one     *)
(* store transaction, one provider call, or a stop between two of them.    *)
(***************************************************************************)
EXTENDS Integers, Sequences, FiniteSets, FiniteSetsExt, Functions

CONSTANTS
    ChunkCount,    \* number of the document's chunks
    Keys,          \* cache keys: equal texts under one prompt have equal keys
    Concurrencies, \* values of worker.quizGenerationConcurrency
    ChunkEstimate, \* QUIZ_GENERATION_PARAMETERS.maxOutputTokens, in credits
    Costs,         \* credits one answered call may turn out to cost
    Grant,         \* the owner's credits
    MaxRetries,    \* TECHNICAL_RETRY_DELAYS.length
    MaxAttempts,   \* bound: attempts of the job
    MaxMishaps     \* bound: crashes, store errors, leases outrun

ASSUME GenerationAssumption ==
    /\ ChunkCount \in Nat
    /\ IsFiniteSet(Keys)
    /\ Concurrencies \subseteq Nat \ {0}
    /\ ChunkEstimate \in Nat
    /\ Costs \subseteq Nat
    /\ Grant \in Nat
    /\ MaxRetries \in Nat
    /\ MaxAttempts \in Nat
    /\ MaxMishaps \in Nat

VARIABLES
    job,      \* the row of ai.processing_jobs
    run,      \* the runs, by attempt number
    text,     \* the cache key of each chunk's text
    concurrency, \* the configured size of the pool
    wallet,   \* course.owner_credit_wallets of the owner
    ledger,   \* course.credit_ledger_entries, by attempt
    usage,    \* ai.provider_usage_records, by attempt and cache key
    cache,    \* keys of ai.generation_cache
    quiz,     \* the attempt whose quiz is stored, 0 when there is none
    results,  \* ai.outbox: the result rows, with the budget columns they copied
    mishaps   \* faults spent

vars == <<job, run, text, concurrency, wallet, ledger, usage, cache, quiz, results, mishaps>>

\* The document and the configuration: nothing changes them.
setting == <<text, concurrency>>

Attempts == 1..MaxAttempts
Chunks == 1..ChunkCount

(***************************************************************************)
(* Rows and local state                                                    *)
(***************************************************************************)

Selections == {"NULL", "PLAN", "CUSTOM"}

\* The budget columns: what the last attempt that passed the fence recorded.
NoBudget == [status |-> "NULL", settled |-> 0]
Budgets == [status: {"NULL", "SETTLED", "HELD", "EXHAUSTED"}, settled: Nat]

JobRow == [status: {"PENDING", "RUNNING", "COMPLETED", "FAILED"}, attempts: 0..MaxAttempts,
           live: BOOLEAN, retries: Nat, selection: Selections, budget: Budgets]

ResultRow == [attempt: Attempts, status: {"COMPLETED", "FAILED"}, budget: Budgets]

\* The business keys reserve:, settle:, release: and hold: of one attempt.
NoEntries == [reserved |-> FALSE, settled |-> FALSE,
              reserve |-> 0, settle |-> 0, release |-> 0, hold |-> 0]
Entries == [reserved: BOOLEAN, settled: BOOLEAN,
            reserve: Nat, settle: Nat, release: Nat, hold: Nat]

NoRecord == [status |-> "NONE", cached |-> FALSE, charged |-> 0]
Records == [status: {"NONE", "UNAVAILABLE", "AVAILABLE"}, cached: BOOLEAN, charged: Nat]

\* What generateForChunk is about to do for a chunk.
ChunkStep == {"todo", "lookup", "hit", "miss", "calling", "answered", "decoding", "done",
              "failed"}

\* The usage an answer carries, and whether its call went out at all.
Unknown == -1
Answers == Costs \cup {Unknown}

Errors == {"None", "Processing", "Budget", "Generation", "Stale"}

RunStage == {"none", "claimed", "resolving", "reserving", "prompting", "generating",
             "persisting", "summarizing", "settling", "recording", "returned", "thrown",
             "ended", "crashed"}

RunState == [pc: RunStage, selection: Selections, chunk: [Chunks -> ChunkStep],
             answer: [Chunks -> Answers], called: SUBSET Chunks, caught: BOOLEAN,
             error: Errors, known: Nat, uncertain: BOOLEAN, hurt: BOOLEAN]

NoRun == [pc |-> "none", selection |-> "NULL", chunk |-> [c \in Chunks |-> "todo"],
          answer |-> [c \in Chunks |-> Unknown], called |-> {}, caught |-> FALSE,
          error |-> "None", known |-> 0, uncertain |-> FALSE, hurt |-> FALSE]

Init ==
    /\ job \in [status: {"PENDING"}, attempts: {0}, live: {FALSE}, retries: {0},
                selection: {"NULL", "CUSTOM"}, budget: {NoBudget}]
    /\ run = [a \in Attempts |-> NoRun]
    /\ text \in [Chunks -> Keys]
    /\ concurrency \in Concurrencies
    /\ wallet = [available |-> Grant, reserved |-> 0]
    /\ ledger = [a \in Attempts |-> NoEntries]
    /\ usage = [a \in Attempts |-> [k \in Keys |-> NoRecord]]
    /\ cache = {}
    /\ quiz = 0
    /\ results = <<>>
    /\ mishaps = 0

Fenced(a) == job.status = "RUNNING" /\ job.attempts = a /\ job.live

At(a, pc) == run[a].pc = pc
Goto(a, pc) == run' = [run EXCEPT ![a].pc = pc]
Throw(a, error) == run' = [run EXCEPT ![a].pc = "thrown", ![a].error = error]

\* An error inside the try block: the first settleBudget, or the one of the catch.
Catch(a, error) ==
    run' = [run EXCEPT ![a].pc = IF error = "Stale" THEN "thrown" ELSE "summarizing",
                       ![a].caught = TRUE, ![a].error = error]

Platform(a) == run[a].selection # "CUSTOM"
Estimate == Cardinality(Chunks) * ChunkEstimate

(***************************************************************************)
(* claimPending, process up to generate                                    *)
(***************************************************************************)

ClaimPending(a) ==
    /\ a = job.attempts + 1
    /\ job.status = "PENDING" \/ (job.status = "RUNNING" /\ ~job.live)
    /\ job' = [job EXCEPT !.status = "RUNNING", !.attempts = a, !.live = TRUE]
    /\ run' = [run EXCEPT ![a].pc = "claimed", ![a].selection = job.selection]
    /\ UNCHANGED <<setting, wallet, ledger, usage, cache, quiz, results, mishaps>>

\* Source, object, extraction and chunking succeed and replaceForDocument finds
\* the attempt's row, or one of them does not. Chunk ids are a function of the
\* text, so every attempt stores the same rows.
Process(a) ==
    /\ At(a, "claimed")
    /\ \/ Fenced(a) /\ Goto(a, "resolving")
       \/ Throw(a, "Processing")
    /\ UNCHANGED <<job, setting, wallet, ledger, usage, cache, quiz, results, mishaps>>

\* resolveDefaultPlatformModel and resolveProvider: a job without a selection is
\* given the default model under the fence; a custom model may be gone.
ResolveModel(a) ==
    /\ At(a, "resolving")
    /\ \/ /\ run[a].selection = "NULL" /\ job.selection = "NULL" /\ Fenced(a)
          /\ job' = [job EXCEPT !.selection = "PLAN"]
          /\ run' = [run EXCEPT ![a].selection = "PLAN", ![a].pc = "reserving"]
       \/ /\ run[a].selection = "NULL" /\ ~(job.selection = "NULL" /\ Fenced(a))
          /\ Throw(a, "Processing")
          /\ UNCHANGED job
       \/ /\ run[a].selection = "PLAN"
          /\ Goto(a, "reserving")
          /\ UNCHANGED job
       \/ /\ run[a].selection = "CUSTOM"
          /\ Goto(a, "reserving") \/ Throw(a, "Processing")
          /\ UNCHANGED job
    /\ UNCHANGED <<setting, wallet, ledger, usage, cache, quiz, results, mishaps>>

(***************************************************************************)
(* BudgetReservationRepository                                             *)
(***************************************************************************)

\* reserve: nothing twice for one business key, nothing the wallet cannot cover.
Reserve(a) ==
    /\ wallet.available >= Estimate
    /\ wallet' = [available |-> wallet.available - Estimate,
                  reserved |-> wallet.reserved + Estimate]
    /\ ledger' = [ledger EXCEPT ![a].reserved = TRUE, ![a].reserve = Estimate]

\* MUTANT: an overrun is not charged to the wallet.
SettleWithoutOverrun(a, known, uncertain) ==
    LET reserved == ledger[a].reserve
        rest == Max({0, reserved - known})
        released == IF uncertain THEN 0 ELSE rest IN
    IF ledger[a].settled THEN UNCHANGED <<wallet, ledger>> ELSE
    /\ ledger' = [ledger EXCEPT ![a].settled = TRUE, ![a].settle = known,
                                ![a].release = released, ![a].hold = rest - released]
    /\ wallet' = [available |-> wallet.available + released,
                  reserved |-> wallet.reserved - reserved]

\* MUTANT: the rest is released although a dispatched call's usage is unknown.
SettleReleasing(a, known, uncertain) ==
    LET reserved == ledger[a].reserve
        rest == Max({0, reserved - known}) IN
    IF ledger[a].settled THEN UNCHANGED <<wallet, ledger>> ELSE
    /\ ledger' = [ledger EXCEPT ![a].settled = TRUE, ![a].settle = known,
                                ![a].release = rest, ![a].hold = 0]
    /\ wallet' = [available |-> wallet.available + rest - Max({0, known - reserved}),
                  reserved |-> wallet.reserved - reserved]

\* settle: nothing twice; the known credits are spent, the rest of the
\* reservation is released, or held when some call's usage is not known.
Settle(a, known, uncertain) ==
    LET reserved == ledger[a].reserve
        rest == Max({0, reserved - known})
        released == IF uncertain THEN 0 ELSE rest IN
    IF ledger[a].settled THEN UNCHANGED <<wallet, ledger>> ELSE
    /\ ledger' = [ledger EXCEPT ![a].settled = TRUE, ![a].settle = known,
                                ![a].release = released, ![a].hold = rest - released]
    /\ wallet' = [available |-> wallet.available + released - Max({0, known - reserved}),
                  reserved |-> wallet.reserved - reserved]

\* The reservation of generate, before its try block: only platform models cost
\* credits, and an exhausted wallet ends the attempt without one.
ReserveBudget(a) ==
    /\ At(a, "reserving")
    /\ \/ Platform(a) /\ Reserve(a) /\ Goto(a, "prompting")
       \/ Platform(a) /\ wallet.available < Estimate /\ Throw(a, "Budget")
          /\ UNCHANGED <<wallet, ledger>>
       \/ ~Platform(a) /\ Goto(a, "prompting") /\ UNCHANGED <<wallet, ledger>>
    /\ UNCHANGED <<job, setting, usage, cache, quiz, results, mishaps>>

\* The prompt version's row exists after the first attempt that gets here; then
\* mapWithBoundedConcurrency starts its workers at once.
RecordPromptVersion(a) ==
    /\ At(a, "prompting")
    /\ run' = [run EXCEPT ![a].pc = "generating",
                          ![a].chunk = [c \in Chunks |->
                             IF c <= concurrency THEN "lookup" ELSE "todo"]]
    /\ UNCHANGED <<job, setting, wallet, ledger, usage, cache, quiz, results, mishaps>>

(***************************************************************************)
(* generateForChunk, under mapWithBoundedConcurrency                       *)
(***************************************************************************)

InFlight(a) == {c \in Chunks : run[a].chunk[c] \notin {"todo", "done", "failed"}}

\* A call goes on as long as its process lives, whatever the run does meanwhile.
ChunkAt(a, c, step) == ~At(a, "crashed") /\ run[a].chunk[c] = step
ChunkGoto(a, c, step) == run' = [run EXCEPT ![a].chunk[c] = step]

\* The worker that finished c takes the next item, unless a call has failed.
Finish(a, c) ==
    LET left == {d \in Chunks : run[a].chunk[d] = "todo"} IN
    run' = [run EXCEPT ![a].chunk =
              [d \in Chunks |->
                 IF d = c THEN "done"
                 ELSE IF run[a].error = "None" /\ left # {} /\ d = Min(left) THEN "lookup"
                 ELSE run[a].chunk[d]]]

\* map rejected for c: its worker returns, the others finish what they started.
FailChunk(a, c) ==
    run' = [run EXCEPT ![a].chunk[c] = "failed", ![a].error = "Generation"]

\* INSERT ... ON CONFLICT (request_key) DO UPDATE, only UNAVAILABLE to AVAILABLE.
RecordUsage(a, key, record) ==
    LET old == usage[a][key] IN
    usage' = [usage EXCEPT ![a][key] =
                IF old.status = "NONE" THEN record
                ELSE IF old.status = "UNAVAILABLE" /\ record.status = "AVAILABLE"
                THEN [record EXCEPT !.cached = old.cached]
                ELSE old]

CacheLookup(a, c) ==
    /\ ChunkAt(a, c, "lookup")
    /\ ChunkGoto(a, c, IF text[c] \in cache THEN "hit" ELSE "miss")
    /\ UNCHANGED <<job, setting, wallet, ledger, usage, cache, quiz, results, mishaps>>

\* The kept output is decoded and compared with its source like a fresh one (other
\* rules may hold than those it was kept under), before its use is on record.
CacheHit(a, c) ==
    /\ ChunkAt(a, c, "hit")
    /\ \/ /\ RecordUsage(a, text[c], [status |-> "UNAVAILABLE", cached |-> TRUE, charged |-> 0])
          /\ Finish(a, c)
       \/ FailChunk(a, c) /\ UNCHANGED usage
    /\ UNCHANGED <<job, setting, wallet, ledger, cache, quiz, results, mishaps>>

\* The dispatch is on record before the call goes out.
RecordDispatch(a, c) ==
    /\ ChunkAt(a, c, "miss")
    /\ RecordUsage(a, text[c], [status |-> "UNAVAILABLE", cached |-> FALSE, charged |-> 0])
    /\ run' = [run EXCEPT ![a].chunk[c] = "calling", ![a].called = @ \cup {c}]
    /\ UNCHANGED <<job, setting, wallet, ledger, cache, quiz, results, mishaps>>

\* provider.generate answers with its usage or without, or throws (refused,
\* timed out, truncated, not JSON): then what it cost is not known.
ProviderCall(a, c) ==
    /\ ChunkAt(a, c, "calling")
    /\ \/ \E answer \in Answers :
            run' = [run EXCEPT ![a].chunk[c] = "answered", ![a].answer[c] = answer]
       \/ FailChunk(a, c)
    /\ UNCHANGED <<job, setting, wallet, ledger, usage, cache, quiz, results, mishaps>>

RecordAnswer(a, c) ==
    LET answer == run[a].answer[c] IN
    /\ ChunkAt(a, c, "answered")
    /\ RecordUsage(a, text[c],
         IF answer = Unknown
         THEN [status |-> "UNAVAILABLE", cached |-> FALSE, charged |-> 0]
         ELSE [status |-> "AVAILABLE", cached |-> FALSE,
               charged |-> IF Platform(a) THEN answer ELSE 0])
    /\ ChunkGoto(a, c, "decoding")
    /\ UNCHANGED <<job, setting, wallet, ledger, cache, quiz, results, mishaps>>

\* Only output that decodes and does not copy its source enters the cache.
DecodeAndSave(a, c) ==
    /\ ChunkAt(a, c, "decoding")
    /\ \/ Finish(a, c) /\ cache' = cache \cup {text[c]}
       \/ FailChunk(a, c) /\ UNCHANGED cache
    /\ UNCHANGED <<job, setting, wallet, ledger, usage, quiz, results, mishaps>>

\* MUTANT: the pool throws as soon as a call fails, like a bare Promise.all.
PoolEndsAtFirstFailure(a) == run[a].error # "None" \/ InFlight(a) = {}

\* Promise.all over the workers: none is inside map any more.
PoolEnds(a) == InFlight(a) = {}

EndPool(a) ==
    /\ At(a, "generating") /\ PoolEnds(a)
    /\ \/ run[a].error = "None" /\ Goto(a, "persisting")
       \/ run[a].error # "None" /\ Catch(a, run[a].error)
    /\ UNCHANGED <<job, setting, wallet, ledger, usage, cache, quiz, results, mishaps>>

\* handoff.persist: too few valid questions, or the document's quiz is inserted
\* unless it has one. The attempt fence is not part of it.
Handoff(a) ==
    /\ At(a, "persisting")
    /\ \/ Goto(a, "summarizing") /\ quiz' = (IF quiz = 0 THEN a ELSE quiz)
       \/ Catch(a, "Generation") /\ UNCHANGED quiz
    /\ UNCHANGED <<job, setting, wallet, ledger, usage, cache, results, mishaps>>

(***************************************************************************)
(* settleBudget: summarizeUsage, settle, record                            *)
(***************************************************************************)

\* Where settleBudget returns to: the end of the try block, or the rethrow.
SettleBudgetReturns(a) == IF run[a].caught THEN "thrown" ELSE "returned"

\* The credits of the attempt's records, and whether some call's are not known.
Charged(a) == SumFunction([k \in Keys |-> usage[a][k].charged])
SomeUnknown(a) == \E k \in Keys : usage[a][k].status = "UNAVAILABLE" /\ ~usage[a][k].cached

SummarizeUsage(a) ==
    /\ At(a, "summarizing")
    /\ \/ Platform(a)
          /\ run' = [run EXCEPT ![a].pc = "settling", ![a].known = Charged(a),
                                ![a].uncertain = SomeUnknown(a)]
       \/ ~Platform(a) /\ Goto(a, SettleBudgetReturns(a))
    /\ UNCHANGED <<job, setting, wallet, ledger, usage, cache, quiz, results, mishaps>>

\* MUTANT: the job row is written before the ledger.
RecordThenSettle(a) ==
    /\ At(a, "settling")
    /\ \/ /\ Fenced(a)
          /\ Settle(a, run[a].known, run[a].uncertain)
          /\ Goto(a, "recording")
       \/ /\ ~Fenced(a)
          /\ Throw(a, "Stale")
          /\ UNCHANGED <<wallet, ledger>>
    /\ UNCHANGED <<job, setting, usage, cache, quiz, results, mishaps>>

\* The wallet is settled whether or not the attempt is still the job's.
SettleBudget(a) ==
    /\ At(a, "settling")
    /\ Settle(a, run[a].known, run[a].uncertain)
    /\ Goto(a, "recording")
    /\ UNCHANGED <<job, setting, usage, cache, quiz, results, mishaps>>

\* MUTANT: the record is not fenced by the attempt.
RecordBudgetUnfenced(a) ==
    /\ At(a, "recording")
    /\ job' = [job EXCEPT !.budget =
                 [status |-> IF run[a].uncertain THEN "HELD" ELSE "SETTLED",
                  settled |-> run[a].known]]
    /\ Goto(a, SettleBudgetReturns(a))
    /\ UNCHANGED <<setting, wallet, ledger, usage, cache, quiz, results, mishaps>>

\* record: the budget columns of the row, under the fence; without it the
\* attempt is stale and the catch block does not settle again.
RecordBudget(a) ==
    /\ At(a, "recording")
    /\ \/ /\ Fenced(a)
          /\ job' = [job EXCEPT !.budget =
                       [status |-> IF run[a].uncertain THEN "HELD" ELSE "SETTLED",
                        settled |-> run[a].known]]
          /\ Goto(a, SettleBudgetReturns(a))
       \/ /\ ~Fenced(a)
          /\ Throw(a, "Stale")
          /\ UNCHANGED job
    /\ UNCHANGED <<setting, wallet, ledger, usage, cache, quiz, results, mishaps>>

(***************************************************************************)
(* The outcome, written by the attempt's caller                            *)
(***************************************************************************)

\* createResultEvent: the row's budget columns, or EXHAUSTED for that error.
Result(a, status) ==
    results' = Append(results,
      [attempt |-> a, status |-> status,
       budget |-> IF job.budget = NoBudget /\ run[a].error = "Budget"
                  THEN [NoBudget EXCEPT !.status = "EXHAUSTED"] ELSE job.budget])

Finalize(a, status) ==
    IF Fenced(a)
    THEN job' = [job EXCEPT !.status = status, !.live = FALSE] /\ Result(a, status)
    ELSE UNCHANGED <<job, results>>

Complete(a) ==
    /\ At(a, "returned")
    /\ Finalize(a, "COMPLETED")
    /\ Goto(a, "ended")
    /\ UNCHANGED <<setting, wallet, ledger, usage, cache, quiz, mishaps>>

FailAttempt(a) ==
    /\ At(a, "thrown")
    /\ Finalize(a, "FAILED")
    /\ Goto(a, "ended")
    /\ UNCHANGED <<setting, wallet, ledger, usage, cache, quiz, mishaps>>

RetryTechnical(a) ==
    /\ At(a, "thrown")
    /\ IF job.retries >= MaxRetries THEN Finalize(a, "FAILED") ELSE
       /\ job' = (IF Fenced(a)
                  THEN [job EXCEPT !.status = "PENDING", !.live = FALSE, !.retries = @ + 1]
                  ELSE job)
       /\ UNCHANGED results
    /\ Goto(a, "ended")
    /\ UNCHANGED <<setting, wallet, ledger, usage, cache, quiz, mishaps>>

(***************************************************************************)
(* Faults                                                                  *)
(***************************************************************************)

Mishap == mishaps < MaxMishaps /\ mishaps' = mishaps + 1

LeaseExpires ==
    /\ job.status = "RUNNING" /\ job.live
    /\ Mishap
    /\ job' = [job EXCEPT !.live = FALSE]
    /\ UNCHANGED <<run, setting, wallet, ledger, usage, cache, quiz, results>>

\* The process dies: nothing of the run goes on.
Crash(a) ==
    /\ run[a].pc \notin {"none", "ended", "crashed"}
    /\ Mishap
    /\ Goto(a, "crashed")
    /\ UNCHANGED <<job, setting, wallet, ledger, usage, cache, quiz, results>>

\* A store call of the run fails: inside the pool it rejects its chunk, in the
\* try block it reaches the catch, elsewhere it ends generate.
StoreError(a) ==
    /\ Mishap
    /\ \/ \E c \in InFlight(a) : At(a, "generating") /\ FailChunk(a, c)
       \/ /\ run[a].pc \in {"prompting", "persisting", "summarizing", "settling", "recording"}
          /\ ~run[a].caught
          /\ Catch(a, "Processing")
       \/ /\ run[a].pc \in {"summarizing", "settling", "recording"} /\ run[a].caught
          /\ run' = [run EXCEPT ![a].pc = "thrown", ![a].hurt = TRUE]
    /\ UNCHANGED <<job, setting, wallet, ledger, usage, cache, quiz, results>>

\* A reservation or a settlement commits and its answer is lost.
AnswerLost(a) ==
    /\ Mishap
    /\ \/ /\ At(a, "reserving") /\ Platform(a) /\ Reserve(a)
          /\ run' = [run EXCEPT ![a].pc = "thrown", ![a].error = "Processing",
                                ![a].hurt = TRUE]
       \/ /\ At(a, "settling") /\ Settle(a, run[a].known, run[a].uncertain)
          /\ IF run[a].caught THEN Throw(a, run[a].error) ELSE Catch(a, "Processing")
    /\ UNCHANGED <<job, setting, usage, cache, quiz, results>>

(***************************************************************************)
(* Specification                                                           *)
(***************************************************************************)

ChunkWork(a, c) ==
    \/ CacheLookup(a, c) \/ CacheHit(a, c) \/ RecordDispatch(a, c)
    \/ ProviderCall(a, c) \/ RecordAnswer(a, c) \/ DecodeAndSave(a, c)

RunStep(a) ==
    \/ Process(a) \/ ResolveModel(a) \/ ReserveBudget(a)
    \/ RecordPromptVersion(a) \/ EndPool(a) \/ Handoff(a)
    \/ SummarizeUsage(a) \/ SettleBudget(a) \/ RecordBudget(a)
    \/ Complete(a) \/ FailAttempt(a) \/ RetryTechnical(a)

Next ==
    \/ \E a \in Attempts : ClaimPending(a) \/ RunStep(a)
    \/ \E a \in Attempts, c \in Chunks : ChunkWork(a, c)
    \/ LeaseExpires
    \/ \E a \in Attempts : Crash(a) \/ StoreError(a) \/ AnswerLost(a)

Spec == Init /\ [][Next]_vars

(***************************************************************************)
(* Properties                                                              *)
(***************************************************************************)

\* Every row and every run has the shape its table or class gives it.
GenerationTypeOK ==
    /\ job \in JobRow
    /\ run \in [Attempts -> RunState]
    /\ text \in [Chunks -> Keys]
    /\ concurrency \in Concurrencies
    /\ wallet \in [available: Int, reserved: Nat]
    /\ ledger \in [Attempts -> Entries]
    /\ usage \in [Attempts -> [Keys -> Records]]
    /\ cache \subseteq Keys
    /\ quiz \in 0..MaxAttempts
    /\ results \in Seq(ResultRow)
    /\ mishaps \in Nat

\* Over all attempts, the credits a field of the ledger names.
Total(credits) == SumFunction(credits)

\* The wallet is what the ledger says, through every retry, stale attempt and
\* repeated settlement: reserved credits are those of the reservations not yet
\* settled, and no credit is lost or made: what is neither available nor
\* reserved has been spent or is held.
WalletMatchesLedger ==
    /\ wallet.reserved =
         Total([a \in Attempts |-> IF ledger[a].settled THEN 0 ELSE ledger[a].reserve])
    /\ wallet.available + wallet.reserved + Total([a \in Attempts |-> ledger[a].settle])
         + Total([a \in Attempts |-> ledger[a].hold]) = Grant

\* A settlement charges what the attempt's calls really cost: no call of the
\* attempt is still under way, so none adds to its usage afterwards.
SettledUsageIsFinal ==
    \A a \in Attempts :
        ledger[a].settled => ledger[a].settle = Charged(a)

\* The dispatches of a run whose cost nobody learned.
UncertainCalls(a) == {c \in run[a].called : run[a].answer[c] = Unknown}

\* Nothing is released while some call may have cost credits nobody knows of,
\* provided the chunk's text occurs once: usage is recorded by text.
UncertainIsHeld ==
    \A a \in Attempts, c \in Chunks :
        /\ ledger[a].settled /\ c \in UncertainCalls(a)
        /\ \A d \in Chunks : text[d] = text[c] => d = c
        => ledger[a].release = 0

\* A run that ends without a crash and without a store error that hit its
\* settlement leaves no reservation behind, even when its attempt was stale.
EndedRunsAreSettled ==
    \A a \in Attempts :
        run[a].pc = "ended" /\ ~run[a].hurt /\ ledger[a].reserved => ledger[a].settled

\* The budget a COMPLETED result reports is the settlement of the attempt that
\* completed, not of an earlier one the row still remembers.
CompletedBudgetIsOwn ==
    \A i \in DOMAIN results :
        results[i].status = "COMPLETED" /\ Platform(results[i].attempt) =>
            /\ results[i].budget.settled = ledger[results[i].attempt].settle
            /\ (results[i].budget.status = "HELD") =
                 run[results[i].attempt].uncertain

=============================================================================
