--------------------------- MODULE GenerationProofs ---------------------------
(***************************************************************************)
(* The credits of the Node generation path, for every document, pool size, *)
(* price and number of attempts: the wallet is what the ledger says, a     *)
(* settlement is final, charges what the attempt's calls cost and holds    *)
(* what nobody knows, and a completed result reports its own.              *)
(***************************************************************************)
EXTENDS QuizGeneration, FiniteSetTheorems, WellFoundedInduction, TLAPS

(***************************************************************************)
(* Sums over finite sets                                                   *)
(***************************************************************************)

\* A set of natural numbers that is not empty has a least member: induction as a
\* fact about sets.
LEMMA LeastOf ==
  ASSUME NEW S \in SUBSET Nat, S # {}
  PROVE  \E n \in S : \A m \in S : n <= m
<1> DEFINE R == {pair \in Nat \X Nat : pair[1] < pair[2]}
<1>1. IsWellFoundedOn(R, Nat)
  BY NatLessThanWellFounded DEF OpToRel
<1>2. \A m, k \in S : m < k => <<m, k>> \in R
  OBVIOUS
<1>5. \A m, k \in S : m < k \/ k <= m
  OBVIOUS
<1> HIDE DEF R
<1>3. PICK n \in S : \A m \in S : ~ (<<m, n>> \in R)
  <2>1. IsWellFoundedOn(R, S)
    BY <1>1, IsWellFoundedOnSubset, Zenon
  <2>2. QED
    BY <2>1, WFMin, Zenon
<1>4. \A m \in S : n <= m
  BY <1>2, <1>3, <1>5, Zenon
<1> QED BY <1>4

\* The first element a fold takes out of a set.
FirstOf(s) == CHOOSE x \in s : TRUE

\* Induction along a fold: what holds of the empty set, and of a set when it holds
\* of the set without its first element, holds of every subset of a finite set.
LEMMA FoldInduction ==
  ASSUME NEW S, IsFiniteSet(S), NEW Good, {} \in Good,
         \A s \in SUBSET S : s # {} /\ s \ {FirstOf(s)} \in Good => s \in Good
  PROVE  SUBSET S \subseteq Good
<1> SUFFICES ASSUME NEW t \in SUBSET S, t \notin Good
             PROVE  FALSE
  OBVIOUS
<1> DEFINE Bad == {s \in SUBSET S : s \notin Good}
           Sizes == {Cardinality(s) : s \in Bad}
<1>1. \A s \in SUBSET S : IsFiniteSet(s) /\ Cardinality(s) \in Nat
  BY FS_Subset, FS_CardinalityType
<1>2. PICK n \in Sizes : \A m \in Sizes : n <= m
  <2>1. Sizes \in SUBSET Nat /\ Sizes # {}
    BY <1>1
  <2> QED BY <2>1, LeastOf
<1>3. PICK s \in Bad : Cardinality(s) = n
  OBVIOUS
<1>4. s # {} /\ FirstOf(s) \in s
  BY DEF FirstOf
<1>5. s \ {FirstOf(s)} \in SUBSET S /\ s \ {FirstOf(s)} \notin Good
  BY <1>4
<1>6. n <= Cardinality(s \ {FirstOf(s)})
  BY <1>2, <1>5
<1>7. Cardinality(s \ {FirstOf(s)}) = Cardinality(s) - 1
  BY <1>1, <1>4, FS_RemoveElement
<1>8. Cardinality(s) \in Nat
  BY <1>1
<1> QED BY <1>3, <1>6, <1>7, <1>8

\* What the fold of SumFunction computes for a set, from the sums of smaller ones.
SumStep(f, g, s) == IF s = {} THEN 0 ELSE f[FirstOf(s)] + g[s \ {FirstOf(s)}]

\* The equation of the fold has a solution.
LEMMA SumExists ==
  ASSUME NEW S, IsFiniteSet(S), NEW f \in [S -> Int]
  PROVE  \E g \in [SUBSET S -> Int] : \A s \in SUBSET S : g[s] = SumStep(f, g, s)
<1> DEFINE Upto(n) == {s \in SUBSET S : Cardinality(s) <= n}
           Solved(n) == \E g \in [Upto(n) -> Int] : \A s \in Upto(n) : g[s] = SumStep(f, g, s)
<1>1. \A s \in SUBSET S : IsFiniteSet(s) /\ Cardinality(s) \in Nat
  BY FS_Subset, FS_CardinalityType
<1>2. \A s \in SUBSET S : s # {} =>
         /\ FirstOf(s) \in s
         /\ s \ {FirstOf(s)} \in SUBSET S
         /\ Cardinality(s \ {FirstOf(s)}) = Cardinality(s) - 1
  <2> SUFFICES ASSUME NEW s \in SUBSET S, s # {}
               PROVE  FirstOf(s) \in s /\ Cardinality(s \ {FirstOf(s)}) = Cardinality(s) - 1
    OBVIOUS
  <2>1. FirstOf(s) \in s
    BY DEF FirstOf
  <2> QED BY <1>1, <2>1, FS_RemoveElement
<1>3. Solved(0)
  <2>1. \A s \in Upto(0) : s = {}
    BY <1>1, FS_EmptySet
  <2> WITNESS [s \in Upto(0) |-> 0] \in [Upto(0) -> Int]
  <2> QED BY <2>1 DEF SumStep
<1>4. ASSUME NEW n \in Nat, Solved(n)
      PROVE  Solved(n + 1)
  <2>1. PICK g \in [Upto(n) -> Int] : \A s \in Upto(n) : g[s] = SumStep(f, g, s)
    BY <1>4
  <2> DEFINE next == [s \in Upto(n + 1) |-> SumStep(f, g, s)]
  <2>2. \A s \in Upto(n + 1) : s # {} => s \ {FirstOf(s)} \in Upto(n) /\ FirstOf(s) \in S
    BY <1>1, <1>2
  <2>3. \A s \in Upto(n + 1) : SumStep(f, g, s) \in Int
    BY <2>2 DEF SumStep
  <2>4. \A s \in Upto(n) : s \in Upto(n + 1) /\ next[s] = g[s]
    BY <1>1, <2>1
  <2>5. \A s \in Upto(n + 1) : SumStep(f, next, s) = SumStep(f, g, s)
    BY <2>2, <2>4 DEF SumStep
  <2>6. next \in [Upto(n + 1) -> Int] /\ \A s \in Upto(n + 1) : next[s] = SumStep(f, next, s)
    BY <2>3, <2>5
  <2> QED BY <2>6
<1>5. \A n \in Nat : Solved(n)
  <2> DEFINE Missing == {n \in Nat : ~ Solved(n)}
  <2> HIDE DEF Solved
  <2> SUFFICES ASSUME Missing # {} PROVE FALSE
    OBVIOUS
  <2>1. PICK n \in Missing : \A m \in Missing : n <= m
    BY LeastOf
  <2>2. n # 0 /\ n - 1 \in Nat /\ n - 1 \notin Missing
    BY <1>3, <2>1
  <2>3. Solved(n - 1)
    BY <2>2
  <2>4. Solved((n - 1) + 1)
    BY <1>4, <2>2, <2>3
  <2> QED BY <2>1, <2>4
<1>6. Upto(Cardinality(S)) = SUBSET S
  BY FS_Subset, FS_CardinalityType
<1>7. Solved(Cardinality(S))
  BY <1>1, <1>5
<1> QED BY <1>6, <1>7

\* SumFunction(f) is the value of such a solution.
LEMMA SumIsSolution ==
  ASSUME NEW S, IsFiniteSet(S), NEW f \in [S -> Int]
  PROVE  \E g \in [SUBSET S -> Int] :
            /\ \A s \in SUBSET S : g[s] = SumStep(f, g, s)
            /\ SumFunction(f) = g[S]
<1> DEFINE Solves(g) == g = [s \in SUBSET S |-> SumStep(f, g, s)]
           iter == CHOOSE g : Solves(g)
<1>1. SumFunction(f) = iter[S]
  <2>1. DOMAIN f = S
    OBVIOUS
  <2> QED BY <2>1 DEF SumFunction, SumFunctionOnSet, FoldFunctionOnSet, MapThenFoldSet, SumStep,
                      FirstOf
<1>2. PICK h \in [SUBSET S -> Int] : \A s \in SUBSET S : h[s] = SumStep(f, h, s)
  BY SumExists
<1>3. Solves(h)
  BY <1>2
<1>4. Solves(iter)
  BY <1>3, Zenon
<1>5. \A s \in SUBSET S : iter[s] = SumStep(f, iter, s)
  BY <1>4
<1>6. iter \in [SUBSET S -> Int]
  <2> DEFINE Good == {s \in SUBSET S : iter[s] \in Int}
  <2> HIDE DEF iter
  <2>1. {} \in Good
    <3>1. {} \in SUBSET S /\ SumStep(f, iter, {}) = 0
      BY DEF SumStep
    <3>2. iter[{}] = 0
      BY <1>5, <3>1, Zenon
    <3> QED BY <3>1, <3>2
  <2>2. \A s \in SUBSET S : s # {} /\ s \ {FirstOf(s)} \in Good => s \in Good
    <3> SUFFICES ASSUME NEW s \in SUBSET S, s # {}, s \ {FirstOf(s)} \in Good
                 PROVE  iter[s] \in Int
      OBVIOUS
    <3>1. FirstOf(s) \in S
      BY DEF FirstOf
    <3>2. SumStep(f, iter, s) = f[FirstOf(s)] + iter[s \ {FirstOf(s)}]
      BY DEF SumStep
    <3>3. SumStep(f, iter, s) \in Int
      BY <3>1, <3>2
    <3> QED BY <1>5, <3>3, Zenon
  <2> HIDE DEF Good
  <2>3. SUBSET S \subseteq Good
    BY <2>1, <2>2, FoldInduction
  <2> USE DEF Good
  <2> QED BY <1>4, <2>3
<1> QED BY <1>1, <1>5, <1>6

\* A sum is an integer, and not negative when nothing in it is.
LEMMA SumType ==
  ASSUME NEW S, IsFiniteSet(S), NEW f \in [S -> Int]
  PROVE  /\ SumFunction(f) \in Int
         /\ (\A x \in S : f[x] \in Nat) => SumFunction(f) \in Nat
<1>1. PICK g \in [SUBSET S -> Int] : /\ \A s \in SUBSET S : g[s] = SumStep(f, g, s)
                                     /\ SumFunction(f) = g[S]
  BY SumIsSolution
<1>2. ASSUME \A x \in S : f[x] \in Nat
      PROVE  g[S] \in Nat
  <2> DEFINE Good == {s \in SUBSET S : g[s] \in Nat}
  <2>1. {} \in Good
    <3>1. {} \in SUBSET S /\ SumStep(f, g, {}) = 0
      BY DEF SumStep
    <3>2. g[{}] = 0
      BY <1>1, <3>1, Zenon
    <3> QED BY <3>1, <3>2
  <2>2. \A s \in SUBSET S : s # {} /\ s \ {FirstOf(s)} \in Good => s \in Good
    <3> SUFFICES ASSUME NEW s \in SUBSET S, s # {}, s \ {FirstOf(s)} \in Good
                 PROVE  g[s] \in Nat
      OBVIOUS
    <3>1. FirstOf(s) \in S
      BY DEF FirstOf
    <3> QED BY <1>1, <1>2, <3>1 DEF SumStep
  <2> HIDE DEF Good
  <2>3. SUBSET S \subseteq Good
    BY <2>1, <2>2, FoldInduction
  <2> USE DEF Good
  <2> QED BY <2>3
<1> QED BY <1>1, <1>2

\* A sum of zeros is zero.
LEMMA SumOfZeros ==
  ASSUME NEW S, IsFiniteSet(S), NEW f \in [S -> Int], \A x \in S : f[x] = 0
  PROVE  SumFunction(f) = 0
<1>1. PICK g \in [SUBSET S -> Int] : /\ \A s \in SUBSET S : g[s] = SumStep(f, g, s)
                                     /\ SumFunction(f) = g[S]
  BY SumIsSolution
<1> DEFINE Good == {s \in SUBSET S : g[s] = 0}
<1>2. {} \in Good
  BY <1>1 DEF SumStep
<1>3. \A s \in SUBSET S : s # {} /\ s \ {FirstOf(s)} \in Good => s \in Good
  <2> SUFFICES ASSUME NEW s \in SUBSET S, s # {}, s \ {FirstOf(s)} \in Good
               PROVE  g[s] = 0
    OBVIOUS
  <2>1. FirstOf(s) \in S
    BY DEF FirstOf
  <2> QED BY <1>1, <2>1 DEF SumStep
<1> HIDE DEF Good
<1>4. SUBSET S \subseteq Good
  BY <1>2, <1>3, FoldInduction
<1> USE DEF Good
<1> QED BY <1>1, <1>4

\* A sum of which one term changes, changes by as much.
LEMMA SumUpdate ==
  ASSUME NEW S, IsFiniteSet(S), NEW f \in [S -> Int], NEW f2 \in [S -> Int],
         NEW x \in S, \A y \in S \ {x} : f2[y] = f[y]
  PROVE  SumFunction(f2) = SumFunction(f) - f[x] + f2[x]
<1>1. PICK g \in [SUBSET S -> Int] : /\ \A s \in SUBSET S : g[s] = SumStep(f, g, s)
                                     /\ SumFunction(f) = g[S]
  BY SumIsSolution
<1>2. PICK h \in [SUBSET S -> Int] : /\ \A s \in SUBSET S : h[s] = SumStep(f2, h, s)
                                     /\ SumFunction(f2) = h[S]
  BY SumIsSolution
<1> DEFINE Good == {s \in SUBSET S : h[s] = g[s] + (IF x \in s THEN f2[x] - f[x] ELSE 0)}
<1>3. {} \in Good
  <2>1. {} \in SUBSET S /\ SumStep(f, g, {}) = 0 /\ SumStep(f2, h, {}) = 0
    BY DEF SumStep
  <2>2. g[{}] = 0 /\ h[{}] = 0
    BY <1>1, <1>2, <2>1, Zenon
  <2> QED BY <2>1, <2>2
<1>4. \A s \in SUBSET S : s # {} /\ s \ {FirstOf(s)} \in Good => s \in Good
  <2> SUFFICES ASSUME NEW s \in SUBSET S, s # {}, s \ {FirstOf(s)} \in Good
               PROVE  h[s] = g[s] + (IF x \in s THEN f2[x] - f[x] ELSE 0)
    OBVIOUS
  <2>1. FirstOf(s) \in s
    BY DEF FirstOf
  <2>2. /\ g[s] = f[FirstOf(s)] + g[s \ {FirstOf(s)}]
        /\ h[s] = f2[FirstOf(s)] + h[s \ {FirstOf(s)}]
    BY <1>1, <1>2 DEF SumStep
  <2>3. CASE FirstOf(s) = x
    BY <2>1, <2>2, <2>3
  <2>4. CASE FirstOf(s) # x
    BY <2>1, <2>2, <2>4
  <2> QED BY <2>3, <2>4
<1> HIDE DEF Good
<1>5. SUBSET S \subseteq Good
  BY <1>3, <1>4, FoldInduction
<1> USE DEF Good
<1> QED BY <1>1, <1>2, <1>5

(***************************************************************************)
(* The inductive invariant, attempt by attempt                             *)
(***************************************************************************)

\* Before its reservation an attempt has no entry, and before the pool no call.
Before == {"none", "claimed", "resolving", "reserving"}
Early == Before \cup {"prompting"}

\* Attempts are claimed in their order, and none has a trace before its claim.
UnclaimedOf(a) ==
    /\ run[a].pc = "none" => run[a] = NoRun
    /\ a > job.attempts => run[a].pc = "none"

\* Calls are under way in the pool only, and nothing is called before it.
CallsOf(a) ==
    /\ run[a].pc \in Early =>
          /\ run[a].called = {} /\ run[a].error = "None"
          /\ \A c \in Chunks : run[a].chunk[c] = "todo"
          /\ \A k \in Keys : usage[a][k] = NoRecord
    /\ run[a].pc \notin {"generating", "crashed"} => InFlight(a) = {}
    /\ run[a].pc = "generating" => run[a].error \in {"None", "Generation"}

\* Where in its run an attempt has which entries.
Settling == {"summarizing", "settling", "recording", "returned", "thrown", "ended", "crashed"}

EntriesOf(a) ==
    /\ run[a].pc \in Before => ledger[a] = NoEntries
    /\ ledger[a].reserved => Platform(a)
    /\ ~ ledger[a].settled =>
          ledger[a].settle = 0 /\ ledger[a].release = 0 /\ ledger[a].hold = 0
    /\ ledger[a].settled => run[a].pc \in Settling
    /\ run[a].pc \in {"settling", "recording"} => Platform(a)
    /\ run[a].pc = "recording" => ledger[a].settled
    /\ run[a].pc \in {"returned", "thrown", "ended"} /\ ~ run[a].hurt /\ ledger[a].reserved =>
          ledger[a].settled

\* Between the summary of the usage and the settlement nothing is added to it.
SummaryOf(a) ==
    /\ run[a].pc \in {"settling", "recording"} =>
          run[a].known = Charged(a) /\ (run[a].uncertain <=> SomeUnknown(a))
    /\ ledger[a].settled => ledger[a].settle = Charged(a)

\* The records of a text that occurs once follow its only chunk, and no
\* settlement releases credits beside a dispatch whose cost nobody learned.
Unique(c) == \A d \in Chunks : text[d] = text[c] => d = c
Dispatched(a, c) == usage[a][text[c]].status = "UNAVAILABLE" /\ ~ usage[a][text[c]].cached

RecordOf(a, c) ==
    /\ run[a].chunk[c] \in {"todo", "lookup", "hit", "miss"} =>
          c \notin run[a].called /\ usage[a][text[c]] = NoRecord
    /\ run[a].chunk[c] \in {"calling", "answered"} => Dispatched(a, c)
    /\ c \in UncertainCalls(a) =>
          Dispatched(a, c) /\ (ledger[a].settled => ledger[a].release = 0)

RecordsOf(a) == \A c \in Chunks : Unique(c) => RecordOf(a, c)

\* A run that returned has left its settlement in the row, as long as no later
\* attempt has claimed it.
Own(a) == [status |-> IF run[a].uncertain THEN "HELD" ELSE "SETTLED",
           settled |-> ledger[a].settle]

ReturnedOf(a) ==
    run[a].pc = "returned" /\ Platform(a) =>
        ledger[a].settled /\ (job.attempts = a => job.budget = Own(a))

AttemptInv(a) ==
    /\ UnclaimedOf(a) /\ CallsOf(a) /\ EntriesOf(a)
    /\ SummaryOf(a) /\ RecordsOf(a) /\ ReturnedOf(a)

\* A result is written when its run ends, with the settlement of its attempt.
ResultsAreOwn ==
    \A i \in DOMAIN results :
        /\ run[results[i].attempt].pc = "ended"
        /\ results[i].status = "COMPLETED" /\ Platform(results[i].attempt) =>
              results[i].budget = Own(results[i].attempt)

GenerationInv ==
    /\ GenerationTypeOK
    /\ \A a \in Attempts : AttemptInv(a)
    /\ ResultsAreOwn
    /\ WalletMatchesLedger

(***************************************************************************)
(* Frames                                                                  *)
(***************************************************************************)

\* What a step of the attempt a leaves alone.
OthersKept(a) ==
    /\ text' = text
    /\ \A b \in Attempts : b # a =>
          run'[b] = run[b] /\ ledger'[b] = ledger[b] /\ usage'[b] = usage[b]

\* Only a claim, which starts a new attempt, and a record, under the fence of
\* its own attempt, concern what others find in the row.
RowKept(a) ==
    /\ job'.attempts \in Nat /\ job'.attempts >= job.attempts
    /\ job'.attempts # job.attempts => job'.attempts = a /\ run[a].pc = "none"
    /\ job'.budget # job.budget => job.attempts = a

\* The sums over an attempt's records are functions of the records.
LEMMA SumsOfRecords ==
  ASSUME NEW a, usage'[a] = usage[a]
  PROVE  Charged(a)' = Charged(a) /\ SomeUnknown(a)' = SomeUnknown(a)
BY DEF Charged, SomeUnknown

\* The invariant of the attempts that do not act is kept.
LEMMA OthersKeep ==
  ASSUME GenerationTypeOK, NEW a \in Attempts, NEW b \in Attempts, b # a,
         AttemptInv(b), OthersKept(a), RowKept(a)
  PROVE  AttemptInv(b)'
<1> USE DEF OthersKept
<1>1. UnclaimedOf(b)'
  BY DEF AttemptInv, UnclaimedOf, RowKept, GenerationTypeOK, JobRow, Attempts
<1>2. CallsOf(b)'
  BY DEF AttemptInv, CallsOf, InFlight
<1>3. EntriesOf(b)'
  BY DEF AttemptInv, EntriesOf, Platform
<1>4. SummaryOf(b)'
  BY SumsOfRecords DEF AttemptInv, SummaryOf
<1>5. RecordsOf(b)'
  BY DEF AttemptInv, RecordsOf, RecordOf, Unique, Dispatched, UncertainCalls
<1>6. ReturnedOf(b)'
  BY DEF AttemptInv, ReturnedOf, Platform, Own, RowKept
<1> QED BY <1>1, <1>2, <1>3, <1>4, <1>5, <1>6 DEF AttemptInv

\* Results stay true of the runs that ended before the step.
LEMMA ResultsKept ==
  ASSUME GenerationTypeOK, ResultsAreOwn, NEW a \in Attempts, OthersKept(a),
         run[a].pc # "ended", UNCHANGED results
  PROVE  ResultsAreOwn'
<1> SUFFICES ASSUME NEW i \in DOMAIN results
             PROVE  /\ run'[results[i].attempt].pc = "ended"
                    /\ results[i].status = "COMPLETED" /\ run'[results[i].attempt].selection # "CUSTOM" =>
                          results[i].budget = Own(results[i].attempt)'
  BY DEF ResultsAreOwn, Platform, Own
<1>1. PICK b \in Attempts : results[i].attempt = b
  <2>1. results[i] \in ResultRow
    BY DEF GenerationTypeOK
  <2> QED BY <2>1 DEF ResultRow
<1>2. run[b].pc = "ended"
  BY <1>1 DEF ResultsAreOwn
<1>3. run'[b] = run[b] /\ ledger'[b] = ledger[b]
  BY <1>2 DEF OthersKept
<1> QED BY <1>1, <1>2, <1>3 DEF ResultsAreOwn, Own, Platform

\* The wallet's account is of the wallet and the ledger only.
LEMMA WalletKept ==
  ASSUME WalletMatchesLedger, UNCHANGED <<wallet, ledger>>
  PROVE  WalletMatchesLedger'
BY DEF WalletMatchesLedger

(***************************************************************************)
(* Moves of a run from one stage to another                                *)
(***************************************************************************)

\* Only the stage changes, and whether and how an error was met.
Moved(a, q) ==
    /\ run' \in [Attempts -> RunState]
    /\ \A b \in Attempts : b # a => run'[b] = run[b]
    /\ run'[a].pc = q
    /\ run'[a].selection = run[a].selection
    /\ run'[a].chunk = run[a].chunk /\ run'[a].answer = run[a].answer
    /\ run'[a].called = run[a].called
    /\ run'[a].known = run[a].known /\ (run'[a].uncertain <=> run[a].uncertain)
    /\ run[a].hurt => run'[a].hurt

\* What the type of the runs says of one of them.
LEMMA RunFields ==
  ASSUME GenerationTypeOK, NEW a \in Attempts
  PROVE  /\ run \in [Attempts -> RunState]
         /\ run[a] \in RunState /\ run[a].pc \in RunStage /\ run[a].selection \in Selections
         /\ run[a].chunk \in [Chunks -> ChunkStep] /\ run[a].answer \in [Chunks -> Answers]
         /\ run[a].called \subseteq Chunks /\ run[a].error \in Errors /\ run[a].known \in Nat
         /\ run[a].uncertain \in BOOLEAN /\ run[a].hurt \in BOOLEAN /\ run[a].caught \in BOOLEAN
         /\ DOMAIN run[a] = {"pc", "selection", "chunk", "answer", "called", "caught", "error",
                             "known", "uncertain", "hurt"}
<1>1. run \in [Attempts -> RunState] /\ run[a] \in RunState
  BY DEF GenerationTypeOK
<1> QED BY <1>1 DEF RunState

\* Goto moves a run and keeps its error.
LEMMA GotoMoves ==
  ASSUME GenerationTypeOK, NEW a \in Attempts, NEW q \in RunStage, Goto(a, q)
  PROVE  Moved(a, q) /\ run'[a].error = run[a].error /\ (run'[a].hurt <=> run[a].hurt)
<1>1. run \in [Attempts -> RunState] /\ run[a] \in RunState
  BY RunFields
<1>2. run' = [run EXCEPT ![a].pc = q]
  BY DEF Goto
<1>3. run'[a] = [run[a] EXCEPT !.pc = q] /\ [run[a] EXCEPT !.pc = q] \in RunState
  BY <1>1, <1>2 DEF RunState
<1>4. run' \in [Attempts -> RunState] /\ \A b \in Attempts : b # a => run'[b] = run[b]
  BY <1>1, <1>2, <1>3
<1> QED BY <1>1, <1>3, <1>4 DEF Moved, RunState

\* Throw moves it to its end.
LEMMA ThrowMoves ==
  ASSUME GenerationTypeOK, NEW a \in Attempts, NEW e \in Errors, Throw(a, e)
  PROVE  Moved(a, "thrown") /\ (run'[a].hurt <=> run[a].hurt)
<1>1. run \in [Attempts -> RunState] /\ run[a] \in RunState
  BY RunFields
<1> DEFINE next == [run[a] EXCEPT !.pc = "thrown", !.error = e]
<1>2. run' = [run EXCEPT ![a] = next]
  BY <1>1 DEF Throw
<1>3. next \in RunState
  BY <1>1 DEF RunState, RunStage
<1>4. run' \in [Attempts -> RunState] /\ run'[a] = next
      /\ \A b \in Attempts : b # a => run'[b] = run[b]
  BY <1>1, <1>2, <1>3
<1> QED BY <1>1, <1>4 DEF Moved, RunState

\* Catch moves it to its summary, or to its end when the attempt is stale.
LEMMA CatchMoves ==
  ASSUME GenerationTypeOK, NEW a \in Attempts, NEW e \in Errors, Catch(a, e)
  PROVE  /\ Moved(a, IF e = "Stale" THEN "thrown" ELSE "summarizing")
         /\ (run'[a].hurt <=> run[a].hurt)
<1>1. run \in [Attempts -> RunState] /\ run[a] \in RunState
  BY RunFields
<1> DEFINE q == IF e = "Stale" THEN "thrown" ELSE "summarizing"
           next == [run[a] EXCEPT !.pc = q, !.caught = TRUE, !.error = e]
<1>2. run' = [run EXCEPT ![a] = next]
  BY <1>1 DEF Catch
<1>3. next \in RunState
  BY <1>1 DEF RunState, RunStage
<1>4. run' \in [Attempts -> RunState] /\ run'[a] = next
      /\ \A b \in Attempts : b # a => run'[b] = run[b]
  BY <1>1, <1>2, <1>3
<1> QED BY <1>1, <1>4 DEF Moved, RunState

\* An error outside the try block ends the run and leaves its settlement undone.
LEMMA HurtMoves ==
  ASSUME GenerationTypeOK, NEW a \in Attempts, NEW e \in Errors,
         run' = [run EXCEPT ![a].pc = "thrown", ![a].error = e, ![a].hurt = TRUE]
  PROVE  Moved(a, "thrown") /\ run'[a].hurt
<1>1. run \in [Attempts -> RunState] /\ run[a] \in RunState
  BY RunFields
<1> DEFINE next == [run[a] EXCEPT !.pc = "thrown", !.error = e, !.hurt = TRUE]
<1>2. run' = [run EXCEPT ![a] = next]
  BY <1>1
<1>3. next \in RunState
  BY <1>1 DEF RunState, RunStage
<1>4. run' \in [Attempts -> RunState] /\ run'[a] = next
      /\ \A b \in Attempts : b # a => run'[b] = run[b]
  BY <1>1, <1>2, <1>3
<1> QED BY <1>1, <1>4 DEF Moved, RunState

\* A move that leaves the store alone keeps the attempt's invariant, when no call
\* is under way at a stage that has none and what ends is settled or was hurt.
LEMMA QuietMove ==
  ASSUME GenerationTypeOK, NEW a \in Attempts, AttemptInv(a), NEW q \in RunStage, Moved(a, q),
         UNCHANGED <<ledger, usage, text>>, job'.attempts = job.attempts,
         run[a].pc # "none",
         q \in {"persisting", "summarizing", "thrown", "ended", "crashed"},
         q # "crashed" => run[a].pc # "crashed" /\ InFlight(a) = {},
         ledger[a].settled => q \in Settling,
         q \in {"thrown", "ended"} /\ ~ run'[a].hurt /\ ledger[a].reserved => ledger[a].settled
  PROVE  AttemptInv(a)'
<1>1. UnclaimedOf(a)'
  BY DEF AttemptInv, UnclaimedOf, Moved
<1>2. CallsOf(a)'
  BY DEF AttemptInv, CallsOf, InFlight, Moved, Early, Before
<1>3. EntriesOf(a)'
  BY DEF AttemptInv, EntriesOf, Moved, Platform, Before
<1>4. SummaryOf(a)'
  BY SumsOfRecords DEF AttemptInv, SummaryOf, Moved
<1>5. RecordsOf(a)'
  BY DEF AttemptInv, RecordsOf, RecordOf, Unique, Dispatched, UncertainCalls, Moved
<1>6. ReturnedOf(a)'
  BY DEF ReturnedOf, Moved
<1> QED BY <1>1, <1>2, <1>3, <1>4, <1>5, <1>6 DEF AttemptInv

\* A move before the pool keeps it too; credits are reserved by the last of them.
LEMMA EarlyMove ==
  ASSUME GenerationTypeOK, NEW a \in Attempts, AttemptInv(a), run' \in [Attempts -> RunState],
         run[a].pc \in Before, NEW q \in {"claimed", "resolving", "reserving", "prompting"},
         run'[a].pc = q, run'[a].chunk = run[a].chunk, run'[a].called = run[a].called,
         run'[a].error = run[a].error,
         UNCHANGED <<usage, text>>, job'.attempts \in Nat, job'.attempts >= job.attempts,
         a <= job'.attempts,
         \/ ledger' = ledger
         \/ /\ q = "prompting" /\ run'[a].selection # "CUSTOM"
            /\ ~ ledger'[a].settled /\ ledger'[a].settle = 0 /\ ledger'[a].release = 0
            /\ ledger'[a].hold = 0
  PROVE  AttemptInv(a)'
<1>1. UnclaimedOf(a)'
  BY DEF UnclaimedOf, GenerationTypeOK, JobRow, Attempts
<1>2. CallsOf(a)'
  BY DEF AttemptInv, CallsOf, InFlight, Early, Before
<1>3. EntriesOf(a)'
  BY DEF AttemptInv, EntriesOf, Platform, Before, Settling, NoEntries
<1>4. SummaryOf(a)'
  BY DEF AttemptInv, SummaryOf, EntriesOf, NoEntries
<1>5. RecordsOf(a)'
  <2> SUFFICES ASSUME NEW c \in Chunks
               PROVE  /\ c \notin run'[a].called /\ usage[a][text[c]] = NoRecord
                      /\ run'[a].chunk[c] = "todo"
    BY DEF RecordsOf, RecordOf, UncertainCalls
  <2> QED BY DEF AttemptInv, CallsOf, Early, GenerationTypeOK
<1>6. ReturnedOf(a)'
  BY DEF ReturnedOf
<1> QED BY <1>1, <1>2, <1>3, <1>4, <1>5, <1>6 DEF AttemptInv

(***************************************************************************)
(* Entries of the ledger and the wallet                                    *)
(***************************************************************************)

\* What Max({0, x}) is.
LEMMA MaxWithZero ==
  ASSUME NEW x \in Int
  PROVE  Max({0, x}) = IF x >= 0 THEN x ELSE 0
<1> DEFINE Upper(m) == m \in {0, x} /\ \A y \in {0, x} : m >= y
           m == IF x >= 0 THEN x ELSE 0
<1>1. Upper(m)
  OBVIOUS
<1>2. \A n : Upper(n) => n = m
  OBVIOUS
<1>3. Max({0, x}) = CHOOSE n : Upper(n)
  BY DEF Max
<1> HIDE DEF Upper, m
<1>4. Max({0, x}) = m
  BY <1>1, <1>2, <1>3
<1> QED BY <1>4 DEF m

\* The ledger's entries are numbers.
LEMMA EntryFields ==
  ASSUME GenerationTypeOK, NEW a \in Attempts
  PROVE  /\ ledger \in [Attempts -> Entries] /\ ledger[a] \in Entries
         /\ ledger[a].reserved \in BOOLEAN /\ ledger[a].settled \in BOOLEAN
         /\ ledger[a].reserve \in Nat /\ ledger[a].settle \in Nat
         /\ ledger[a].release \in Nat /\ ledger[a].hold \in Nat
         /\ wallet.available \in Int /\ wallet.reserved \in Nat
<1>1. ledger \in [Attempts -> Entries] /\ ledger[a] \in Entries
      /\ wallet \in [available: Int, reserved: Nat]
  BY DEF GenerationTypeOK
<1> QED BY <1>1 DEF Entries

\* A settlement, entry by entry: the first one counts.
LEMMA SettleEntries ==
  ASSUME GenerationTypeOK, NEW a \in Attempts, NEW known \in Nat, NEW uncertain \in BOOLEAN,
         Settle(a, known, uncertain)
  PROVE  \/ ledger[a].settled /\ UNCHANGED <<wallet, ledger>>
         \/ /\ ~ ledger[a].settled
            /\ ledger' \in [Attempts -> Entries]
            /\ \A b \in Attempts : b # a => ledger'[b] = ledger[b]
            /\ ledger'[a].settled /\ ledger'[a].settle = known
            /\ (ledger'[a].reserved <=> ledger[a].reserved)
            /\ ledger'[a].reserve = ledger[a].reserve
            /\ uncertain => ledger'[a].release = 0
            /\ wallet'.reserved = wallet.reserved - ledger[a].reserve
            /\ wallet'.available =
                 wallet.available + ledger[a].reserve - known - ledger'[a].hold
            /\ wallet' = [available |-> wallet'.available, reserved |-> wallet'.reserved]
<1> DEFINE reserved == ledger[a].reserve
           rest == Max({0, reserved - known})
           over == Max({0, known - reserved})
           released == IF uncertain THEN 0 ELSE rest
           next == [ledger[a] EXCEPT !.settled = TRUE, !.settle = known,
                                     !.release = released, !.hold = rest - released]
<1>1. /\ reserved \in Nat /\ wallet.available \in Int /\ wallet.reserved \in Nat
      /\ ledger \in [Attempts -> Entries] /\ ledger[a] \in Entries
  BY EntryFields
<1>2. rest = (IF reserved - known >= 0 THEN reserved - known ELSE 0)
      /\ over = (IF known - reserved >= 0 THEN known - reserved ELSE 0)
  BY <1>1, MaxWithZero
<1>3. rest \in Nat /\ over \in Nat /\ rest - over = reserved - known
  BY <1>1, <1>2
<1>4. CASE ledger[a].settled
  BY <1>4 DEF Settle
<1>5. CASE ~ ledger[a].settled
  <2>1. /\ ledger' = [ledger EXCEPT ![a].settled = TRUE, ![a].settle = known,
                                    ![a].release = released, ![a].hold = rest - released]
        /\ wallet' = [available |-> wallet.available + released - over,
                      reserved |-> wallet.reserved - reserved]
    BY <1>5, Zenon DEF Settle
  <2> HIDE DEF rest, over
  <2>2. released \in Nat /\ rest - released \in Nat
    BY <1>3
  <2>3. next \in Entries
    BY <1>1, <2>2 DEF Entries
  <2>4. ledger' = [ledger EXCEPT ![a] = next]
    BY <1>1, <2>1
  <2>5. ledger' \in [Attempts -> Entries] /\ ledger'[a] = next
        /\ \A b \in Attempts : b # a => ledger'[b] = ledger[b]
    BY <1>1, <2>3, <2>4
  <2>6. /\ next.settled /\ next.settle = known /\ next.release = released
        /\ next.hold = rest - released
        /\ (next.reserved <=> ledger[a].reserved) /\ next.reserve = ledger[a].reserve
    BY <1>1 DEF Entries
  <2>7. /\ wallet'.available = wallet.available + released - over
        /\ wallet'.reserved = wallet.reserved - reserved
        /\ wallet' = [available |-> wallet'.available, reserved |-> wallet'.reserved]
    BY <2>1
  <2>8. wallet'.available = wallet.available + reserved - known - (rest - released)
    BY <1>1, <1>3, <2>2, <2>7
  <2> HIDE DEF next, released
  <2>9. uncertain => released = 0
    BY DEF released
  <2> QED BY <1>5, <2>5, <2>6, <2>7, <2>8, <2>9
<1> QED BY <1>4, <1>5

\* The three sums of the account.
OpenCredits(a) == IF ledger[a].settled THEN 0 ELSE ledger[a].reserve

\* The attempts of a job are finitely many: the sums over them are defined.
LEMMA AttemptsAreFinite == IsFiniteSet(Attempts)
  BY FS_Interval, GenerationAssumption DEF Attempts

\* The account stays true when one attempt's entries change and the wallet with
\* them.
LEMMA WalletMoves ==
  ASSUME GenerationTypeOK, WalletMatchesLedger, NEW a \in Attempts,
         ledger' \in [Attempts -> Entries],
         \A b \in Attempts : b # a => ledger'[b] = ledger[b],
         wallet'.reserved = wallet.reserved - OpenCredits(a) + OpenCredits(a)',
         wallet'.available \in Int,
         wallet'.available + wallet'.reserved + ledger'[a].settle + ledger'[a].hold =
            wallet.available + wallet.reserved + ledger[a].settle + ledger[a].hold
  PROVE  WalletMatchesLedger' /\ wallet'.reserved \in Nat
<1> DEFINE open1 == [b \in Attempts |-> IF ledger[b].settled THEN 0 ELSE ledger[b].reserve]
           open2 == [b \in Attempts |-> IF ledger'[b].settled THEN 0 ELSE ledger'[b].reserve]
           settle1 == [b \in Attempts |-> ledger[b].settle]
           settle2 == [b \in Attempts |-> ledger'[b].settle]
           hold1 == [b \in Attempts |-> ledger[b].hold]
           hold2 == [b \in Attempts |-> ledger'[b].hold]
<1>1. \A b \in Attempts : /\ ledger[b] \in Entries /\ ledger'[b] \in Entries
                          /\ ledger[b].settle \in Nat /\ ledger'[b].settle \in Nat
                          /\ ledger[b].hold \in Nat /\ ledger'[b].hold \in Nat
                          /\ ledger[b].reserve \in Nat /\ ledger'[b].reserve \in Nat
  BY DEF GenerationTypeOK, Entries
<1>2. /\ open1 \in [Attempts -> Int] /\ open2 \in [Attempts -> Int]
      /\ settle1 \in [Attempts -> Int] /\ settle2 \in [Attempts -> Int]
      /\ hold1 \in [Attempts -> Int] /\ hold2 \in [Attempts -> Int]
  BY <1>1
<1>3. \A b \in Attempts \ {a} : open2[b] = open1[b] /\ settle2[b] = settle1[b] /\ hold2[b] = hold1[b]
  OBVIOUS
<1>4. \A b \in Attempts : open2[b] \in Nat
  BY <1>1
<1>5. /\ open1[a] = OpenCredits(a) /\ open2[a] = OpenCredits(a)'
      /\ settle1[a] = ledger[a].settle /\ settle2[a] = ledger'[a].settle
      /\ hold1[a] = ledger[a].hold /\ hold2[a] = ledger'[a].hold
      /\ open1[a] \in Int /\ open2[a] \in Int /\ settle1[a] \in Int /\ settle2[a] \in Int
      /\ hold1[a] \in Int /\ hold2[a] \in Int
  BY <1>1 DEF OpenCredits
<1>6. /\ wallet.reserved = SumFunction(open1)
      /\ wallet.available + wallet.reserved + SumFunction(settle1) + SumFunction(hold1) = Grant
  BY DEF WalletMatchesLedger, Total
<1> HIDE DEF open1, open2, settle1, settle2, hold1, hold2
<1>7. /\ SumFunction(open1) \in Int /\ SumFunction(open2) \in Nat
      /\ SumFunction(settle1) \in Int /\ SumFunction(hold1) \in Int
      /\ SumFunction(settle2) \in Int /\ SumFunction(hold2) \in Int
  BY <1>2, <1>4, SumType, AttemptsAreFinite
<1>8. SumFunction(open2) = SumFunction(open1) - open1[a] + open2[a]
  BY <1>2, <1>3, SumUpdate, AttemptsAreFinite
<1>9. SumFunction(settle2) = SumFunction(settle1) - settle1[a] + settle2[a]
  BY <1>2, <1>3, SumUpdate, AttemptsAreFinite
<1>10. SumFunction(hold2) = SumFunction(hold1) - hold1[a] + hold2[a]
  BY <1>2, <1>3, SumUpdate, AttemptsAreFinite
<1>11. wallet'.reserved = SumFunction(open2)
  BY <1>5, <1>6, <1>8
<1>12. wallet.available \in Int /\ wallet.reserved \in Int
  BY EntryFields
<1>13. wallet'.available + wallet'.reserved + SumFunction(settle2) + SumFunction(hold2) = Grant
  BY <1>5, <1>6, <1>7, <1>9, <1>10, <1>11, <1>12, GenerationAssumption
<1>14. WalletMatchesLedger'
  BY <1>11, <1>13 DEF WalletMatchesLedger, Total, open2, settle2, hold2
<1> QED BY <1>7, <1>11, <1>14

\* A settlement keeps the account, ...
LEMMA SettleKeepsAccount ==
  ASSUME GenerationTypeOK, WalletMatchesLedger, NEW a \in Attempts, EntriesOf(a),
         NEW known \in Nat, NEW uncertain \in BOOLEAN, Settle(a, known, uncertain)
  PROVE  /\ WalletMatchesLedger'
         /\ ledger' \in [Attempts -> Entries] /\ wallet' \in [available: Int, reserved: Nat]
<1>1. CASE ledger[a].settled /\ UNCHANGED <<wallet, ledger>>
  BY <1>1, WalletKept DEF GenerationTypeOK
<1>2. CASE ~ ledger[a].settled /\ ~ UNCHANGED <<wallet, ledger>>
  <2>1. /\ ledger' \in [Attempts -> Entries]
        /\ \A b \in Attempts : b # a => ledger'[b] = ledger[b]
        /\ ledger'[a].settled /\ ledger'[a].settle = known
        /\ wallet'.reserved = wallet.reserved - ledger[a].reserve
        /\ wallet'.available = wallet.available + ledger[a].reserve - known - ledger'[a].hold
        /\ wallet' = [available |-> wallet'.available, reserved |-> wallet'.reserved]
    BY <1>2, SettleEntries
  <2>2. ledger[a].settle = 0 /\ ledger[a].hold = 0
    BY <1>2 DEF EntriesOf
  <2>3. /\ ledger[a].reserve \in Nat /\ wallet.available \in Int /\ wallet.reserved \in Nat
        /\ ledger'[a].hold \in Nat
    BY <2>1, EntryFields DEF Entries
  <2>4. OpenCredits(a) = ledger[a].reserve /\ OpenCredits(a)' = 0
    BY <1>2, <2>1 DEF OpenCredits
  <2>5. wallet'.reserved = wallet.reserved - OpenCredits(a) + OpenCredits(a)'
        /\ wallet'.available \in Int
    BY <2>1, <2>3, <2>4
  <2>6. wallet'.available + wallet'.reserved + ledger'[a].settle + ledger'[a].hold =
          wallet.available + wallet.reserved + ledger[a].settle + ledger[a].hold
    BY <2>1, <2>2, <2>3
  <2>7. WalletMatchesLedger' /\ wallet'.reserved \in Nat
    BY <2>1, <2>5, <2>6, WalletMoves
  <2> QED BY <2>1, <2>5, <2>7
<1> QED BY <1>1, <1>2, SettleEntries

\* ... and so does a reservation.
LEMMA ReserveKeepsAccount ==
  ASSUME GenerationTypeOK, WalletMatchesLedger, NEW a \in Attempts, ledger[a] = NoEntries,
         Reserve(a)
  PROVE  /\ WalletMatchesLedger'
         /\ ledger' \in [Attempts -> Entries] /\ wallet' \in [available: Int, reserved: Nat]
         /\ \A b \in Attempts : b # a => ledger'[b] = ledger[b]
         /\ ledger'[a].reserved /\ ~ ledger'[a].settled /\ ledger'[a].settle = 0
         /\ ledger'[a].release = 0 /\ ledger'[a].hold = 0
<1>1. PICK estimate \in Nat : estimate = Estimate
  <2>0. IsFiniteSet(Chunks)
    BY FS_Interval, GenerationAssumption DEF Chunks
  <2>1. Cardinality(Chunks) \in Nat
    BY <2>0, FS_CardinalityType
  <2> QED BY <2>1, GenerationAssumption DEF Estimate
<1>2. /\ wallet' = [available |-> wallet.available - estimate,
                    reserved |-> wallet.reserved + estimate]
      /\ ledger' = [ledger EXCEPT ![a].reserved = TRUE, ![a].reserve = estimate]
  BY <1>1 DEF Reserve
<1> DEFINE next == [NoEntries EXCEPT !.reserved = TRUE, !.reserve = estimate]
<1>3. ledger \in [Attempts -> Entries] /\ wallet.available \in Int /\ wallet.reserved \in Nat
  BY EntryFields
<1>4. next \in Entries
  BY DEF NoEntries, Entries
<1>5. ledger' = [ledger EXCEPT ![a] = next]
  BY <1>2, <1>3
<1>6. ledger' \in [Attempts -> Entries] /\ ledger'[a] = next
      /\ \A b \in Attempts : b # a => ledger'[b] = ledger[b]
  BY <1>3, <1>4, <1>5
<1>7. /\ ledger'[a].reserved /\ ~ ledger'[a].settled /\ ledger'[a].settle = 0
      /\ ledger'[a].release = 0 /\ ledger'[a].hold = 0 /\ ledger'[a].reserve = estimate
  BY <1>6 DEF NoEntries
<1>8. /\ ~ ledger[a].settled /\ ledger[a].settle = 0 /\ ledger[a].hold = 0
      /\ ledger[a].reserve = 0
  BY DEF NoEntries
<1>9. OpenCredits(a) = 0 /\ OpenCredits(a)' = estimate
  BY <1>7, <1>8 DEF OpenCredits
<1>10. wallet'.reserved = wallet.reserved + estimate /\ wallet'.available = wallet.available - estimate
  BY <1>2
<1>11. /\ wallet'.reserved = wallet.reserved - OpenCredits(a) + OpenCredits(a)'
       /\ wallet'.available \in Int
       /\ wallet'.available + wallet'.reserved + ledger'[a].settle + ledger'[a].hold =
            wallet.available + wallet.reserved + ledger[a].settle + ledger[a].hold
  BY <1>3, <1>7, <1>8, <1>9, <1>10
<1>12. WalletMatchesLedger' /\ wallet'.reserved \in Nat
  BY <1>6, <1>11, WalletMoves
<1> QED BY <1>2, <1>3, <1>6, <1>7, <1>12

\* Types of the tables a step leaves alone.
LEMMA TypesKept ==
  ASSUME GenerationTypeOK, run' \in [Attempts -> RunState], UNCHANGED setting,
         job' \in JobRow, wallet' \in [available: Int, reserved: Nat],
         ledger' \in [Attempts -> Entries], usage' \in [Attempts -> [Keys -> Records]],
         cache' \subseteq Keys, quiz' \in 0..MaxAttempts, results' \in Seq(ResultRow),
         mishaps' \in Nat
  PROVE  GenerationTypeOK'
BY DEF GenerationTypeOK, setting

\* A step of one attempt that keeps its own invariant keeps the whole.
LEMMA InvSuffices ==
  ASSUME GenerationInv, NEW a \in Attempts, GenerationTypeOK', OthersKept(a), RowKept(a),
         AttemptInv(a)', ResultsAreOwn', WalletMatchesLedger'
  PROVE  GenerationInv'
<1>1. \A b \in Attempts : b # a => AttemptInv(b)'
  BY OthersKeep DEF GenerationInv
<1> QED BY <1>1 DEF GenerationInv

\* A move of a run that leaves the store alone, all in all.
LEMMA MoveKeeps ==
  ASSUME GenerationInv, NEW a \in Attempts, NEW q \in RunStage, Moved(a, q),
         UNCHANGED <<job, setting, wallet, ledger, usage, cache, results>>,
         quiz' \in 0..MaxAttempts, mishaps' \in Nat,
         run[a].pc \notin {"none", "ended"},
         q \in {"persisting", "summarizing", "thrown", "ended", "crashed"},
         q # "crashed" => run[a].pc # "crashed" /\ InFlight(a) = {},
         ledger[a].settled => q \in Settling,
         q \in {"thrown", "ended"} /\ ~ run'[a].hurt /\ ledger[a].reserved => ledger[a].settled
  PROVE  GenerationInv'
<1>1. GenerationTypeOK /\ AttemptInv(a) /\ ResultsAreOwn /\ WalletMatchesLedger
  BY DEF GenerationInv
<1>2. GenerationTypeOK'
  BY <1>1, TypesKept DEF Moved, GenerationTypeOK
<1>3. OthersKept(a) /\ RowKept(a)
  BY <1>1 DEF OthersKept, RowKept, Moved, setting, GenerationTypeOK, JobRow
<1>4. AttemptInv(a)'
  BY <1>1, QuietMove DEF setting
<1>5. ResultsAreOwn'
  BY <1>1, <1>3, ResultsKept
<1>6. WalletMatchesLedger'
  BY <1>1, WalletKept
<1> QED BY <1>2, <1>3, <1>4, <1>5, <1>6, InvSuffices

(***************************************************************************)
(* Claim, extraction, model, reservation                                   *)
(***************************************************************************)

\* A step before the pool that moves a run to the next stage keeps everything.
LEMMA EarlyKeeps ==
  ASSUME GenerationInv, NEW a \in Attempts, run' \in [Attempts -> RunState],
         \A b \in Attempts : b # a => run'[b] = run[b],
         run[a].pc \in Before, NEW q \in {"claimed", "resolving", "reserving", "prompting"},
         run'[a].pc = q, run'[a].chunk = run[a].chunk, run'[a].called = run[a].called,
         run'[a].error = run[a].error,
         job' \in JobRow, RowKept(a), a <= job'.attempts,
         UNCHANGED <<setting, wallet, ledger, usage, cache, quiz, results, mishaps>>
  PROVE  GenerationInv'
<1>1. GenerationTypeOK /\ AttemptInv(a) /\ ResultsAreOwn /\ WalletMatchesLedger
  BY DEF GenerationInv
<1>2. GenerationTypeOK'
  BY <1>1, TypesKept DEF GenerationTypeOK
<1>3. OthersKept(a)
  BY DEF OthersKept, setting
<1>4. AttemptInv(a)'
  BY <1>1, EarlyMove DEF setting, RowKept
<1>5. ResultsAreOwn'
  BY <1>1, <1>3, ResultsKept DEF Before
<1>6. WalletMatchesLedger'
  BY <1>1, WalletKept
<1> QED BY <1>2, <1>3, <1>4, <1>5, <1>6, InvSuffices

\* What is known of an attempt that has been claimed.
LEMMA Claimed ==
  ASSUME GenerationInv, NEW a \in Attempts, run[a].pc # "none"
  PROVE  /\ GenerationTypeOK /\ AttemptInv(a) /\ job \in JobRow
         /\ job.attempts \in Nat /\ a <= job.attempts
         /\ UNCHANGED job => RowKept(a)
<1>1. GenerationTypeOK /\ UnclaimedOf(a) /\ AttemptInv(a)
  BY DEF GenerationInv, AttemptInv
<1>2. job \in JobRow /\ job.attempts \in Nat
  BY <1>1 DEF GenerationTypeOK, JobRow
<1> QED BY <1>1, <1>2 DEF UnclaimedOf, Attempts, RowKept

\* claimPending: a new attempt starts with no usage, no entry and no budget of its own.
LEMMA ClaimKeeps ==
  ASSUME GenerationInv, NEW a \in Attempts, ClaimPending(a)
  PROVE  GenerationInv'
<1>1. GenerationTypeOK /\ AttemptInv(a) /\ job \in JobRow /\ job.attempts \in Nat
  BY DEF GenerationInv, GenerationTypeOK, JobRow
<1>2. run \in [Attempts -> RunState] /\ run[a] \in RunState
  BY <1>1, RunFields
<1>3. a = job.attempts + 1 /\ run[a].pc = "none"
  BY <1>1 DEF ClaimPending, AttemptInv, UnclaimedOf, Attempts
<1>4. job' = [job EXCEPT !.status = "RUNNING", !.attempts = a, !.live = TRUE]
  BY DEF ClaimPending
<1>5. job' \in JobRow /\ job'.attempts = a /\ job'.budget = job.budget
  <2>1. a \in 0..MaxAttempts
    BY GenerationAssumption DEF Attempts
  <2> QED BY <1>1, <1>4, <2>1 DEF JobRow
<1>6. RowKept(a)
  BY <1>1, <1>3, <1>5 DEF RowKept, Attempts
<1> DEFINE next == [run[a] EXCEPT !.pc = "claimed", !.selection = job.selection]
<1>7. next \in RunState
  BY <1>1, <1>2 DEF JobRow, RunState, RunStage
<1>8. run' = [run EXCEPT ![a] = next]
  BY <1>2 DEF ClaimPending
<1>9. run' \in [Attempts -> RunState] /\ run'[a] = next
      /\ \A b \in Attempts : b # a => run'[b] = run[b]
  BY <1>2, <1>7, <1>8
<1>10. /\ run'[a].pc = "claimed" /\ run'[a].chunk = run[a].chunk /\ run'[a].called = run[a].called
       /\ run'[a].error = run[a].error
  BY <1>2, <1>9 DEF RunState
<1>11. UNCHANGED <<setting, wallet, ledger, usage, cache, quiz, results, mishaps>>
  BY DEF ClaimPending
<1>12. run[a].pc \in Before /\ a <= job'.attempts
  BY <1>3, <1>5 DEF Before, Attempts
<1> QED BY <1>5, <1>6, <1>9, <1>10, <1>11, <1>12, EarlyKeeps

\* A run that throws before its reservation has nothing to settle.
LEMMA EarlyThrow ==
  ASSUME GenerationInv, NEW a \in Attempts, run[a].pc \in Before \ {"none"}, NEW e \in Errors,
         Throw(a, e),
         UNCHANGED <<job, setting, wallet, ledger, usage, cache, quiz, results, mishaps>>
  PROVE  GenerationInv'
<1>1. GenerationTypeOK /\ AttemptInv(a)
  BY DEF GenerationInv
<1>2. Moved(a, "thrown")
  BY <1>1, ThrowMoves
<1>3. InFlight(a) = {} /\ ledger[a] = NoEntries
  BY <1>1 DEF AttemptInv, CallsOf, EntriesOf, Before
<1>4. ~ ledger[a].reserved /\ ~ ledger[a].settled
  BY <1>3 DEF NoEntries
<1>5. quiz' \in 0..MaxAttempts /\ mishaps' \in Nat
  BY <1>1 DEF GenerationTypeOK
<1> QED BY <1>2, <1>3, <1>4, <1>5, MoveKeeps DEF RunStage, Before

\* processClaim: the attempt starts, ends early or goes on to resolve its model.
LEMMA ProcessKeeps ==
  ASSUME GenerationInv, NEW a \in Attempts, Process(a)
  PROVE  GenerationInv'
<1>1. run[a].pc = "claimed"
      /\ UNCHANGED <<job, setting, wallet, ledger, usage, cache, quiz, results, mishaps>>
  BY DEF Process, At
<1>2. CASE Goto(a, "resolving")
  <2>1. Moved(a, "resolving") /\ run'[a].error = run[a].error
    BY <1>2, GotoMoves DEF GenerationInv, RunStage
  <2>2. job' \in JobRow /\ RowKept(a) /\ a <= job'.attempts
    BY <1>1, Claimed
  <2> QED BY <1>1, <2>1, <2>2, EarlyKeeps DEF Moved, Before
<1>3. CASE Throw(a, "Processing")
  BY <1>1, <1>3, EarlyThrow DEF Before, Errors
<1> QED BY <1>2, <1>3 DEF Process

\* Resolving the model and its price opens nothing yet.
LEMMA ResolveKeeps ==
  ASSUME GenerationInv, NEW a \in Attempts, ResolveModel(a)
  PROVE  GenerationInv'
<1>1. run[a].pc = "resolving"
      /\ UNCHANGED <<setting, wallet, ledger, usage, cache, quiz, results, mishaps>>
  BY DEF ResolveModel, At
<1>2. GenerationTypeOK /\ AttemptInv(a) /\ job \in JobRow /\ job.attempts \in Nat
      /\ a <= job.attempts
  BY <1>1, Claimed
<1>3. CASE Goto(a, "reserving") /\ UNCHANGED job
  <2>1. Moved(a, "reserving") /\ run'[a].error = run[a].error
    BY <1>2, <1>3, GotoMoves DEF RunStage
  <2>2. job' \in JobRow /\ RowKept(a) /\ a <= job'.attempts
    BY <1>1, <1>3, Claimed
  <2> QED BY <1>1, <2>1, <2>2, EarlyKeeps DEF Moved, Before
<1>4. CASE Throw(a, "Processing") /\ UNCHANGED job
  BY <1>1, <1>4, EarlyThrow DEF Before, Errors
<1>5. CASE /\ job' = [job EXCEPT !.selection = "PLAN"]
           /\ run' = [run EXCEPT ![a].selection = "PLAN", ![a].pc = "reserving"]
  <2>1. job' \in JobRow /\ job'.attempts = job.attempts /\ job'.budget = job.budget
    BY <1>2, <1>5 DEF JobRow, Selections
  <2> DEFINE next == [run[a] EXCEPT !.selection = "PLAN", !.pc = "reserving"]
  <2>2. run \in [Attempts -> RunState] /\ run[a] \in RunState
    BY <1>2, RunFields
  <2>3. next \in RunState
    BY <2>2 DEF RunState, RunStage, Selections
  <2>4. run' = [run EXCEPT ![a] = next]
    BY <1>5, <2>2
  <2>5. run' \in [Attempts -> RunState] /\ run'[a] = next
        /\ \A b \in Attempts : b # a => run'[b] = run[b]
    BY <2>2, <2>3, <2>4
  <2>6. /\ run'[a].pc = "reserving" /\ run'[a].chunk = run[a].chunk
        /\ run'[a].called = run[a].called /\ run'[a].error = run[a].error
    BY <2>2, <2>5 DEF RunState
  <2>7. RowKept(a) /\ a <= job'.attempts
    BY <1>2, <2>1 DEF RowKept
  <2> QED BY <1>1, <2>1, <2>5, <2>6, <2>7, EarlyKeeps DEF Before
<1> QED BY <1>3, <1>4, <1>5 DEF ResolveModel

\* reserve: the credits move from available to reserved with the attempt's entry.
LEMMA ReserveKeeps ==
  ASSUME GenerationInv, NEW a \in Attempts, ReserveBudget(a)
  PROVE  GenerationInv'
<1>1. run[a].pc = "reserving" /\ UNCHANGED <<job, setting, usage, cache, quiz, results, mishaps>>
  BY DEF ReserveBudget, At
<1>2. GenerationTypeOK /\ AttemptInv(a) /\ job \in JobRow /\ a <= job.attempts /\ RowKept(a)
      /\ job.attempts \in Nat /\ ResultsAreOwn /\ WalletMatchesLedger
  BY <1>1, Claimed DEF GenerationInv
<1>3. CASE Goto(a, "prompting")
  <2>1. Moved(a, "prompting") /\ run'[a].error = run[a].error
    BY <1>2, <1>3, GotoMoves DEF RunStage
  <2>2. CASE UNCHANGED <<wallet, ledger>>
    BY <1>1, <1>2, <2>1, <2>2, EarlyKeeps DEF Moved, Before
  <2>3. CASE Platform(a) /\ Reserve(a)
    <3>1. ledger[a] = NoEntries
      BY <1>1, <1>2 DEF AttemptInv, EntriesOf, Before
    <3>2. /\ WalletMatchesLedger'
          /\ ledger' \in [Attempts -> Entries] /\ wallet' \in [available: Int, reserved: Nat]
          /\ \A b \in Attempts : b # a => ledger'[b] = ledger[b]
          /\ ledger'[a].reserved /\ ~ ledger'[a].settled /\ ledger'[a].settle = 0
          /\ ledger'[a].release = 0 /\ ledger'[a].hold = 0
      BY <1>2, <2>3, <3>1, ReserveKeepsAccount
    <3>3. GenerationTypeOK'
      BY <1>1, <1>2, <2>1, <3>2, TypesKept DEF GenerationTypeOK, Moved
    <3>4. OthersKept(a)
      BY <1>1, <2>1, <3>2 DEF OthersKept, Moved, setting
    <3>5. run'[a].selection # "CUSTOM"
      BY <2>1, <2>3 DEF Moved, Platform
    <3>6. AttemptInv(a)'
      BY <1>1, <1>2, <2>1, <3>2, <3>5, EarlyMove DEF Moved, Before, setting
    <3>7. ResultsAreOwn'
      BY <1>1, <1>2, <3>4, ResultsKept
    <3> QED BY <1>2, <3>2, <3>3, <3>4, <3>6, <3>7, InvSuffices
  <2> QED BY <1>3, <2>2, <2>3 DEF ReserveBudget, Throw, Goto
<1>4. CASE Throw(a, "Budget") /\ UNCHANGED <<wallet, ledger>>
  BY <1>1, <1>4, EarlyThrow DEF Before, Errors
<1>5. Goto(a, "prompting") \/ (Throw(a, "Budget") /\ UNCHANGED <<wallet, ledger>>)
  BY DEF ReserveBudget
<1> QED BY <1>3, <1>4, <1>5

\* The pool starts: as many chunks as it has workers are looked up first.
LEMMA PromptKeeps ==
  ASSUME GenerationInv, NEW a \in Attempts, RecordPromptVersion(a)
  PROVE  GenerationInv'
<1>1. run[a].pc = "prompting"
      /\ UNCHANGED <<job, setting, wallet, ledger, usage, cache, quiz, results, mishaps>>
  BY DEF RecordPromptVersion, At
<1>2. GenerationTypeOK /\ AttemptInv(a) /\ RowKept(a) /\ ResultsAreOwn /\ WalletMatchesLedger
  BY <1>1, Claimed DEF GenerationInv
<1>3. run \in [Attempts -> RunState] /\ run[a] \in RunState
  BY <1>2, RunFields
<1> DEFINE pool == [c \in Chunks |-> IF c <= concurrency THEN "lookup" ELSE "todo"]
           next == [run[a] EXCEPT !.pc = "generating", !.chunk = pool]
<1>4. pool \in [Chunks -> ChunkStep] /\ \A c \in Chunks : pool[c] \in {"lookup", "todo"}
  BY DEF ChunkStep
<1> HIDE DEF pool
<1>5. next \in RunState
  BY <1>3, <1>4 DEF RunState, RunStage
<1>6. run' = [run EXCEPT ![a] = next]
  BY <1>3 DEF RecordPromptVersion, pool
<1>7. run' \in [Attempts -> RunState] /\ run'[a] = next
      /\ \A b \in Attempts : b # a => run'[b] = run[b]
  BY <1>3, <1>5, <1>6
<1>8. /\ run'[a].pc = "generating" /\ run'[a].chunk = pool /\ run'[a].called = run[a].called
      /\ run'[a].error = run[a].error /\ run'[a].selection = run[a].selection
  BY <1>3, <1>7 DEF RunState
<1>9. GenerationTypeOK' /\ OthersKept(a)
  BY <1>1, <1>2, <1>7, TypesKept DEF GenerationTypeOK, OthersKept, setting
<1>10. /\ run[a].called = {} /\ run[a].error = "None" /\ \A k \in Keys : usage[a][k] = NoRecord
       /\ ~ ledger[a].settled
  BY <1>1, <1>2 DEF AttemptInv, CallsOf, EntriesOf, Early, Settling
<1>11. AttemptInv(a)'
  <2>1. UnclaimedOf(a)'
    BY <1>1, <1>2, <1>8 DEF AttemptInv, UnclaimedOf
  <2>2. CallsOf(a)'
    BY <1>8, <1>10 DEF CallsOf, Early, Before
  <2>3. EntriesOf(a)'
    BY <1>1, <1>2, <1>8, <1>10 DEF AttemptInv, EntriesOf, Before, Platform
  <2>4. SummaryOf(a)'
    BY <1>1, <1>8, <1>10 DEF SummaryOf
  <2>5. RecordsOf(a)'
    <3> SUFFICES ASSUME NEW c \in Chunks
                 PROVE  c \notin run'[a].called /\ usage'[a][text'[c]] = NoRecord
                        /\ run'[a].chunk[c] \in {"lookup", "todo"}
      BY DEF RecordsOf, RecordOf, UncertainCalls
    <3>1. text[c] \in Keys /\ text' = text /\ usage' = usage
      BY <1>1, <1>2 DEF GenerationTypeOK, setting
    <3> QED BY <1>4, <1>8, <1>10, <3>1
  <2>6. ReturnedOf(a)'
    BY <1>8 DEF ReturnedOf
  <2> QED BY <2>1, <2>2, <2>3, <2>4, <2>5, <2>6 DEF AttemptInv
<1>12. ResultsAreOwn'
  BY <1>1, <1>2, <1>9, ResultsKept
<1>13. WalletMatchesLedger'
  BY <1>1, <1>2, WalletKept
<1> QED BY <1>2, <1>9, <1>11, <1>12, <1>13, InvSuffices

(***************************************************************************)
(* The calls of the pool                                                   *)
(***************************************************************************)

\* A chunk's call is under way only in the pool.
LEMMA CallsAreInPool ==
  ASSUME GenerationInv, NEW a \in Attempts, NEW c \in Chunks, run[a].pc # "crashed",
         run[a].chunk[c] \notin {"todo", "done", "failed"}
  PROVE  run[a].pc = "generating"
<1>1. c \in InFlight(a)
  BY DEF InFlight
<1> QED BY <1>1 DEF GenerationInv, AttemptInv, CallsOf

\* A step of one call keeps everything when it keeps the records of its attempt.
LEMMA CallKeeps ==
  ASSUME GenerationInv, NEW a \in Attempts, run[a].pc = "generating",
         run' \in [Attempts -> RunState], \A b \in Attempts : b # a => run'[b] = run[b],
         run'[a].pc = "generating", run'[a].selection = run[a].selection,
         run'[a].error \in {"None", "Generation"},
         usage' \in [Attempts -> [Keys -> Records]],
         \A b \in Attempts : b # a => usage'[b] = usage[b],
         cache' \subseteq Keys, mishaps' \in Nat,
         UNCHANGED <<job, setting, wallet, ledger, quiz, results>>,
         RecordsOf(a)'
  PROVE  GenerationInv'
<1>1. GenerationTypeOK /\ AttemptInv(a) /\ RowKept(a) /\ ResultsAreOwn /\ WalletMatchesLedger
  BY Claimed DEF GenerationInv
<1>2. GenerationTypeOK' /\ OthersKept(a)
  BY <1>1, TypesKept DEF GenerationTypeOK, OthersKept, setting
<1>3. ~ ledger[a].settled
  BY <1>1 DEF AttemptInv, EntriesOf, Settling
<1>4. AttemptInv(a)'
  <2>1. UnclaimedOf(a)'
    BY <1>1 DEF AttemptInv, UnclaimedOf
  <2>2. CallsOf(a)'
    BY DEF CallsOf, Early, Before
  <2>3. EntriesOf(a)'
    BY <1>1, <1>3 DEF AttemptInv, EntriesOf, Before, Platform
  <2>4. SummaryOf(a)'
    BY <1>3 DEF SummaryOf
  <2>6. ReturnedOf(a)'
    BY DEF ReturnedOf
  <2> QED BY <2>1, <2>2, <2>3, <2>4, <2>6 DEF AttemptInv
<1>5. ResultsAreOwn'
  BY <1>1, <1>2, ResultsKept
<1>6. WalletMatchesLedger'
  BY <1>1, WalletKept
<1> QED BY <1>1, <1>2, <1>4, <1>5, <1>6, InvSuffices

\* What a step of the call for c leaves alone of the other chunks: at most one of
\* them starts.
CallOf(a, c) ==
    /\ text' = text /\ ledger' = ledger
    /\ \A k \in Keys : k # text[c] => usage'[a][k] = usage[a][k]
    /\ \A d \in Chunks : d # c =>
          /\ run'[a].chunk[d] = run[a].chunk[d]
             \/ (run[a].chunk[d] = "todo" /\ run'[a].chunk[d] = "lookup")
          /\ run'[a].answer[d] = run[a].answer[d]
          /\ d \in run'[a].called <=> d \in run[a].called

\* The records of the other chunks stay as they are.
LEMMA OtherCallsKept ==
  ASSUME GenerationTypeOK, NEW a \in Attempts, NEW c \in Chunks, RecordsOf(a), CallOf(a, c),
         Unique(c) => RecordOf(a, c)'
  PROVE  RecordsOf(a)'
<1> SUFFICES ASSUME NEW d \in Chunks, Unique(d)
             PROVE  RecordOf(a, d)'
  BY DEF RecordsOf, Unique, CallOf
<1>1. CASE d = c
  BY <1>1
<1>2. CASE d # c
  <2>1. text[d] \in Keys /\ text[d] # text[c]
    BY <1>2 DEF Unique, GenerationTypeOK
  <2>2. usage'[a][text'[d]] = usage[a][text[d]]
    BY <2>1 DEF CallOf
  <2>3. RecordOf(a, d)
    BY DEF RecordsOf
  <2> QED BY <1>2, <2>2, <2>3 DEF RecordOf, Dispatched, UncertainCalls, CallOf
<1> QED BY <1>1, <1>2

\* One call's stage changes, by a plain step ...
LEMMA ChunkGotoFields ==
  ASSUME GenerationTypeOK, NEW a \in Attempts, NEW c \in Chunks, NEW step \in ChunkStep,
         ChunkGoto(a, c, step)
  PROVE  /\ run' \in [Attempts -> RunState] /\ \A b \in Attempts : b # a => run'[b] = run[b]
         /\ run'[a].pc = run[a].pc /\ run'[a].selection = run[a].selection
         /\ run'[a].error = run[a].error /\ run'[a].called = run[a].called
         /\ run'[a].answer = run[a].answer
         /\ run'[a].chunk[c] = step
         /\ \A d \in Chunks : d # c => run'[a].chunk[d] = run[a].chunk[d]
<1>1. run \in [Attempts -> RunState] /\ run[a] \in RunState
      /\ run[a].chunk \in [Chunks -> ChunkStep]
  BY RunFields
<1> DEFINE steps == [run[a].chunk EXCEPT ![c] = step]
           next == [run[a] EXCEPT !.chunk = steps]
<1>2. steps \in [Chunks -> ChunkStep] /\ steps[c] = step
      /\ \A d \in Chunks : d # c => steps[d] = run[a].chunk[d]
  BY <1>1
<1>3. run' = [run EXCEPT ![a] = next]
  BY <1>1 DEF ChunkGoto
<1> HIDE DEF steps
<1>4. next \in RunState
  BY <1>1, <1>2 DEF RunState
<1>5. run' \in [Attempts -> RunState] /\ run'[a] = next
      /\ \A b \in Attempts : b # a => run'[b] = run[b]
  BY <1>1, <1>3, <1>4
<1>6. /\ next.chunk = steps /\ next.pc = run[a].pc /\ next.selection = run[a].selection
      /\ next.error = run[a].error /\ next.called = run[a].called /\ next.answer = run[a].answer
  BY <1>1 DEF RunState
<1> QED BY <1>2, <1>5, <1>6

\* ... by a failure, ...
LEMMA FailChunkFields ==
  ASSUME GenerationTypeOK, NEW a \in Attempts, NEW c \in Chunks, FailChunk(a, c)
  PROVE  /\ run' \in [Attempts -> RunState] /\ \A b \in Attempts : b # a => run'[b] = run[b]
         /\ run'[a].pc = run[a].pc /\ run'[a].selection = run[a].selection
         /\ run'[a].error = "Generation" /\ run'[a].called = run[a].called
         /\ run'[a].answer = run[a].answer
         /\ run'[a].chunk[c] = "failed"
         /\ \A d \in Chunks : d # c => run'[a].chunk[d] = run[a].chunk[d]
<1>1. run \in [Attempts -> RunState] /\ run[a] \in RunState
      /\ run[a].chunk \in [Chunks -> ChunkStep]
  BY RunFields
<1> DEFINE steps == [run[a].chunk EXCEPT ![c] = "failed"]
           next == [run[a] EXCEPT !.chunk = steps, !.error = "Generation"]
<1>2. steps \in [Chunks -> ChunkStep] /\ steps[c] = "failed"
      /\ \A d \in Chunks : d # c => steps[d] = run[a].chunk[d]
  BY <1>1 DEF ChunkStep
<1>3. run' = [run EXCEPT ![a] = next]
  BY <1>1 DEF FailChunk
<1> HIDE DEF steps
<1>4. next \in RunState
  BY <1>1, <1>2 DEF RunState, Errors
<1>5. run' \in [Attempts -> RunState] /\ run'[a] = next
      /\ \A b \in Attempts : b # a => run'[b] = run[b]
  BY <1>1, <1>3, <1>4
<1>6. /\ next.chunk = steps /\ next.pc = run[a].pc /\ next.selection = run[a].selection
      /\ next.error = "Generation" /\ next.called = run[a].called /\ next.answer = run[a].answer
  BY <1>1 DEF RunState
<1> QED BY <1>2, <1>5, <1>6

\* ... or by its end, when its worker takes the next chunk.
LEMMA FinishFields ==
  ASSUME GenerationTypeOK, NEW a \in Attempts, NEW c \in Chunks, Finish(a, c)
  PROVE  /\ run' \in [Attempts -> RunState] /\ \A b \in Attempts : b # a => run'[b] = run[b]
         /\ run'[a].pc = run[a].pc /\ run'[a].selection = run[a].selection
         /\ run'[a].error = run[a].error /\ run'[a].called = run[a].called
         /\ run'[a].answer = run[a].answer
         /\ run'[a].chunk[c] = "done"
         /\ \A d \in Chunks : d # c =>
               run'[a].chunk[d] = run[a].chunk[d]
               \/ (run[a].chunk[d] = "todo" /\ run'[a].chunk[d] = "lookup")
<1>1. run \in [Attempts -> RunState] /\ run[a] \in RunState
      /\ run[a].chunk \in [Chunks -> ChunkStep]
  BY RunFields
<1> DEFINE left == {d \in Chunks : run[a].chunk[d] = "todo"}
           steps == [d \in Chunks |->
                       IF d = c THEN "done"
                       ELSE IF run[a].error = "None" /\ left # {} /\ d = Min(left) THEN "lookup"
                       ELSE run[a].chunk[d]]
           next == [run[a] EXCEPT !.chunk = steps]
<1>2. left # {} => Min(left) \in left
  <2> SUFFICES ASSUME left # {} PROVE Min(left) \in left
    OBVIOUS
  <2>1. left \in SUBSET Nat
    BY DEF Chunks
  <2>2. \E n \in left : \A m \in left : n <= m
    BY <2>1, LeastOf
  <2> HIDE DEF left
  <2> QED BY <2>2 DEF Min
<1>3. run' = [run EXCEPT ![a] = next]
  BY <1>1 DEF Finish
<1>4. steps \in [Chunks -> ChunkStep] /\ steps[c] = "done"
  BY <1>1 DEF ChunkStep
<1>5. \A d \in Chunks : d # c =>
         steps[d] = run[a].chunk[d] \/ (run[a].chunk[d] = "todo" /\ steps[d] = "lookup")
  BY <1>2
<1> HIDE DEF steps
<1>6. next \in RunState
  BY <1>1, <1>4 DEF RunState
<1>7. run' \in [Attempts -> RunState] /\ run'[a] = next
      /\ \A b \in Attempts : b # a => run'[b] = run[b]
  BY <1>1, <1>3, <1>6
<1>8. /\ next.chunk = steps /\ next.pc = run[a].pc /\ next.selection = run[a].selection
      /\ next.error = run[a].error /\ next.called = run[a].called /\ next.answer = run[a].answer
  BY <1>1 DEF RunState
<1> QED BY <1>4, <1>5, <1>7, <1>8

\* A record is written for its key only; an available one stays.
LEMMA RecordUsageFields ==
  ASSUME GenerationTypeOK, NEW a \in Attempts, NEW k \in Keys, NEW record \in Records,
         record.status # "NONE", RecordUsage(a, k, record)
  PROVE  /\ usage' \in [Attempts -> [Keys -> Records]]
         /\ \A b \in Attempts : b # a => usage'[b] = usage[b]
         /\ \A j \in Keys : j # k => usage'[a][j] = usage[a][j]
         /\ usage[a][k].status = "NONE" => usage'[a][k] = record
         /\ usage[a][k].status = "UNAVAILABLE" /\ record.status = "UNAVAILABLE" =>
               usage'[a][k] = usage[a][k]
<1>1. usage \in [Attempts -> [Keys -> Records]] /\ usage[a] \in [Keys -> Records]
      /\ usage[a][k] \in Records
  BY DEF GenerationTypeOK
<1> DEFINE old == usage[a][k]
           new == IF old.status = "NONE" THEN record
                  ELSE IF old.status = "UNAVAILABLE" /\ record.status = "AVAILABLE"
                  THEN [record EXCEPT !.cached = old.cached]
                  ELSE old
<1>2. usage' = [usage EXCEPT ![a][k] = new]
  BY DEF RecordUsage
<1>3. new \in Records
  BY <1>1 DEF Records
<1>4. /\ old.status = "NONE" => new = record
      /\ old.status = "UNAVAILABLE" /\ record.status = "UNAVAILABLE" => new = old
  OBVIOUS
<1> HIDE DEF new
<1>5. usage' = [usage EXCEPT ![a] = [usage[a] EXCEPT ![k] = new]]
  BY <1>1, <1>2
<1>6. [usage[a] EXCEPT ![k] = new] \in [Keys -> Records]
  BY <1>1, <1>3
<1>7. /\ usage' \in [Attempts -> [Keys -> Records]]
      /\ \A b \in Attempts : b # a => usage'[b] = usage[b]
      /\ usage'[a] = [usage[a] EXCEPT ![k] = new]
  BY <1>1, <1>5, <1>6
<1>8. /\ \A j \in Keys : j # k => usage'[a][j] = usage[a][j]
      /\ usage'[a][k] = new
  BY <1>1, <1>7
<1> QED BY <1>4, <1>7, <1>8

\* A call that is under way, and the records of its attempt.
LEMMA CallUnderWay ==
  ASSUME GenerationInv, NEW a \in Attempts, NEW c \in Chunks,
         NEW step \in {"lookup", "hit", "miss", "calling", "answered", "decoding"},
         ChunkAt(a, c, step)
  PROVE  /\ GenerationTypeOK /\ run[a].pc = "generating" /\ run[a].chunk[c] = step
         /\ run[a].error \in {"None", "Generation"} /\ RecordsOf(a) /\ text[c] \in Keys
         /\ ~ ledger[a].settled
<1>1. run[a].pc = "generating" /\ run[a].chunk[c] = step
  BY CallsAreInPool DEF ChunkAt, At
<1> QED BY <1>1 DEF GenerationInv, AttemptInv, CallsOf, EntriesOf, Settling, GenerationTypeOK

\* A cache lookup finds its chunk's answer or sends the chunk to the provider.
LEMMA LookupKeeps ==
  ASSUME GenerationInv, NEW a \in Attempts, NEW c \in Chunks, CacheLookup(a, c)
  PROVE  GenerationInv'
<1>1. /\ GenerationTypeOK /\ run[a].pc = "generating" /\ run[a].chunk[c] = "lookup"
      /\ run[a].error \in {"None", "Generation"} /\ RecordsOf(a)
  BY CallUnderWay DEF CacheLookup
<1>2. UNCHANGED <<job, setting, wallet, ledger, usage, cache, quiz, results, mishaps>>
  BY DEF CacheLookup
<1>3. PICK step \in {"hit", "miss"} : ChunkGoto(a, c, step)
  BY DEF CacheLookup
<1>4. /\ run' \in [Attempts -> RunState] /\ \A b \in Attempts : b # a => run'[b] = run[b]
      /\ run'[a].pc = run[a].pc /\ run'[a].selection = run[a].selection
      /\ run'[a].error = run[a].error /\ run'[a].called = run[a].called
      /\ run'[a].answer = run[a].answer /\ run'[a].chunk[c] \in {"hit", "miss"}
      /\ \A d \in Chunks : d # c => run'[a].chunk[d] = run[a].chunk[d]
  BY <1>1, <1>3, ChunkGotoFields DEF ChunkStep
<1>5. CallOf(a, c)
  BY <1>2, <1>4 DEF CallOf, setting
<1>6. Unique(c) => RecordOf(a, c)'
  BY <1>1, <1>2, <1>4 DEF RecordsOf, RecordOf, Dispatched, UncertainCalls, setting
<1>7. RecordsOf(a)'
  BY <1>1, <1>5, <1>6, OtherCallsKept
<1>8. usage' \in [Attempts -> [Keys -> Records]] /\ cache' \subseteq Keys /\ mishaps' \in Nat
  BY <1>1, <1>2 DEF GenerationTypeOK
<1> QED BY <1>1, <1>2, <1>4, <1>7, <1>8, CallKeeps

\* The usage row of a call is written before the call is made.
LEMMA DispatchKeeps ==
  ASSUME GenerationInv, NEW a \in Attempts, NEW c \in Chunks, RecordDispatch(a, c)
  PROVE  GenerationInv'
<1> DEFINE record == [status |-> "UNAVAILABLE", cached |-> FALSE, charged |-> 0]
<1>1. /\ GenerationTypeOK /\ run[a].pc = "generating" /\ run[a].chunk[c] = "miss"
      /\ run[a].error \in {"None", "Generation"} /\ RecordsOf(a) /\ text[c] \in Keys
      /\ ~ ledger[a].settled
  BY CallUnderWay DEF RecordDispatch
<1>2. RecordUsage(a, text[c], record)
      /\ UNCHANGED <<job, setting, wallet, ledger, cache, quiz, results, mishaps>>
  BY DEF RecordDispatch
<1>3. record \in Records /\ record.status = "UNAVAILABLE" /\ ~ record.cached
  BY DEF Records
<1> HIDE DEF record
<1>4. /\ usage' \in [Attempts -> [Keys -> Records]]
      /\ \A b \in Attempts : b # a => usage'[b] = usage[b]
      /\ \A j \in Keys : j # text[c] => usage'[a][j] = usage[a][j]
      /\ usage[a][text[c]].status = "NONE" => usage'[a][text[c]] = record
  BY <1>1, <1>2, <1>3, RecordUsageFields
<1> DEFINE steps == [run[a].chunk EXCEPT ![c] = "calling"]
           calls == run[a].called \cup {c}
           next == [run[a] EXCEPT !.chunk = steps, !.called = calls]
<1>5. run \in [Attempts -> RunState] /\ run[a] \in RunState
      /\ run[a].chunk \in [Chunks -> ChunkStep] /\ run[a].called \subseteq Chunks
  BY <1>1, RunFields
<1>6. steps \in [Chunks -> ChunkStep] /\ steps[c] = "calling"
      /\ \A d \in Chunks : d # c => steps[d] = run[a].chunk[d]
  BY <1>5 DEF ChunkStep
<1>7. calls \subseteq Chunks /\ \A d \in Chunks : d # c => (d \in calls <=> d \in run[a].called)
  BY <1>5
<1>8. run' = [run EXCEPT ![a] = next]
  BY <1>5 DEF RecordDispatch
<1> HIDE DEF steps, calls
<1>9. next \in RunState
  BY <1>5, <1>6, <1>7 DEF RunState
<1>10. run' \in [Attempts -> RunState] /\ run'[a] = next
       /\ \A b \in Attempts : b # a => run'[b] = run[b]
  BY <1>5, <1>8, <1>9
<1>11. /\ next.chunk = steps /\ next.pc = run[a].pc /\ next.selection = run[a].selection
       /\ next.error = run[a].error /\ next.called = calls /\ next.answer = run[a].answer
  BY <1>5 DEF RunState
<1> HIDE DEF next
<1>12. CallOf(a, c)
  BY <1>2, <1>4, <1>6, <1>7, <1>10, <1>11 DEF CallOf, setting
<1>13. Unique(c) => RecordOf(a, c)'
  <2> SUFFICES ASSUME Unique(c) PROVE RecordOf(a, c)'
    OBVIOUS
  <2>1. usage[a][text[c]] = NoRecord
    BY <1>1 DEF RecordsOf, RecordOf
  <2>2. usage'[a][text'[c]] = record
    BY <1>2, <1>4, <2>1 DEF NoRecord, setting
  <2> QED BY <1>1, <1>2, <1>3, <1>6, <1>10, <1>11, <2>2 DEF RecordOf, Dispatched
<1>14. RecordsOf(a)'
  BY <1>1, <1>12, <1>13, OtherCallsKept
<1>15. cache' \subseteq Keys /\ mishaps' \in Nat
  BY <1>1, <1>2 DEF GenerationTypeOK
<1> QED BY <1>1, <1>2, <1>4, <1>10, <1>11, <1>14, <1>15, CallKeeps

\* A failed call, of the provider, the decoder or the store.
LEMMA FailKeeps ==
  ASSUME GenerationInv, NEW a \in Attempts, NEW c \in Chunks, run[a].pc = "generating",
         FailChunk(a, c), mishaps' \in Nat,
         UNCHANGED <<job, setting, wallet, ledger, usage, cache, quiz, results>>
  PROVE  GenerationInv'
<1>1. GenerationTypeOK /\ RecordsOf(a) /\ ~ ledger[a].settled
  BY DEF GenerationInv, AttemptInv, EntriesOf, Settling
<1>2. /\ run' \in [Attempts -> RunState] /\ \A b \in Attempts : b # a => run'[b] = run[b]
      /\ run'[a].pc = run[a].pc /\ run'[a].selection = run[a].selection
      /\ run'[a].error = "Generation" /\ run'[a].called = run[a].called
      /\ run'[a].answer = run[a].answer /\ run'[a].chunk[c] = "failed"
      /\ \A d \in Chunks : d # c => run'[a].chunk[d] = run[a].chunk[d]
  BY <1>1, FailChunkFields
<1>3. CallOf(a, c)
  BY <1>2 DEF CallOf, setting
<1>4. Unique(c) => RecordOf(a, c)'
  BY <1>1, <1>2 DEF RecordsOf, RecordOf, Dispatched, UncertainCalls, setting
<1>5. RecordsOf(a)'
  BY <1>1, <1>3, <1>4, OtherCallsKept
<1>6. usage' \in [Attempts -> [Keys -> Records]] /\ cache' \subseteq Keys
  BY <1>1 DEF GenerationTypeOK
<1> QED BY <1>2, <1>5, <1>6, CallKeeps

\* A cached answer is recorded as usage that costs nothing, or refused unrecorded.
LEMMA HitKeeps ==
  ASSUME GenerationInv, NEW a \in Attempts, NEW c \in Chunks, CacheHit(a, c)
  PROVE  GenerationInv'
<1> DEFINE record == [status |-> "UNAVAILABLE", cached |-> TRUE, charged |-> 0]
<1>1. /\ GenerationTypeOK /\ run[a].pc = "generating" /\ run[a].chunk[c] = "hit"
      /\ run[a].error \in {"None", "Generation"} /\ RecordsOf(a) /\ text[c] \in Keys
  BY CallUnderWay DEF CacheHit
<1>2. UNCHANGED <<job, setting, wallet, ledger, cache, quiz, results, mishaps>>
  BY DEF CacheHit
<1>3. cache' \subseteq Keys /\ mishaps' \in Nat
  BY <1>1, <1>2 DEF GenerationTypeOK
<1>4. CASE FailChunk(a, c) /\ UNCHANGED usage
  BY <1>1, <1>2, <1>3, <1>4, FailKeeps
<1>5. CASE RecordUsage(a, text[c], record) /\ Finish(a, c)
  <2>1. record \in Records /\ record.status # "NONE"
    BY DEF Records
  <2> HIDE DEF record
  <2>2. /\ usage' \in [Attempts -> [Keys -> Records]]
        /\ \A b \in Attempts : b # a => usage'[b] = usage[b]
        /\ \A j \in Keys : j # text[c] => usage'[a][j] = usage[a][j]
    BY <1>1, <1>5, <2>1, RecordUsageFields
  <2>3. /\ run' \in [Attempts -> RunState] /\ \A b \in Attempts : b # a => run'[b] = run[b]
        /\ run'[a].pc = run[a].pc /\ run'[a].selection = run[a].selection
        /\ run'[a].error = run[a].error /\ run'[a].called = run[a].called
        /\ run'[a].answer = run[a].answer /\ run'[a].chunk[c] = "done"
        /\ \A d \in Chunks : d # c =>
              run'[a].chunk[d] = run[a].chunk[d]
              \/ (run[a].chunk[d] = "todo" /\ run'[a].chunk[d] = "lookup")
    BY <1>1, <1>5, FinishFields
  <2>4. CallOf(a, c)
    BY <1>2, <2>2, <2>3 DEF CallOf, setting
  <2>5. Unique(c) => RecordOf(a, c)'
    BY <1>1, <2>3 DEF RecordsOf, RecordOf, UncertainCalls
  <2>6. RecordsOf(a)'
    BY <1>1, <2>4, <2>5, OtherCallsKept
  <2> QED BY <1>1, <1>2, <1>3, <2>2, <2>3, <2>6, CallKeeps
<1> QED BY <1>4, <1>5 DEF CacheHit

\* The provider's answer, or its failure, is known to the run alone.
LEMMA CallReturns ==
  ASSUME GenerationInv, NEW a \in Attempts, NEW c \in Chunks, ProviderCall(a, c)
  PROVE  GenerationInv'
<1>1. /\ GenerationTypeOK /\ run[a].pc = "generating" /\ run[a].chunk[c] = "calling"
      /\ run[a].error \in {"None", "Generation"} /\ RecordsOf(a) /\ ~ ledger[a].settled
  BY CallUnderWay DEF ProviderCall
<1>2. UNCHANGED <<job, setting, wallet, ledger, usage, cache, quiz, results, mishaps>>
  BY DEF ProviderCall
<1>3. mishaps' \in Nat /\ usage' \in [Attempts -> [Keys -> Records]] /\ cache' \subseteq Keys
  BY <1>1, <1>2 DEF GenerationTypeOK
<1>4. CASE FailChunk(a, c)
  BY <1>1, <1>2, <1>3, <1>4, FailKeeps
<1>5. ASSUME NEW answer \in Answers,
             run' = [run EXCEPT ![a].chunk[c] = "answered", ![a].answer[c] = answer]
      PROVE  GenerationInv'
  <2> DEFINE steps == [run[a].chunk EXCEPT ![c] = "answered"]
             answers == [run[a].answer EXCEPT ![c] = answer]
             next == [run[a] EXCEPT !.chunk = steps, !.answer = answers]
  <2>1. run \in [Attempts -> RunState] /\ run[a] \in RunState
        /\ run[a].chunk \in [Chunks -> ChunkStep] /\ run[a].answer \in [Chunks -> Answers]
    BY <1>1, RunFields
  <2>2. steps \in [Chunks -> ChunkStep] /\ steps[c] = "answered"
        /\ \A d \in Chunks : d # c => steps[d] = run[a].chunk[d]
    BY <2>1 DEF ChunkStep
  <2>3. answers \in [Chunks -> Answers]
        /\ \A d \in Chunks : d # c => answers[d] = run[a].answer[d]
    BY <2>1
  <2>4. run' = [run EXCEPT ![a] = next]
    BY <1>5, <2>1
  <2> HIDE DEF steps, answers
  <2>5. next \in RunState
    BY <2>1, <2>2, <2>3 DEF RunState
  <2>6. run' \in [Attempts -> RunState] /\ run'[a] = next
        /\ \A b \in Attempts : b # a => run'[b] = run[b]
    BY <2>1, <2>4, <2>5
  <2>7. /\ next.chunk = steps /\ next.pc = run[a].pc /\ next.selection = run[a].selection
        /\ next.error = run[a].error /\ next.called = run[a].called /\ next.answer = answers
    BY <2>1 DEF RunState
  <2> HIDE DEF next
  <2>8. CallOf(a, c)
    BY <1>2, <2>2, <2>3, <2>6, <2>7 DEF CallOf, setting
  <2>9. Unique(c) => RecordOf(a, c)'
    BY <1>1, <1>2, <2>2, <2>6, <2>7 DEF RecordsOf, RecordOf, Dispatched, setting
  <2>10. RecordsOf(a)'
    BY <1>1, <2>8, <2>9, OtherCallsKept
  <2> QED BY <1>1, <1>2, <1>3, <2>6, <2>7, <2>10, CallKeeps
<1> QED BY <1>4, <1>5 DEF ProviderCall

\* Recording the answer settles what the call cost, or leaves it unknown.
LEMMA AnswerKeeps ==
  ASSUME GenerationInv, NEW a \in Attempts, NEW c \in Chunks, RecordAnswer(a, c)
  PROVE  GenerationInv'
<1> DEFINE record == IF run[a].answer[c] = Unknown
                     THEN [status |-> "UNAVAILABLE", cached |-> FALSE, charged |-> 0]
                     ELSE [status |-> "AVAILABLE", cached |-> FALSE,
                           charged |-> IF Platform(a) THEN run[a].answer[c] ELSE 0]
<1>1. /\ GenerationTypeOK /\ run[a].pc = "generating" /\ run[a].chunk[c] = "answered"
      /\ run[a].error \in {"None", "Generation"} /\ RecordsOf(a) /\ text[c] \in Keys
      /\ ~ ledger[a].settled
  BY CallUnderWay DEF RecordAnswer
<1>2. RecordUsage(a, text[c], record) /\ ChunkGoto(a, c, "decoding")
      /\ UNCHANGED <<job, setting, wallet, ledger, cache, quiz, results, mishaps>>
  BY DEF RecordAnswer
<1>3. PICK r \in Records : /\ r.status # "NONE" /\ RecordUsage(a, text[c], r)
                           /\ run[a].answer[c] = Unknown => r.status = "UNAVAILABLE"
  <2>1. run[a].answer[c] = Unknown \/ run[a].answer[c] \in Nat
    BY <1>1, RunFields, GenerationAssumption DEF Answers
  <2>2. /\ record \in Records /\ record.status # "NONE"
        /\ run[a].answer[c] = Unknown => record.status = "UNAVAILABLE"
    BY <2>1 DEF Records
  <2> HIDE DEF record
  <2> QED BY <1>2, <2>2
<1> HIDE DEF record
<1>4. /\ usage' \in [Attempts -> [Keys -> Records]]
      /\ \A b \in Attempts : b # a => usage'[b] = usage[b]
      /\ \A j \in Keys : j # text[c] => usage'[a][j] = usage[a][j]
      /\ usage[a][text[c]].status = "UNAVAILABLE" /\ r.status = "UNAVAILABLE" =>
            usage'[a][text[c]] = usage[a][text[c]]
  BY <1>1, <1>3, RecordUsageFields
<1>5. /\ run' \in [Attempts -> RunState] /\ \A b \in Attempts : b # a => run'[b] = run[b]
      /\ run'[a].pc = run[a].pc /\ run'[a].selection = run[a].selection
      /\ run'[a].error = run[a].error /\ run'[a].called = run[a].called
      /\ run'[a].answer = run[a].answer /\ run'[a].chunk[c] = "decoding"
      /\ \A d \in Chunks : d # c => run'[a].chunk[d] = run[a].chunk[d]
  BY <1>1, <1>2, ChunkGotoFields DEF ChunkStep
<1>6. CallOf(a, c)
  BY <1>2, <1>4, <1>5 DEF CallOf, setting
<1>7. Unique(c) => RecordOf(a, c)'
  <2> SUFFICES ASSUME Unique(c) PROVE RecordOf(a, c)'
    OBVIOUS
  <2>1. Dispatched(a, c) /\ text' = text
    BY <1>1, <1>2 DEF RecordsOf, RecordOf, setting
  <2>2. run[a].answer[c] = Unknown => Dispatched(a, c)'
    BY <1>3, <1>4, <2>1 DEF Dispatched
  <2> QED BY <1>1, <1>2, <1>5, <2>2 DEF RecordOf, UncertainCalls
<1>8. RecordsOf(a)'
  BY <1>1, <1>6, <1>7, OtherCallsKept
<1>9. cache' \subseteq Keys /\ mishaps' \in Nat
  BY <1>1, <1>2 DEF GenerationTypeOK
<1> QED BY <1>1, <1>2, <1>4, <1>5, <1>8, <1>9, CallKeeps

\* Decoding and caching an answer touches neither usage nor credits.
LEMMA DecodeKeeps ==
  ASSUME GenerationInv, NEW a \in Attempts, NEW c \in Chunks, DecodeAndSave(a, c)
  PROVE  GenerationInv'
<1>1. /\ GenerationTypeOK /\ run[a].pc = "generating" /\ run[a].chunk[c] = "decoding"
      /\ run[a].error \in {"None", "Generation"} /\ RecordsOf(a) /\ text[c] \in Keys
      /\ ~ ledger[a].settled
  BY CallUnderWay DEF DecodeAndSave
<1>2. UNCHANGED <<job, setting, wallet, ledger, usage, quiz, results, mishaps>>
  BY DEF DecodeAndSave
<1>3. mishaps' \in Nat /\ usage' \in [Attempts -> [Keys -> Records]]
  BY <1>1, <1>2 DEF GenerationTypeOK
<1>4. CASE FailChunk(a, c) /\ UNCHANGED cache
  BY <1>1, <1>2, <1>3, <1>4, FailKeeps
<1>5. CASE Finish(a, c) /\ cache' = cache \cup {text[c]}
  <2>1. /\ run' \in [Attempts -> RunState] /\ \A b \in Attempts : b # a => run'[b] = run[b]
        /\ run'[a].pc = run[a].pc /\ run'[a].selection = run[a].selection
        /\ run'[a].error = run[a].error /\ run'[a].called = run[a].called
        /\ run'[a].answer = run[a].answer /\ run'[a].chunk[c] = "done"
        /\ \A d \in Chunks : d # c =>
              run'[a].chunk[d] = run[a].chunk[d]
              \/ (run[a].chunk[d] = "todo" /\ run'[a].chunk[d] = "lookup")
    BY <1>1, <1>5, FinishFields
  <2>2. CallOf(a, c)
    BY <1>2, <2>1 DEF CallOf, setting
  <2>3. Unique(c) => RecordOf(a, c)'
    BY <1>1, <1>2, <2>1 DEF RecordsOf, RecordOf, Dispatched, UncertainCalls, setting
  <2>4. RecordsOf(a)'
    BY <1>1, <2>2, <2>3, OtherCallsKept
  <2>5. cache' \subseteq Keys
    BY <1>1, <1>5 DEF GenerationTypeOK
  <2> QED BY <1>1, <1>2, <1>3, <2>1, <2>4, <2>5, CallKeeps
<1> QED BY <1>4, <1>5 DEF DecodeAndSave

(***************************************************************************)
(* The end of the pool, the handoff and the settlement                     *)
(***************************************************************************)

\* An error caught in the try block leads to the settlement, which is not done.
LEMMA CatchKeeps ==
  ASSUME GenerationInv, NEW a \in Attempts, NEW e \in Errors \ {"Stale"}, Catch(a, e),
         run[a].pc \notin {"none", "ended", "crashed"}, InFlight(a) = {},
         UNCHANGED <<job, setting, wallet, ledger, usage, cache, quiz, results>>,
         mishaps' \in Nat
  PROVE  GenerationInv'
<1>1. GenerationTypeOK
  BY DEF GenerationInv
<1>2. Moved(a, "summarizing")
  BY <1>1, CatchMoves
<1>3. quiz' \in 0..MaxAttempts
  BY <1>1 DEF GenerationTypeOK
<1> QED BY <1>2, <1>3, MoveKeeps DEF RunStage, Settling

\* The pool of calls ends when none is under way any more.
LEMMA EndPoolKeeps ==
  ASSUME GenerationInv, NEW a \in Attempts, EndPool(a)
  PROVE  GenerationInv'
<1>1. run[a].pc = "generating" /\ InFlight(a) = {}
      /\ UNCHANGED <<job, setting, wallet, ledger, usage, cache, quiz, results, mishaps>>
  BY DEF EndPool, At, PoolEnds
<1>2. GenerationTypeOK /\ run[a].error \in {"None", "Generation"} /\ ~ ledger[a].settled
  BY <1>1 DEF GenerationInv, AttemptInv, CallsOf, EntriesOf, Settling
<1>3. mishaps' \in Nat /\ quiz' \in 0..MaxAttempts
  BY <1>1, <1>2 DEF GenerationTypeOK
<1>4. CASE Goto(a, "persisting")
  <2>1. Moved(a, "persisting")
    BY <1>2, <1>4, GotoMoves DEF RunStage
  <2> QED BY <1>1, <1>2, <1>3, <2>1, MoveKeeps DEF RunStage
<1>5. CASE run[a].error # "None" /\ Catch(a, run[a].error)
  <2>1. Catch(a, "Generation")
    BY <1>2, <1>5
  <2> QED BY <1>1, <1>3, <2>1, CatchKeeps DEF Errors
<1> QED BY <1>4, <1>5 DEF EndPool

\* The handoff inserts the document's first quiz and touches no credits.
LEMMA HandoffKeeps ==
  ASSUME GenerationInv, NEW a \in Attempts, Handoff(a)
  PROVE  GenerationInv'
<1>1. run[a].pc = "persisting"
      /\ UNCHANGED <<job, setting, wallet, ledger, usage, cache, results, mishaps>>
  BY DEF Handoff, At
<1>2. GenerationTypeOK /\ InFlight(a) = {}
  BY <1>1 DEF GenerationInv, AttemptInv, CallsOf
<1>3. mishaps' \in Nat
  BY <1>1, <1>2 DEF GenerationTypeOK
<1>4. CASE Goto(a, "summarizing") /\ quiz' = (IF quiz = 0 THEN a ELSE quiz)
  <2>1. Moved(a, "summarizing")
    BY <1>2, <1>4, GotoMoves DEF RunStage
  <2>2. quiz' \in 0..MaxAttempts
    BY <1>2, <1>4, GenerationAssumption DEF GenerationTypeOK, Attempts
  <2> QED BY <1>1, <1>2, <1>3, <2>1, <2>2, MoveKeeps DEF RunStage, Settling
<1>5. CASE Catch(a, "Generation") /\ UNCHANGED quiz
  BY <1>1, <1>2, <1>3, <1>5, CatchKeeps DEF Errors
<1> QED BY <1>4, <1>5 DEF Handoff

\* What is charged for an attempt is a number of credits.
LEMMA ChargedIsNat ==
  ASSUME GenerationTypeOK, NEW a \in Attempts
  PROVE  Charged(a) \in Nat /\ SomeUnknown(a) \in BOOLEAN
<1> DEFINE charges == [k \in Keys |-> usage[a][k].charged]
<1>1. charges \in [Keys -> Int] /\ \A k \in Keys : charges[k] \in Nat
  BY DEF GenerationTypeOK, Records
<1>2. SumFunction(charges) \in Nat
  BY <1>1, SumType, GenerationAssumption
<1> QED BY <1>2 DEF Charged, SomeUnknown

\* summarizeUsage: the sum a run settles is that of the records it read.
LEMMA SummarizeKeeps ==
  ASSUME GenerationInv, NEW a \in Attempts, SummarizeUsage(a)
  PROVE  GenerationInv'
<1>1. run[a].pc = "summarizing"
      /\ UNCHANGED <<job, setting, wallet, ledger, usage, cache, quiz, results, mishaps>>
  BY DEF SummarizeUsage, At
<1>2. GenerationTypeOK /\ AttemptInv(a) /\ InFlight(a) = {} /\ ResultsAreOwn
      /\ WalletMatchesLedger /\ RowKept(a)
  BY <1>1, Claimed DEF GenerationInv, AttemptInv, CallsOf
<1>3. mishaps' \in Nat /\ quiz' \in 0..MaxAttempts
  BY <1>1, <1>2 DEF GenerationTypeOK
<1>4. CASE Platform(a) /\ run' = [run EXCEPT ![a].pc = "settling", ![a].known = Charged(a),
                                             ![a].uncertain = SomeUnknown(a)]
  <2>1. PICK known \in Nat, uncertain \in BOOLEAN : known = Charged(a) /\ (uncertain = SomeUnknown(a))
    BY <1>2, ChargedIsNat
  <2> DEFINE next == [run[a] EXCEPT !.pc = "settling", !.known = known, !.uncertain = uncertain]
  <2>2. run \in [Attempts -> RunState] /\ run[a] \in RunState
    BY <1>2, RunFields
  <2>3. run' = [run EXCEPT ![a] = next]
    BY <1>4, <2>1, <2>2
  <2>4. next \in RunState
    BY <2>2 DEF RunState, RunStage
  <2>5. run' \in [Attempts -> RunState] /\ run'[a] = next
        /\ \A b \in Attempts : b # a => run'[b] = run[b]
    BY <2>2, <2>3, <2>4
  <2>6. /\ run'[a].pc = "settling" /\ run'[a].selection = run[a].selection
        /\ run'[a].chunk = run[a].chunk /\ run'[a].called = run[a].called
        /\ run'[a].answer = run[a].answer /\ run'[a].known = known
        /\ run'[a].uncertain = uncertain
    BY <2>2, <2>5 DEF RunState
  <2> HIDE DEF next
  <2>7. GenerationTypeOK' /\ OthersKept(a)
    BY <1>1, <1>2, <2>5, TypesKept DEF GenerationTypeOK, OthersKept, setting
  <2>8. Charged(a)' = known /\ (SomeUnknown(a)' = uncertain)
    BY <1>1, <2>1, SumsOfRecords
  <2>9. AttemptInv(a)'
    <3>1. UnclaimedOf(a)'
      BY <1>1, <1>2, <2>6 DEF AttemptInv, UnclaimedOf
    <3>2. CallsOf(a)'
      BY <1>2, <2>6 DEF CallsOf, InFlight, Early, Before
    <3>3. EntriesOf(a)'
      BY <1>1, <1>2, <1>4, <2>6 DEF AttemptInv, EntriesOf, Before, Settling, Platform
    <3>4. SummaryOf(a)'
      BY <1>1, <1>2, <2>1, <2>6, <2>8 DEF AttemptInv, SummaryOf
    <3>5. RecordsOf(a)'
      BY <1>1, <1>2, <2>6
         DEF AttemptInv, RecordsOf, RecordOf, Unique, Dispatched, UncertainCalls, setting
    <3>6. ReturnedOf(a)'
      BY <2>6 DEF ReturnedOf
    <3> QED BY <3>1, <3>2, <3>3, <3>4, <3>5, <3>6 DEF AttemptInv
  <2>10. ResultsAreOwn' /\ WalletMatchesLedger'
    BY <1>1, <1>2, <2>7, ResultsKept, WalletKept
  <2> QED BY <1>2, <2>7, <2>9, <2>10, InvSuffices
<1>5. CASE ~ Platform(a) /\ Goto(a, SettleBudgetReturns(a))
  <2>1. ~ ledger[a].reserved /\ (ledger[a].settled => ledger[a].settle = Charged(a))
    BY <1>2, <1>5 DEF AttemptInv, EntriesOf, SummaryOf
  <2>2. CASE run[a].caught
    <3>1. Moved(a, "thrown")
      BY <1>2, <1>5, <2>2, GotoMoves DEF RunStage, SettleBudgetReturns
    <3> QED BY <1>1, <1>2, <1>3, <2>1, <3>1, MoveKeeps DEF RunStage, Settling
  <2>3. CASE ~ run[a].caught
    <3>1. Moved(a, "returned")
      BY <1>2, <1>5, <2>3, GotoMoves DEF RunStage, SettleBudgetReturns
    <3>2. GenerationTypeOK' /\ OthersKept(a)
      BY <1>1, <1>2, <3>1, TypesKept DEF GenerationTypeOK, OthersKept, setting, Moved
    <3>3. AttemptInv(a)'
      <4>1. UnclaimedOf(a)'
        BY <1>1, <1>2, <3>1 DEF AttemptInv, UnclaimedOf, Moved
      <4>2. CallsOf(a)'
        BY <1>2, <3>1 DEF CallsOf, InFlight, Early, Before, Moved
      <4>3. EntriesOf(a)'
        BY <1>1, <1>2, <2>1, <3>1 DEF AttemptInv, EntriesOf, Before, Settling, Platform, Moved
      <4>4. SummaryOf(a)'
        BY <1>1, <2>1, <3>1, SumsOfRecords DEF SummaryOf, Moved
      <4>5. RecordsOf(a)'
        BY <1>1, <1>2, <3>1
           DEF AttemptInv, RecordsOf, RecordOf, Unique, Dispatched, UncertainCalls, setting, Moved
      <4>6. ReturnedOf(a)'
        BY <1>5, <3>1 DEF ReturnedOf, Platform, Moved
      <4> QED BY <4>1, <4>2, <4>3, <4>4, <4>5, <4>6 DEF AttemptInv
    <3>4. ResultsAreOwn' /\ WalletMatchesLedger'
      BY <1>1, <1>2, <3>2, ResultsKept, WalletKept
    <3> QED BY <1>2, <3>2, <3>3, <3>4, InvSuffices
  <2> QED BY <2>2, <2>3
<1> QED BY <1>4, <1>5 DEF SummarizeUsage

\* A settlement: what the attempt's calls cost, and nothing released beside a
\* dispatch whose cost nobody learned. The run then records it, or its answer is
\* lost.
LEMMA SettleKeeps ==
  ASSUME GenerationInv, NEW a \in Attempts, run[a].pc = "settling",
         NEW q \in {"recording", "summarizing", "thrown"}, Moved(a, q),
         Settle(a, run[a].known, run[a].uncertain),
         UNCHANGED <<job, setting, usage, cache, quiz, results>>, mishaps' \in Nat
  PROVE  GenerationInv'
<1>1. GenerationTypeOK /\ AttemptInv(a) /\ InFlight(a) = {} /\ ResultsAreOwn
      /\ WalletMatchesLedger /\ RowKept(a) /\ EntriesOf(a)
  BY Claimed DEF GenerationInv, AttemptInv, CallsOf
<1>2. PICK known \in Nat, uncertain \in BOOLEAN :
         known = run[a].known /\ (uncertain <=> run[a].uncertain) /\ Settle(a, known, uncertain)
  <2>1. run[a].known \in Nat /\ run[a].uncertain \in BOOLEAN
    BY <1>1, RunFields
  <2> QED BY <2>1
<1>3. known = Charged(a) /\ (uncertain <=> SomeUnknown(a)) /\ Platform(a)
  BY <1>1, <1>2 DEF AttemptInv, SummaryOf, EntriesOf
<1>4. /\ WalletMatchesLedger' /\ ledger' \in [Attempts -> Entries]
      /\ wallet' \in [available: Int, reserved: Nat]
  BY <1>1, <1>2, SettleKeepsAccount
<1>5. \/ ledger[a].settled /\ UNCHANGED <<wallet, ledger>>
      \/ /\ ~ ledger[a].settled
         /\ \A b \in Attempts : b # a => ledger'[b] = ledger[b]
         /\ ledger'[a].settled /\ ledger'[a].settle = known
         /\ (ledger'[a].reserved <=> ledger[a].reserved)
         /\ uncertain => ledger'[a].release = 0
  BY <1>1, <1>2, SettleEntries
<1>6. /\ \A b \in Attempts : b # a => ledger'[b] = ledger[b]
      /\ ledger'[a].settled /\ ledger'[a].settle = known
      /\ (ledger'[a].reserved <=> ledger[a].reserved)
  BY <1>1, <1>3, <1>5 DEF AttemptInv, SummaryOf
<1>7. GenerationTypeOK' /\ OthersKept(a)
  BY <1>1, <1>4, <1>6, TypesKept DEF GenerationTypeOK, OthersKept, setting, Moved
<1>8. AttemptInv(a)'
  <2>1. UnclaimedOf(a)'
    BY <1>1 DEF AttemptInv, UnclaimedOf, Moved
  <2>2. CallsOf(a)'
    BY <1>1 DEF CallsOf, InFlight, Early, Before, Moved
  <2>3. EntriesOf(a)'
    BY <1>1, <1>3, <1>6 DEF EntriesOf, Before, Settling, Platform, Moved
  <2>4. SummaryOf(a)'
    BY <1>1, <1>3, <1>6, SumsOfRecords DEF AttemptInv, SummaryOf, Moved
  <2>5. RecordsOf(a)'
    <3> SUFFICES ASSUME NEW c \in Chunks, Unique(c)
                 PROVE  RecordOf(a, c)'
      BY DEF RecordsOf, Unique, setting
    <3>1. RecordOf(a, c) /\ text[c] \in Keys /\ text' = text
      BY <1>1 DEF AttemptInv, RecordsOf, GenerationTypeOK, setting
    <3>2. Dispatched(a, c) => uncertain
      BY <1>3, <3>1 DEF Dispatched, SomeUnknown
    <3>3. Dispatched(a, c)' <=> Dispatched(a, c)
      BY <3>1 DEF Dispatched
    <3>4. c \in UncertainCalls(a)' <=> c \in UncertainCalls(a)
      BY DEF UncertainCalls, Moved
    <3>5. c \in UncertainCalls(a) => ledger'[a].release = 0
      BY <1>5, <3>1, <3>2 DEF RecordOf
    <3> QED BY <3>1, <3>3, <3>4, <3>5 DEF RecordOf, Moved
  <2>6. ReturnedOf(a)'
    BY DEF ReturnedOf, Moved
  <2> QED BY <2>1, <2>2, <2>3, <2>4, <2>5, <2>6 DEF AttemptInv
<1>9. ResultsAreOwn'
  BY <1>1, <1>7, ResultsKept
<1> QED BY <1>1, <1>4, <1>7, <1>8, <1>9, InvSuffices

\* settle: the attempt's reservation closes, by what was charged and what is held.
LEMMA SettleBudgetKeeps ==
  ASSUME GenerationInv, NEW a \in Attempts, SettleBudget(a)
  PROVE  GenerationInv'
<1>1. run[a].pc = "settling" /\ Settle(a, run[a].known, run[a].uncertain)
      /\ UNCHANGED <<job, setting, usage, cache, quiz, results, mishaps>> /\ Goto(a, "recording")
  BY DEF SettleBudget, At
<1>2. Moved(a, "recording") /\ mishaps' \in Nat
  BY <1>1, GotoMoves DEF GenerationInv, GenerationTypeOK, RunStage
<1> QED BY <1>1, <1>2, SettleKeeps

\* The job row takes the budget of the attempt that settled it, under its fence.
LEMMA RecordBudgetKeeps ==
  ASSUME GenerationInv, NEW a \in Attempts, RecordBudget(a)
  PROVE  GenerationInv'
<1>1. run[a].pc = "recording"
      /\ UNCHANGED <<setting, wallet, ledger, usage, cache, quiz, results, mishaps>>
  BY DEF RecordBudget, At
<1>2. GenerationTypeOK /\ AttemptInv(a) /\ InFlight(a) = {} /\ ResultsAreOwn
      /\ WalletMatchesLedger /\ job \in JobRow /\ job.attempts \in Nat /\ a <= job.attempts
  BY <1>1, Claimed DEF GenerationInv, AttemptInv, CallsOf
<1>3. Platform(a) /\ ledger[a].settled /\ ledger[a].settle = run[a].known
  BY <1>1, <1>2 DEF AttemptInv, EntriesOf, SummaryOf
<1>4. mishaps' \in Nat /\ quiz' \in 0..MaxAttempts
  BY <1>1, <1>2 DEF GenerationTypeOK
<1>5. CASE Throw(a, "Stale") /\ UNCHANGED job
  <2>1. Moved(a, "thrown")
    BY <1>2, <1>5, ThrowMoves DEF Errors
  <2> QED BY <1>1, <1>2, <1>3, <1>4, <1>5, <2>1, MoveKeeps DEF RunStage, Settling
<1>6. CASE /\ Fenced(a) /\ Goto(a, SettleBudgetReturns(a))
           /\ job' = [job EXCEPT !.budget =
                        [status |-> IF run[a].uncertain THEN "HELD" ELSE "SETTLED",
                         settled |-> run[a].known]]
  <2>1. PICK q \in {"returned", "thrown"} : Goto(a, q)
    BY <1>6 DEF SettleBudgetReturns
  <2>2. Moved(a, q)
    BY <1>2, <2>1, GotoMoves DEF RunStage
  <2> DEFINE budget == [status |-> IF run[a].uncertain THEN "HELD" ELSE "SETTLED",
                        settled |-> run[a].known]
  <2>3. budget \in Budgets /\ budget = Own(a)
    <3>1. run[a].known \in Nat
      BY <1>2, RunFields
    <3> QED BY <1>3, <3>1 DEF Budgets, Own
  <2>4. job' \in JobRow /\ job'.budget = Own(a) /\ job'.attempts = job.attempts
    BY <1>2, <1>6, <2>3 DEF JobRow
  <2>5. job.attempts = a
    BY <1>6 DEF Fenced
  <2>6. RowKept(a)
    BY <1>2, <2>4, <2>5 DEF RowKept
  <2>7. GenerationTypeOK' /\ OthersKept(a)
    BY <1>1, <1>2, <2>2, <2>4, TypesKept DEF GenerationTypeOK, OthersKept, setting, Moved
  <2>8. Own(a)' = Own(a)
    BY <1>1, <2>2 DEF Own, Moved
  <2>9. AttemptInv(a)'
    <3>1. UnclaimedOf(a)'
      BY <1>1, <1>2, <2>2, <2>4 DEF AttemptInv, UnclaimedOf, Moved
    <3>2. CallsOf(a)'
      BY <1>2, <2>2 DEF CallsOf, InFlight, Early, Before, Moved
    <3>3. EntriesOf(a)'
      BY <1>1, <1>2, <1>3, <2>2 DEF AttemptInv, EntriesOf, Before, Settling, Platform, Moved
    <3>4. SummaryOf(a)'
      BY <1>1, <1>2, <2>2, SumsOfRecords DEF AttemptInv, SummaryOf, Moved
    <3>5. RecordsOf(a)'
      BY <1>1, <1>2, <2>2
         DEF AttemptInv, RecordsOf, RecordOf, Unique, Dispatched, UncertainCalls, setting, Moved
    <3>6. ReturnedOf(a)'
      BY <1>1, <1>3, <2>4, <2>8 DEF ReturnedOf
    <3> QED BY <3>1, <3>2, <3>3, <3>4, <3>5, <3>6 DEF AttemptInv
  <2>10. ResultsAreOwn' /\ WalletMatchesLedger'
    BY <1>1, <1>2, <2>7, ResultsKept, WalletKept
  <2> QED BY <2>6, <2>7, <2>9, <2>10, InvSuffices
<1> QED BY <1>5, <1>6 DEF RecordBudget

(***************************************************************************)
(* The outcome                                                             *)
(***************************************************************************)

\* A run ends: the row keeps the attempt and the budget it recorded, and the
\* result, when there is one, is the attempt's own.
LEMMA EndKeeps ==
  ASSUME GenerationInv, NEW a \in Attempts, run[a].pc \in {"returned", "thrown"},
         Goto(a, "ended"), job' \in JobRow, job'.attempts = job.attempts,
         job'.budget = job.budget,
         UNCHANGED <<setting, wallet, ledger, usage, cache, quiz, mishaps>>,
         \/ UNCHANGED results
         \/ \E status \in {"COMPLETED", "FAILED"} :
               Fenced(a) /\ Result(a, status) /\ (status = "COMPLETED" => run[a].pc = "returned")
  PROVE  GenerationInv'
<1>1. GenerationTypeOK /\ AttemptInv(a) /\ InFlight(a) = {} /\ ResultsAreOwn
      /\ WalletMatchesLedger /\ job \in JobRow /\ job.attempts \in Nat
  BY Claimed DEF GenerationInv, AttemptInv, CallsOf
<1>2. Moved(a, "ended") /\ (run'[a].hurt <=> run[a].hurt)
  BY <1>1, GotoMoves DEF RunStage
<1>3. OthersKept(a) /\ RowKept(a)
  BY <1>1, <1>2 DEF OthersKept, RowKept, setting, Moved
<1>4. AttemptInv(a)'
  <2>1. run[a].pc \in {"returned", "thrown"} /\ ~ run'[a].hurt /\ ledger[a].reserved => ledger[a].settled
    BY <1>1, <1>2 DEF AttemptInv, EntriesOf
  <2> QED BY <1>1, <1>2, <2>1, QuietMove DEF RunStage, Settling, setting
<1>5. WalletMatchesLedger'
  BY <1>1, WalletKept
<1>6. results \in Seq(ResultRow)
  BY <1>1 DEF GenerationTypeOK
<1>7. CASE UNCHANGED results
  <2>1. GenerationTypeOK'
    BY <1>1, <1>2, <1>7, TypesKept DEF GenerationTypeOK, Moved
  <2>2. ResultsAreOwn'
    BY <1>1, <1>3, <1>7, ResultsKept
  <2> QED BY <1>3, <1>4, <1>5, <2>1, <2>2, InvSuffices
<1>8. ASSUME NEW status \in {"COMPLETED", "FAILED"}, Fenced(a), Result(a, status),
             status = "COMPLETED" => run[a].pc = "returned"
      PROVE  GenerationInv'
  <2> DEFINE budget == IF job.budget = NoBudget /\ run[a].error = "Budget"
                       THEN [NoBudget EXCEPT !.status = "EXHAUSTED"] ELSE job.budget
             row == [attempt |-> a, status |-> status, budget |-> budget]
  <2>1. results' = Append(results, row)
    BY <1>8 DEF Result
  <2>2. budget \in Budgets
    BY <1>1 DEF JobRow, NoBudget, Budgets
  <2>3. row \in ResultRow
    BY <2>2 DEF ResultRow
  <2>4. status = "COMPLETED" /\ Platform(a) => budget = Own(a)
    <3> SUFFICES ASSUME status = "COMPLETED", Platform(a) PROVE budget = Own(a)
      OBVIOUS
    <3>1. job.budget = Own(a)
      BY <1>1, <1>8 DEF AttemptInv, ReturnedOf, Fenced
    <3>2. Own(a).status # NoBudget.status
      BY DEF Own, NoBudget
    <3> QED BY <3>1, <3>2
  <2> HIDE DEF budget
  <2>5. row.attempt = a /\ row.status = status /\ row.budget = budget
    OBVIOUS
  <2> HIDE DEF row
  <2>6. results' \in Seq(ResultRow) /\ Len(results') = Len(results) + 1
        /\ results'[Len(results) + 1] = row
        /\ \A i \in 1..Len(results) : results'[i] = results[i]
    BY <1>6, <2>1, <2>3
  <2>7. GenerationTypeOK'
    BY <1>1, <1>2, <2>6, TypesKept DEF GenerationTypeOK, Moved
  <2>8. ResultsAreOwn'
    <3> SUFFICES ASSUME NEW i \in DOMAIN results'
                 PROVE  /\ run'[results'[i].attempt].pc = "ended"
                        /\ results'[i].status = "COMPLETED"
                           /\ run'[results'[i].attempt].selection # "CUSTOM" =>
                              results'[i].budget = [status |-> IF run'[results'[i].attempt].uncertain
                                                              THEN "HELD" ELSE "SETTLED",
                                                    settled |-> ledger'[results'[i].attempt].settle]
      BY DEF ResultsAreOwn, Platform, Own
    <3>1. CASE i \in 1..Len(results)
      <4>1. results'[i] = results[i] /\ results[i] \in ResultRow /\ i \in DOMAIN results
        BY <1>6, <2>6, <3>1
      <4>2. PICK b \in Attempts : results[i].attempt = b
        BY <4>1 DEF ResultRow
      <4>3. run[b].pc = "ended" /\ b # a
        BY <1>1, <4>1, <4>2 DEF ResultsAreOwn
      <4>4. run'[b] = run[b] /\ ledger'[b] = ledger[b]
        BY <1>3, <4>3 DEF OthersKept
      <4> QED BY <1>1, <4>1, <4>2, <4>3, <4>4 DEF ResultsAreOwn, Platform, Own
    <3>2. CASE i = Len(results) + 1
      <4>1. results'[i].attempt = a /\ results'[i].status = status /\ results'[i].budget = budget
        BY <2>5, <2>6, <3>2
      <4> QED BY <1>2, <2>4, <4>1 DEF Moved, Platform, Own
    <3> QED BY <1>6, <2>6, <3>1, <3>2
  <2> QED BY <1>3, <1>4, <1>5, <2>7, <2>8, InvSuffices
<1> QED BY <1>7, <1>8

\* A run writes its result under the fence, or puts the job back for a retry.
LEMMA OutcomeKeeps ==
  ASSUME GenerationInv, NEW a \in Attempts, Complete(a) \/ FailAttempt(a) \/ RetryTechnical(a)
  PROVE  GenerationInv'
<1>1. job \in JobRow /\ GenerationTypeOK
  BY DEF GenerationInv, GenerationTypeOK
<1>2. ASSUME NEW status \in {"COMPLETED", "FAILED"}, Finalize(a, status)
      PROVE  /\ job' \in JobRow /\ job'.attempts = job.attempts /\ job'.budget = job.budget
             /\ UNCHANGED results \/ (Fenced(a) /\ Result(a, status))
  <2>1. CASE ~ Fenced(a)
    BY <1>1, <1>2, <2>1 DEF Finalize
  <2>2. CASE Fenced(a)
    <3>1. job' = [job EXCEPT !.status = status, !.live = FALSE] /\ Result(a, status)
      BY <1>2, <2>2 DEF Finalize
    <3> QED BY <1>1, <2>2, <3>1 DEF JobRow
  <2> QED BY <2>1, <2>2
<1>3. CASE Complete(a)
  <2>1. run[a].pc = "returned" /\ Finalize(a, "COMPLETED") /\ Goto(a, "ended")
        /\ UNCHANGED <<setting, wallet, ledger, usage, cache, quiz, mishaps>>
    BY <1>3 DEF Complete, At
  <2> QED BY <1>2, <2>1, EndKeeps
<1>4. CASE FailAttempt(a)
  <2>1. run[a].pc = "thrown" /\ Finalize(a, "FAILED") /\ Goto(a, "ended")
        /\ UNCHANGED <<setting, wallet, ledger, usage, cache, quiz, mishaps>>
    BY <1>4 DEF FailAttempt, At
  <2> QED BY <1>2, <2>1, EndKeeps
<1>5. CASE RetryTechnical(a)
  <2>1. run[a].pc = "thrown" /\ Goto(a, "ended")
        /\ UNCHANGED <<setting, wallet, ledger, usage, cache, quiz, mishaps>>
    BY <1>5 DEF RetryTechnical, At
  <2>2. CASE Finalize(a, "FAILED")
    BY <1>2, <2>1, <2>2, EndKeeps
  <2>3. CASE /\ job' = (IF Fenced(a)
                        THEN [job EXCEPT !.status = "PENDING", !.live = FALSE, !.retries = @ + 1]
                        ELSE job)
             /\ UNCHANGED results
    <3>1. job' \in JobRow /\ job'.attempts = job.attempts /\ job'.budget = job.budget
      <4>1. job.retries + 1 \in Nat
        BY <1>1 DEF JobRow
      <4>2. CASE Fenced(a)
        <5> DEFINE next == [job EXCEPT !.status = "PENDING", !.live = FALSE,
                                       !.retries = job.retries + 1]
        <5>1. job' = next
          BY <2>3, <4>2
        <5>2. next \in JobRow /\ next.attempts = job.attempts /\ next.budget = job.budget
          BY <1>1, <4>1 DEF JobRow
        <5> QED BY <5>1, <5>2
      <4> QED BY <1>1, <2>3, <4>2
    <3> QED BY <2>1, <2>3, <3>1, EndKeeps
  <2> QED BY <1>5, <2>2, <2>3 DEF RetryTechnical
<1> QED BY <1>3, <1>4, <1>5

(***************************************************************************)
(* Faults                                                                  *)
(***************************************************************************)

\* A lease that runs out gives the job up, not the credits or the usage.
LEMMA ExpiryKeeps ==
  ASSUME GenerationInv, LeaseExpires
  PROVE  GenerationInv'
<1>1. GenerationTypeOK /\ job \in JobRow /\ job.attempts \in Nat
  BY DEF GenerationInv, GenerationTypeOK, JobRow
<1>2. job' = [job EXCEPT !.live = FALSE] /\ mishaps' = mishaps + 1
      /\ UNCHANGED <<run, setting, wallet, ledger, usage, cache, quiz, results>>
  BY DEF LeaseExpires, Mishap
<1>3. job' \in JobRow /\ job'.attempts = job.attempts /\ job'.budget = job.budget
  BY <1>1, <1>2 DEF JobRow
<1>4. mishaps' \in Nat
  BY <1>1, <1>2 DEF GenerationTypeOK
<1>5. GenerationTypeOK'
  BY <1>1, <1>2, <1>3, <1>4, TypesKept DEF GenerationTypeOK
<1>6. ASSUME NEW a \in Attempts
      PROVE  AttemptInv(a)'
  <2>1. AttemptInv(a) /\ text' = text
    BY <1>2 DEF GenerationInv, setting
  <2>2. UnclaimedOf(a)'
    BY <1>2, <1>3, <2>1 DEF AttemptInv, UnclaimedOf
  <2>3. CallsOf(a)'
    BY <1>2, <2>1 DEF AttemptInv, CallsOf, InFlight
  <2>4. EntriesOf(a)'
    BY <1>2, <2>1 DEF AttemptInv, EntriesOf, Platform
  <2>5. SummaryOf(a)'
    BY <1>2, <2>1, SumsOfRecords DEF AttemptInv, SummaryOf
  <2>6. RecordsOf(a)'
    BY <1>2, <2>1 DEF AttemptInv, RecordsOf, RecordOf, Unique, Dispatched, UncertainCalls
  <2>7. ReturnedOf(a)'
    BY <1>2, <1>3, <2>1 DEF AttemptInv, ReturnedOf, Platform, Own
  <2> QED BY <2>2, <2>3, <2>4, <2>5, <2>6, <2>7 DEF AttemptInv
<1>7. ResultsAreOwn' /\ WalletMatchesLedger'
  BY <1>2, WalletKept DEF GenerationInv, ResultsAreOwn, Platform, Own
<1> QED BY <1>5, <1>6, <1>7 DEF GenerationInv

\* A crash ends the run wherever it stands and is remembered as a mishap.
LEMMA CrashKeeps ==
  ASSUME GenerationInv, NEW a \in Attempts, Crash(a)
  PROVE  GenerationInv'
<1>1. run[a].pc \notin {"none", "ended", "crashed"} /\ mishaps' = mishaps + 1
      /\ Goto(a, "crashed")
      /\ UNCHANGED <<job, setting, wallet, ledger, usage, cache, quiz, results>>
  BY DEF Crash, Mishap
<1>2. GenerationTypeOK
  BY DEF GenerationInv
<1>3. mishaps' \in Nat /\ quiz' \in 0..MaxAttempts
  BY <1>1, <1>2 DEF GenerationTypeOK
<1>4. Moved(a, "crashed")
  BY <1>1, <1>2, GotoMoves DEF RunStage
<1> QED BY <1>1, <1>3, <1>4, MoveKeeps DEF RunStage, Settling

\* A failing statement rejects its chunk, reaches the catch block or ends generate.
LEMMA StoreErrorKeeps ==
  ASSUME GenerationInv, NEW a \in Attempts, StoreError(a)
  PROVE  GenerationInv'
<1>1. mishaps' = mishaps + 1
      /\ UNCHANGED <<job, setting, wallet, ledger, usage, cache, quiz, results>>
  BY DEF StoreError, Mishap
<1>2. GenerationTypeOK
  BY DEF GenerationInv
<1>3. mishaps' \in Nat /\ quiz' \in 0..MaxAttempts
  BY <1>1, <1>2 DEF GenerationTypeOK
<1>4. ASSUME NEW c \in InFlight(a), At(a, "generating"), FailChunk(a, c)
      PROVE  GenerationInv'
  BY <1>1, <1>3, <1>4, FailKeeps DEF InFlight, At
<1>5. CASE /\ run[a].pc \in {"prompting", "persisting", "summarizing", "settling", "recording"}
           /\ Catch(a, "Processing")
  <2>1. InFlight(a) = {}
    BY <1>5 DEF GenerationInv, AttemptInv, CallsOf
  <2> QED BY <1>1, <1>3, <1>5, <2>1, CatchKeeps DEF Errors
<1>6. CASE /\ run[a].pc \in {"summarizing", "settling", "recording"}
           /\ run' = [run EXCEPT ![a].pc = "thrown", ![a].hurt = TRUE]
  <2>1. InFlight(a) = {}
    BY <1>6 DEF GenerationInv, AttemptInv, CallsOf
  <2>2. Moved(a, "thrown") /\ run'[a].hurt
    <3>1. run \in [Attempts -> RunState] /\ run[a] \in RunState
      BY <1>2, RunFields
    <3> DEFINE next == [run[a] EXCEPT !.pc = "thrown", !.hurt = TRUE]
    <3>2. run' = [run EXCEPT ![a] = next]
      BY <1>6, <3>1
    <3>3. next \in RunState
      BY <3>1 DEF RunState, RunStage
    <3>4. run' \in [Attempts -> RunState] /\ run'[a] = next
          /\ \A b \in Attempts : b # a => run'[b] = run[b]
      BY <3>1, <3>2, <3>3
    <3> QED BY <3>1, <3>4 DEF Moved, RunState
  <2> QED BY <1>1, <1>3, <1>6, <2>1, <2>2, MoveKeeps DEF RunStage, Settling
<1> QED BY <1>4, <1>5, <1>6 DEF StoreError

\* A reservation or settlement whose answer is lost stands, and the run is hurt.
LEMMA AnswerLostKeeps ==
  ASSUME GenerationInv, NEW a \in Attempts, AnswerLost(a)
  PROVE  GenerationInv'
<1>1. mishaps' = mishaps + 1 /\ UNCHANGED <<job, setting, usage, cache, quiz, results>>
  BY DEF AnswerLost, Mishap
<1>2. GenerationTypeOK /\ AttemptInv(a) /\ ResultsAreOwn /\ WalletMatchesLedger
  BY DEF GenerationInv
<1>3. mishaps' \in Nat /\ quiz' \in 0..MaxAttempts
  BY <1>1, <1>2 DEF GenerationTypeOK
<1>4. CASE /\ run[a].pc = "reserving" /\ Platform(a) /\ Reserve(a)
           /\ run' = [run EXCEPT ![a].pc = "thrown", ![a].error = "Processing", ![a].hurt = TRUE]
  <2>1. ledger[a] = NoEntries /\ InFlight(a) = {}
    BY <1>2, <1>4 DEF AttemptInv, EntriesOf, CallsOf, Before
  <2>2. /\ WalletMatchesLedger'
        /\ ledger' \in [Attempts -> Entries] /\ wallet' \in [available: Int, reserved: Nat]
        /\ \A b \in Attempts : b # a => ledger'[b] = ledger[b]
        /\ ledger'[a].reserved /\ ~ ledger'[a].settled /\ ledger'[a].settle = 0
        /\ ledger'[a].release = 0 /\ ledger'[a].hold = 0
    BY <1>2, <1>4, <2>1, ReserveKeepsAccount
  <2>3. Moved(a, "thrown") /\ run'[a].hurt
    BY <1>2, <1>4, HurtMoves DEF Errors
  <2>4. OthersKept(a) /\ RowKept(a)
    BY <1>1, <1>2, <1>4, <2>2, <2>3, Claimed DEF OthersKept, setting, Moved
  <2>5. GenerationTypeOK'
    BY <1>1, <1>2, <1>3, <2>2, <2>3, TypesKept DEF GenerationTypeOK, Moved
  <2>6. AttemptInv(a)'
    <3>1. UnclaimedOf(a)'
      BY <1>1, <1>2, <1>4, <2>3 DEF AttemptInv, UnclaimedOf, Moved
    <3>2. CallsOf(a)'
      BY <2>1, <2>3 DEF CallsOf, InFlight, Early, Before, Moved
    <3>3. EntriesOf(a)'
      BY <1>4, <2>2, <2>3 DEF EntriesOf, Before, Platform, Moved
    <3>4. SummaryOf(a)'
      BY <2>2, <2>3 DEF SummaryOf, Moved
    <3>5. RecordsOf(a)'
      BY <1>1, <1>2, <2>2, <2>3
         DEF AttemptInv, RecordsOf, RecordOf, Unique, Dispatched, UncertainCalls, setting, Moved
    <3>6. ReturnedOf(a)'
      BY <2>3 DEF ReturnedOf, Moved
    <3> QED BY <3>1, <3>2, <3>3, <3>4, <3>5, <3>6 DEF AttemptInv
  <2>7. ResultsAreOwn'
    BY <1>1, <1>2, <1>4, <2>4, ResultsKept
  <2> QED BY <2>2, <2>4, <2>5, <2>6, <2>7, InvSuffices
<1>5. CASE /\ run[a].pc = "settling" /\ Settle(a, run[a].known, run[a].uncertain)
           /\ Throw(a, run[a].error) \/ Catch(a, "Processing")
  <2>1. PICK q \in {"summarizing", "thrown"} : Moved(a, q)
    <3>1. PICK e \in Errors : e = run[a].error
      BY <1>2, RunFields
    <3>2. CASE Throw(a, e)
      BY <1>2, <3>2, ThrowMoves
    <3>3. CASE Catch(a, "Processing")
      <4>1. Moved(a, IF "Processing" = "Stale" THEN "thrown" ELSE "summarizing")
        BY <1>2, <3>3, CatchMoves DEF Errors
      <4> QED BY <4>1
    <3> QED BY <1>5, <3>1, <3>2, <3>3
  <2> QED BY <1>1, <1>3, <1>5, <2>1, SettleKeeps
<1> QED BY <1>4, <1>5 DEF AnswerLost, At

(***************************************************************************)
(* The theorems                                                            *)
(***************************************************************************)

\* Before the first claim nothing is reserved, called or written, ...
LEMMA GenerationInitially == Init => GenerationInv
<1> SUFFICES ASSUME Init PROVE GenerationInv
  OBVIOUS
<1>1. NoRun \in RunState
  BY DEF NoRun, RunState, RunStage, Selections, ChunkStep, Answers, Errors
<1>2. NoEntries \in Entries /\ NoRecord \in Records
  BY DEF NoEntries, Entries, NoRecord, Records
<1>3. job \in JobRow /\ job.attempts = 0
  <2>1. 0 \in 0..MaxAttempts /\ NoBudget \in Budgets
    BY GenerationAssumption DEF Budgets, NoBudget
  <2>2. job \in [status: {"PENDING"}, attempts: {0}, live: {FALSE}, retries: {0},
                 selection: {"NULL", "CUSTOM"}, budget: {NoBudget}]
    BY DEF Init
  <2>3. PICK selection \in {"NULL", "CUSTOM"} :
           job = [status |-> "PENDING", attempts |-> 0, live |-> FALSE, retries |-> 0,
                  selection |-> selection, budget |-> NoBudget]
    BY <2>2
  <2>4. 0 \in Nat /\ selection \in Selections /\ FALSE \in BOOLEAN
    BY DEF Selections
  <2> QED BY <2>1, <2>3, <2>4 DEF JobRow
<1>4. GenerationTypeOK
  BY <1>1, <1>2, <1>3, GenerationAssumption DEF Init, GenerationTypeOK
<1>5. \A a \in Attempts : run[a] = NoRun /\ ledger[a] = NoEntries
                          /\ \A k \in Keys : usage[a][k] = NoRecord
  BY DEF Init
<1>6. ASSUME NEW a \in Attempts
      PROVE  AttemptInv(a)
  <2>1. /\ run[a].pc = "none" /\ run[a].called = {} /\ run[a].error = "None"
        /\ \A c \in Chunks : run[a].chunk[c] = "todo"
        /\ ~ ledger[a].reserved /\ ~ ledger[a].settled /\ ledger[a].settle = 0
        /\ ledger[a].release = 0 /\ ledger[a].hold = 0
    BY <1>5 DEF NoRun, NoEntries
  <2>2. UnclaimedOf(a)
    BY <1>5, <2>1 DEF UnclaimedOf
  <2>3. CallsOf(a)
    BY <1>5, <2>1 DEF CallsOf, InFlight
  <2>4. EntriesOf(a)
    BY <1>5, <2>1 DEF EntriesOf
  <2>5. SummaryOf(a)
    BY <2>1 DEF SummaryOf
  <2>6. RecordsOf(a)
    BY <1>4, <1>5, <2>1 DEF RecordsOf, RecordOf, UncertainCalls, GenerationTypeOK
  <2>7. ReturnedOf(a)
    BY <2>1 DEF ReturnedOf
  <2> QED BY <2>2, <2>3, <2>4, <2>5, <2>6, <2>7 DEF AttemptInv
<1>7. ResultsAreOwn
  BY DEF Init, ResultsAreOwn
<1>8. WalletMatchesLedger
  <2> DEFINE open == [a \in Attempts |-> IF ledger[a].settled THEN 0 ELSE ledger[a].reserve]
             spent == [a \in Attempts |-> ledger[a].settle]
             held == [a \in Attempts |-> ledger[a].hold]
  <2>1. \A a \in Attempts : ~ ledger[a].settled /\ ledger[a].reserve = 0
                            /\ ledger[a].settle = 0 /\ ledger[a].hold = 0
    BY <1>5 DEF NoEntries
  <2>2. /\ open \in [Attempts -> Int] /\ \A a \in Attempts : open[a] = 0
        /\ spent \in [Attempts -> Int] /\ \A a \in Attempts : spent[a] = 0
        /\ held \in [Attempts -> Int] /\ \A a \in Attempts : held[a] = 0
    BY <2>1
  <2> HIDE DEF open, spent, held
  <2>3. SumFunction(open) = 0
    BY <2>2, SumOfZeros, AttemptsAreFinite
  <2>4. SumFunction(spent) = 0
    BY <2>2, SumOfZeros, AttemptsAreFinite
  <2>5. SumFunction(held) = 0
    BY <2>2, SumOfZeros, AttemptsAreFinite
  <2>6. wallet.available = Grant /\ wallet.reserved = 0 /\ Grant \in Nat
    BY GenerationAssumption DEF Init
  <2>7. wallet.reserved = SumFunction(open)
        /\ wallet.available + wallet.reserved + SumFunction(spent) + SumFunction(held) = Grant
    BY <2>3, <2>4, <2>5, <2>6
  <2> QED BY <2>7 DEF WalletMatchesLedger, Total, open, spent, held
<1> QED BY <1>4, <1>6, <1>7, <1>8 DEF GenerationInv

\* ... every step keeps the invariant, ...
LEMMA GenerationStep ==
  ASSUME GenerationInv, [Next]_vars
  PROVE  GenerationInv'
<1>1. ASSUME NEW a \in Attempts, ClaimPending(a) \/ RunStep(a)
      PROVE  GenerationInv'
  BY <1>1, ClaimKeeps, ProcessKeeps, ResolveKeeps, ReserveKeeps, PromptKeeps, EndPoolKeeps,
     HandoffKeeps, SummarizeKeeps, SettleBudgetKeeps, RecordBudgetKeeps, OutcomeKeeps DEF RunStep
<1>2. ASSUME NEW a \in Attempts, NEW c \in Chunks, ChunkWork(a, c)
      PROVE  GenerationInv'
  BY <1>2, LookupKeeps, HitKeeps, DispatchKeeps, CallReturns, AnswerKeeps, DecodeKeeps DEF ChunkWork
<1>3. CASE LeaseExpires
  BY <1>3, ExpiryKeeps
<1>4. ASSUME NEW a \in Attempts, Crash(a) \/ StoreError(a) \/ AnswerLost(a)
      PROVE  GenerationInv'
  BY <1>4, CrashKeeps, StoreErrorKeeps, AnswerLostKeeps
<1>5. CASE UNCHANGED vars
  <2>1. GenerationTypeOK'
    BY <1>5 DEF GenerationInv, GenerationTypeOK, vars, setting
  <2>2. ASSUME NEW a \in Attempts
        PROVE  AttemptInv(a)'
    BY <1>5, SumsOfRecords
       DEF GenerationInv, AttemptInv, UnclaimedOf, CallsOf, EntriesOf, SummaryOf, RecordsOf,
           RecordOf, ReturnedOf, InFlight, Platform, Unique, Dispatched, UncertainCalls, Own,
           vars, setting
  <2>3. ResultsAreOwn' /\ WalletMatchesLedger'
    BY <1>5, WalletKept DEF GenerationInv, ResultsAreOwn, Platform, Own, vars
  <2> QED BY <2>1, <2>2, <2>3 DEF GenerationInv
<1> QED BY <1>1, <1>2, <1>3, <1>4, <1>5 DEF Next

\* ... and so it holds throughout.
LEMMA GenerationInvariant == Spec => []GenerationInv
  BY GenerationInitially, GenerationStep, PTL DEF Spec

\* Every row of the job, the ledger, the usage and the results keeps its shape,
\* and the reserved credits never become negative.
THEOREM GenerationTypeCorrect == Spec => []GenerationTypeOK
<1>1. GenerationInv => GenerationTypeOK
  BY DEF GenerationInv
<1> QED BY <1>1, GenerationInvariant, PTL

\* No credit is lost or made by retries, stale attempts, repeated settlements and
\* lost answers (budget-reservation.repository.ts).
THEOREM WalletStaysBalanced == Spec => []WalletMatchesLedger
<1>1. GenerationInv => WalletMatchesLedger
  BY DEF GenerationInv
<1> QED BY <1>1, GenerationInvariant, PTL

\* A settlement charges what the attempt's calls cost: the pool ends only when
\* none is under way (mapWithBoundedConcurrency).
THEOREM SettlementIsFinal == Spec => []SettledUsageIsFinal
<1>1. GenerationInv => SettledUsageIsFinal
  BY DEF GenerationInv, AttemptInv, SummaryOf, SettledUsageIsFinal
<1> QED BY <1>1, GenerationInvariant, PTL

\* Nothing is released beside a dispatch whose usage nobody learned.
THEOREM UncertainStaysHeld == Spec => []UncertainIsHeld
<1>1. GenerationInv => UncertainIsHeld
  BY DEF GenerationInv, AttemptInv, RecordsOf, RecordOf, Unique, UncertainIsHeld
<1> QED BY <1>1, GenerationInvariant, PTL

\* A run that ends without a mishap in its settlement leaves no reservation open.
THEOREM EndedRunsSettle == Spec => []EndedRunsAreSettled
<1>1. GenerationInv => EndedRunsAreSettled
  BY DEF GenerationInv, AttemptInv, EntriesOf, EndedRunsAreSettled
<1> QED BY <1>1, GenerationInvariant, PTL

\* A COMPLETED result reports the settlement of its own attempt.
THEOREM CompletedReportsOwnBudget == Spec => []CompletedBudgetIsOwn
<1>1. GenerationInv => CompletedBudgetIsOwn
  <2> SUFFICES ASSUME GenerationInv, NEW i \in DOMAIN results, results[i].status = "COMPLETED",
                      Platform(results[i].attempt)
               PROVE  /\ results[i].budget.settled = ledger[results[i].attempt].settle
                      /\ (results[i].budget.status = "HELD") = run[results[i].attempt].uncertain
    BY DEF CompletedBudgetIsOwn
  <2>1. results[i] \in ResultRow
    BY DEF GenerationInv, GenerationTypeOK
  <2>2. PICK a \in Attempts : results[i].attempt = a
    BY <2>1 DEF ResultRow
  <2>3. results[i].budget = Own(a) /\ run[a].uncertain \in BOOLEAN
    BY <2>2, RunFields DEF GenerationInv, ResultsAreOwn
  <2> QED BY <2>2, <2>3 DEF Own
<1> QED BY <1>1, GenerationInvariant, PTL

=============================================================================
