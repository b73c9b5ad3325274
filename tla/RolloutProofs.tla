---------------------------- MODULE RolloutProofs ----------------------------
(***************************************************************************)
(* Proofs about Migrations and Rollout: the migrations that are recorded   *)
(* have no gap whoever applies, reverts or dies; what serves is migrated;  *)
(* and a deployment that fails leaves release files that once worked.      *)
(***************************************************************************)
EXTENDS Rollout, TLAPS

(***************************************************************************)
(* The migration runs                                                      *)
(***************************************************************************)

Steps == {"idle", "lock", "read", "exists", "apply", "commit", "unlock", "failing",
          "ended", "failed"}

\* The steps between the lock and the unlock.
Holding == {"read", "exists", "apply", "commit", "unlock", "failing"}

RunState == [step : Steps, files : Nat, command : Commands, pending : SUBSET Nat]

MigrationTyped ==
    /\ lock \in Runners \cup {NoOne, Orphan}
    /\ tx \in [version : Nat, command : Commands]
    /\ recorded \subseteq Nat
    /\ runner \in [Runners -> RunState]

\* The recorded versions are the first n.
Contiguous == \E n \in Nat : recorded = 1..n

\* An open transaction adds the next version or removes the last one.
TxFits ==
    \/ tx = NoTx
    \/ tx.version # 0 /\ tx.command = "up" /\ recorded = 1..(tx.version - 1)
    \/ tx.version # 0 /\ tx.command = "down" /\ recorded = 1..tx.version

\* It belongs to the lock's holder, or to the session one left behind.
TxIsHeld ==
    tx # NoTx => lock = Orphan \/ \E r \in Runners : lock = r /\ runner[r].step = "commit"

\* What the Go runner has not looked up yet are its last files.
GoPending(r) ==
    \E k \in 1..(runner[r].files + 1) :
        runner[r].pending = k..runner[r].files /\ 1..(k - 1) \subseteq recorded

\* The list of a Node run is exact.
NodePending(r) ==
    \/ runner[r].command = "up" /\ runner[r].pending = 1..runner[r].files \ recorded
    \/ runner[r].command = "down" /\ recorded # {} /\ runner[r].pending = {Max(recorded)}

RunInv(r) ==
    /\ runner[r].step \in Holding => lock = r
    /\ r \in GoRunners => runner[r].command = "up" /\ runner[r].step # "read"
    /\ r \notin GoRunners => runner[r].step # "exists"
    /\ runner[r].step = "commit" =>
           tx # NoTx /\ tx.command = runner[r].command /\ tx.version = Min(runner[r].pending)
    /\ runner[r].step \in {"apply", "commit"} =>
           /\ runner[r].pending # {}
           /\ r \in GoRunners => GoPending(r) /\ Min(runner[r].pending) \notin recorded
           /\ r \notin GoRunners => NodePending(r)
    /\ runner[r].step = "exists" => GoPending(r)
    /\ runner[r].step \in {"unlock", "ended"} /\ runner[r].command = "up" =>
           1..runner[r].files \subseteq recorded \cup reverted

MigrationInv ==
    /\ MigrationTyped
    /\ Contiguous
    /\ TxFits
    /\ TxIsHeld
    /\ \A r \in Runners : RunInv(r)

\* The first and the last of the versions from a to b.
LEMMA IntervalEnds ==
  ASSUME NEW a \in Int, NEW b \in Int, a <= b
  PROVE  Min(a..b) = a /\ Max(a..b) = b
<1>1. a \in a..b /\ (\A y \in a..b : a <= y) /\ (\A x \in a..b : (\A y \in a..b : x <= y) => x = a)
  OBVIOUS
<1>2. b \in a..b /\ (\A y \in a..b : b >= y) /\ (\A x \in a..b : (\A y \in a..b : x >= y) => x = b)
  OBVIOUS
<1>3. Min(a..b) = a
  BY <1>1, Zenon DEF Min
<1>4. Max(a..b) = b
  BY <1>2, Zenon DEF Max
<1> QED BY <1>3, <1>4

\* A run that does not move is not disturbed: if it holds the lock nothing it
\* relies on changes, and the versions applied or reverted only grow.
LEMMA RunUndisturbed ==
  ASSUME NEW q \in Runners, RunInv(q), runner'[q] = runner[q],
         runner[q].step \in Holding => UNCHANGED <<lock, tx, recorded>>,
         recorded \cup reverted \subseteq recorded' \cup reverted'
  PROVE  RunInv(q)'
<1>1. CASE runner[q].step \in Holding
  <2>1. GoPending(q)' = GoPending(q) /\ NodePending(q)' = NodePending(q)
    BY <1>1 DEF GoPending, NodePending
  <2> QED BY <1>1, <2>1 DEF RunInv, Holding
<1>2. CASE runner[q].step \notin Holding
  BY <1>2 DEF RunInv, Holding
<1> QED BY <1>1, <1>2

\* Only the holder is between lock and unlock.
LEMMA OneHolder ==
  ASSUME MigrationInv, NEW r \in Runners, runner[r].step \in Holding
  PROVE  lock = r /\ \A q \in Runners \ {r} : runner[q].step \notin Holding
  BY DEF MigrationInv, RunInv

\* While nobody, or the session of a dead process, has the lock no run is under it.
LEMMA NoHolder ==
  ASSUME MigrationInv, lock \in {NoOne, Orphan}
  PROVE  \A q \in Runners : runner[q].step \notin Holding
  BY SessionNames DEF MigrationInv, RunInv

\* What applying or reverting the n-th version does to a gapless set of versions.
LEMMA IntervalSteps ==
  ASSUME NEW n \in Nat \ {0}
  PROVE  (1..(n - 1)) \cup {n} = 1..n /\ (1..n) \ {n} = 1..(n - 1)
  OBVIOUS

\* COMMIT keeps the recorded versions without a gap.
LEMMA CommittedFits ==
  ASSUME MigrationTyped, TxFits, tx # NoTx, Committed
  PROVE  /\ Contiguous' /\ recorded' \subseteq Nat
         /\ recorded \cup reverted \subseteq recorded' \cup reverted'
         /\ tx.command = "up" => recorded' = recorded \cup {tx.version}
<1>1. tx.version \in Nat
  BY DEF MigrationTyped
<1>2. CASE tx.command = "up"
  <2>1. recorded' = 1..tx.version
    <3>1. tx.version # 0 /\ recorded = 1..(tx.version - 1)
      BY <1>2 DEF TxFits
    <3>2. recorded' = recorded \cup {tx.version}
      BY <1>2 DEF Committed
    <3> QED BY <1>1, <3>1, <3>2, IntervalSteps
  <2> QED BY <1>1, <1>2, <2>1 DEF Committed, Contiguous
<1>3. CASE tx.command = "down"
  <2>1. recorded' = 1..(tx.version - 1) /\ tx.version - 1 \in Nat
    <3>1. tx.version # 0 /\ recorded = 1..tx.version
      BY <1>3 DEF TxFits, NoTx
    <3>2. recorded' = recorded \ {tx.version}
      BY <1>3 DEF Committed
    <3> QED BY <1>1, <3>1, <3>2, IntervalSteps
  <2> QED BY <1>1, <1>3, <2>1 DEF Committed, Contiguous
<1> QED BY <1>2, <1>3 DEF TxFits

\* Between its lock and its unlock a run is alone: a step of it leaves the
\* other runs as they are.
LEMMA OthersKeep ==
  ASSUME MigrationInv, NEW r \in Runners, runner[r].step \in Holding,
         \A q \in Runners \ {r} : runner'[q] = runner[q],
         recorded \cup reverted \subseteq recorded' \cup reverted'
  PROVE  \A q \in Runners \ {r} : RunInv(q)'
  BY OneHolder, RunUndisturbed DEF MigrationInv

\* A run that has no transaction open leaves none.
LEMMA NoOpenTx ==
  ASSUME MigrationInv, NEW r \in Runners, lock = r, runner[r].step # "commit"
  PROVE  tx = NoTx
  BY SessionNames DEF MigrationInv, TxIsHeld

\* A run that takes the lock finds no transaction open.
LEMMA AcquireLockKeeps ==
  ASSUME MigrationInv, NEW r \in Runners, AcquireLock(r)
  PROVE  MigrationInv'
<1>1. tx = NoTx
  BY SessionNames DEF AcquireLock, MigrationInv, TxIsHeld, NoOne, Orphan
<1>2. UNCHANGED <<tx, recorded, reverted>> /\ lock' = r
  BY DEF AcquireLock
<1>3. MigrationTyped'
  BY DEF AcquireLock, Goto, MigrationInv, MigrationTyped, RunState, Steps
<1>4. \A q \in Runners \ {r} : RunInv(q)'
  <2> SUFFICES ASSUME NEW q \in Runners \ {r} PROVE RunInv(q)'
    OBVIOUS
  <2>1. runner'[q] = runner[q]
    BY DEF AcquireLock, Goto, MigrationInv, MigrationTyped
  <2>2. runner[q].step \notin Holding
    BY NoHolder DEF AcquireLock
  <2> QED BY <1>2, <2>1, <2>2, RunUndisturbed DEF MigrationInv
<1>5. RunInv(r)'
  <2>1. runner[r] \in RunState
    BY DEF MigrationInv, MigrationTyped
  <2>2. CASE r \in GoRunners
    <3>1. runner'[r] = [runner[r] EXCEPT !.step = "exists", !.pending = 1..runner[r].files]
      BY <2>2 DEF AcquireLock, MigrationInv, MigrationTyped
    <3>2. /\ runner'[r].step = "exists" /\ runner'[r].command = runner[r].command
          /\ runner'[r].files = runner[r].files /\ runner'[r].pending = 1..runner[r].files
      BY <2>1, <3>1 DEF RunState
    <3>3. GoPending(r)'
      <4>1. runner[r].files \in Nat
        BY <2>1 DEF RunState
      <4>2. 1 \in 1..(runner[r].files + 1) /\ 1..(1 - 1) = {}
        BY <4>1
      <4> QED BY <3>2, <4>2 DEF GoPending
    <3> QED BY <1>2, <2>2, <3>2, <3>3 DEF RunInv, MigrationInv
  <2>3. CASE r \notin GoRunners
    <3>1. runner'[r] = [runner[r] EXCEPT !.step = "read"]
      BY <2>3 DEF AcquireLock, Goto, MigrationInv, MigrationTyped
    <3>2. runner'[r].step = "read"
      BY <2>1, <3>1 DEF RunState
    <3> QED BY <1>2, <2>3, <3>2 DEF RunInv
  <2> QED BY <2>2, <2>3
<1> QED
  BY <1>1, <1>2, <1>3, <1>4, <1>5 DEF MigrationInv, Contiguous, TxFits, TxIsHeld

\* A run that gives up, ends or is cut off; what it had open stays with the
\* session it leaves.
LEMMA QuietMoveKeeps ==
  ASSUME MigrationInv, NEW r \in Runners, NEW step \in {"failed", "ended"}, Goto(r, step),
         UNCHANGED <<tx, recorded, reverted>>,
         \/ lock' = lock /\ runner[r].step \notin Holding
         \/ lock = r /\ lock' = NoOne /\ runner[r].step # "commit"
         \/ lock = r /\ lock' = Orphan,
         step = "ended" => runner[r].step = "unlock"
  PROVE  MigrationInv'
<1>1. lock = r /\ runner[r].step # "commit" => tx = NoTx
  BY NoOpenTx
<1>2. runner' = [runner EXCEPT ![r].step = step]
  BY DEF Goto
<1>3. MigrationTyped'
  BY <1>2 DEF MigrationInv, MigrationTyped, RunState, Steps
<1>4. \A q \in Runners \ {r} : RunInv(q)'
  <2> SUFFICES ASSUME NEW q \in Runners \ {r} PROVE RunInv(q)'
    OBVIOUS
  <2>1. runner'[q] = runner[q]
    BY <1>2 DEF MigrationInv, MigrationTyped
  <2>2. runner[q].step \in Holding => lock = q
    BY DEF MigrationInv, RunInv
  <2> QED BY <2>1, <2>2, RunUndisturbed DEF MigrationInv
<1>5. RunInv(r)'
  <2>1. runner[r] \in RunState
    BY DEF MigrationInv, MigrationTyped
  <2>2. runner'[r] = [runner[r] EXCEPT !.step = step]
    BY <1>2 DEF MigrationInv, MigrationTyped
  <2>3. /\ runner'[r].step = step /\ runner'[r].command = runner[r].command
        /\ runner'[r].files = runner[r].files
    BY <2>1, <2>2 DEF RunState
  <2> QED BY <2>3 DEF RunInv, MigrationInv, Holding
<1>6. TxIsHeld'
  <2> SUFFICES ASSUME tx # NoTx, lock' # Orphan PROVE TxIsHeld'
    BY DEF TxIsHeld
  <2>1. lock' = lock /\ runner[r].step \notin Holding
    BY <1>1
  <2>2. \A q \in Runners \ {r} : runner'[q] = runner[q]
    BY <1>2 DEF MigrationInv, MigrationTyped
  <2>3. PICK q \in Runners : lock = q /\ runner[q].step = "commit"
    BY <2>1 DEF MigrationInv, TxIsHeld
  <2>4. q # r
    BY <2>1, <2>3 DEF Holding
  <2> QED BY <2>1, <2>2, <2>3, <2>4 DEF TxIsHeld
<1> QED
  BY <1>3, <1>4, <1>5, <1>6 DEF MigrationInv, Contiguous, TxFits

\* What a run reads as applied under the lock is what is recorded.
LEMMA ReadAppliedKeeps ==
  ASSUME MigrationInv, NEW r \in Runners, ReadApplied(r)
  PROVE  MigrationInv'
<1> DEFINE next == IF Pending(r) = {} THEN "unlock"
                   ELSE IF Pending(r) \subseteq 1..runner[r].files THEN "apply" ELSE "failing"
<1>1. UNCHANGED <<lock, tx, recorded, reverted>> /\ runner[r].step = "read"
  BY DEF ReadApplied, At
<1>2. lock = r /\ tx = NoTx
  BY <1>1, OneHolder, NoOpenTx DEF Holding
<1>3. runner[r] \in RunState /\ r \notin GoRunners
  BY <1>1 DEF MigrationInv, MigrationTyped, RunInv
<1>4. PICK n \in Nat : recorded = 1..n
  BY DEF MigrationInv, Contiguous
<1>5. n # 0 => Max(recorded) = n /\ recorded # {}
  <2> SUFFICES ASSUME n # 0 PROVE Max(recorded) = n /\ recorded # {}
    OBVIOUS
  <2>1. 1 \in Int /\ n \in Int /\ 1 <= n /\ 1 \in 1..n
    OBVIOUS
  <2>2. Max(1..n) = n
    BY <2>1, IntervalEnds
  <2> QED BY <1>4, <2>1, <2>2
<1>6. n = 0 => recorded = {}
  BY <1>4
<1>7. Pending(r) \subseteq Nat
  BY <1>3, <1>4, <1>5, <1>6 DEF Pending, RunState, Commands
<1>8. runner' = [runner EXCEPT ![r].pending = Pending(r), ![r].step = next]
  BY DEF ReadApplied
<1>9. runner'[r] = [runner[r] EXCEPT !.pending = Pending(r), !.step = next]
  BY <1>8 DEF MigrationInv, MigrationTyped
<1>10. /\ runner'[r].step = next /\ runner'[r].command = runner[r].command
       /\ runner'[r].files = runner[r].files /\ runner'[r].pending = Pending(r)
  BY <1>3, <1>9 DEF RunState
<1>11. next \in {"unlock", "apply", "failing"}
  OBVIOUS
<1> HIDE DEF next
<1>12. MigrationTyped'
  <2>1. runner'[r] \in RunState
    BY <1>3, <1>7, <1>9, <1>11 DEF RunState, Steps
  <2> QED BY <1>1, <1>8, <2>1 DEF MigrationInv, MigrationTyped
<1>13. \A q \in Runners \ {r} : RunInv(q)'
  <2>1. \A q \in Runners \ {r} : runner'[q] = runner[q]
    BY <1>8 DEF MigrationInv, MigrationTyped
  <2> QED BY <1>1, <2>1, OthersKeep DEF Holding
<1>14. RunInv(r)'
  <2>1. CASE next = "apply"
    <3>1. Pending(r) # {}
      BY <2>1 DEF next
    <3>2. runner[r].command \in {"up", "down"}
      BY <1>3, <3>1 DEF Pending, RunState, Commands
    <3>3. NodePending(r)'
      BY <1>1, <1>10, <3>1, <3>2 DEF NodePending, Pending
    <3> QED BY <1>1, <1>2, <1>3, <1>10, <2>1, <3>1, <3>3 DEF RunInv
  <2>2. CASE next = "unlock"
    <3>1. Pending(r) = {}
      BY <2>2 DEF next
    <3>2. runner[r].command = "up" => 1..runner[r].files \subseteq recorded
      BY <3>1 DEF Pending
    <3> QED BY <1>1, <1>2, <1>3, <1>10, <2>2, <3>2 DEF RunInv
  <2>3. CASE next = "failing"
    BY <1>1, <1>2, <1>3, <1>10, <2>3 DEF RunInv
  <2> QED BY <1>11, <2>1, <2>2, <2>3
<1> QED
  BY <1>1, <1>2, <1>12, <1>13, <1>14 DEF MigrationInv, Contiguous, TxFits, TxIsHeld

\* A version found recorded under the lock is no longer pending.
LEMMA CheckExistsKeeps ==
  ASSUME MigrationInv, NEW r \in Runners, CheckExists(r)
  PROVE  MigrationInv'
<1> DEFINE p == runner[r].pending
<1>1. UNCHANGED <<lock, tx, recorded, reverted>> /\ runner[r].step = "exists"
  BY DEF CheckExists, At
<1>2. lock = r /\ tx = NoTx
  BY <1>1, OneHolder, NoOpenTx DEF Holding
<1>3. runner[r] \in RunState /\ r \in GoRunners /\ GoPending(r) /\ runner[r].command = "up"
  BY <1>1 DEF MigrationInv, MigrationTyped, RunInv
<1>4. PICK k \in 1..(runner[r].files + 1) :
          p = k..runner[r].files /\ 1..(k - 1) \subseteq recorded
  BY <1>3 DEF GoPending
<1>5. runner[r].files \in Nat
  BY <1>3 DEF RunState
<1>6. p # {} => k <= runner[r].files /\ Min(p) = k
  BY <1>4, <1>5, IntervalEnds
<1>7. \A q \in Runners \ {r} : runner'[q] = runner[q]
  BY DEF CheckExists, Goto, MigrationInv, MigrationTyped
<1>8. \A q \in Runners \ {r} : RunInv(q)'
  BY <1>1, <1>7, OthersKeep DEF Holding
<1>9. CASE p = {}
  <2>1. runner' = [runner EXCEPT ![r].step = "unlock"]
    BY <1>9 DEF CheckExists, Goto
  <2>2. runner'[r] = [runner[r] EXCEPT !.step = "unlock"]
    BY <2>1 DEF MigrationInv, MigrationTyped
  <2>3. k = runner[r].files + 1
    BY <1>4, <1>5, <1>9
  <2>4. 1..runner[r].files \subseteq recorded
    BY <1>4, <1>5, <2>3
  <2>5. RunInv(r)'
    BY <1>1, <1>2, <1>3, <2>2, <2>4 DEF RunInv, RunState
  <2>6. MigrationTyped'
    BY <1>1, <2>1 DEF MigrationInv, MigrationTyped, RunState, Steps
  <2> QED BY <1>1, <1>2, <1>8, <2>5, <2>6 DEF MigrationInv, Contiguous, TxFits, TxIsHeld
<1>10. CASE p # {} /\ Min(p) \in recorded
  <2>1. runner' = [runner EXCEPT ![r].pending = p \ {Min(p)}]
    BY <1>10 DEF CheckExists
  <2>2. runner'[r] = [runner[r] EXCEPT !.pending = p \ {Min(p)}]
    BY <2>1 DEF MigrationInv, MigrationTyped
  <2>3. /\ runner'[r].step = "exists" /\ runner'[r].command = "up"
        /\ runner'[r].files = runner[r].files /\ runner'[r].pending = p \ {Min(p)}
    BY <1>1, <1>3, <2>2 DEF RunState
  <2>4. p \ {Min(p)} = (k + 1)..runner[r].files
    BY <1>4, <1>5, <1>6, <1>10
  <2>5. k + 1 \in 1..(runner[r].files + 1) /\ 1..((k + 1) - 1) \subseteq recorded
    BY <1>4, <1>5, <1>6, <1>10
  <2>6. GoPending(r)'
    BY <1>1, <2>3, <2>4, <2>5 DEF GoPending
  <2>7. RunInv(r)'
    BY <1>1, <1>2, <1>3, <2>3, <2>6 DEF RunInv
  <2>8. MigrationTyped'
    BY <1>1, <1>3, <2>1 DEF MigrationInv, MigrationTyped, RunState
  <2> QED BY <1>1, <1>2, <1>8, <2>7, <2>8 DEF MigrationInv, Contiguous, TxFits, TxIsHeld
<1>11. CASE p # {} /\ Min(p) \notin recorded
  <2>1. runner' = [runner EXCEPT ![r].step = "apply"]
    BY <1>11 DEF CheckExists, Goto
  <2>2. runner'[r] = [runner[r] EXCEPT !.step = "apply"]
    BY <2>1 DEF MigrationInv, MigrationTyped
  <2>3. /\ runner'[r].step = "apply" /\ runner'[r].command = "up"
        /\ runner'[r].files = runner[r].files /\ runner'[r].pending = p
    BY <1>3, <2>2 DEF RunState
  <2>4. GoPending(r)'
    BY <1>1, <1>3, <2>3 DEF GoPending
  <2>5. RunInv(r)'
    BY <1>1, <1>2, <1>3, <1>11, <2>3, <2>4 DEF RunInv
  <2>6. MigrationTyped'
    BY <1>1, <2>1 DEF MigrationInv, MigrationTyped, RunState, Steps
  <2> QED BY <1>1, <1>2, <1>8, <2>5, <2>6 DEF MigrationInv, Contiguous, TxFits, TxIsHeld
<1> QED BY <1>9, <1>10, <1>11

\* The version a run applies is the one after the recorded ones, the version it
\* reverts the last of them; what it has left to do are the versions after it.
LEMMA VersionAtHand ==
  ASSUME MigrationInv, NEW r \in Runners, runner[r].step \in {"apply", "commit"},
         NEW n \in Nat, recorded = 1..n
  PROVE  /\ runner[r].command = "up" =>
                /\ Min(runner[r].pending) = n + 1
                /\ n + 1 <= runner[r].files
                /\ runner[r].pending = (n + 1)..runner[r].files
         /\ runner[r].command # "up" =>
                /\ runner[r].command = "down" /\ r \notin GoRunners /\ n # 0
                /\ Min(runner[r].pending) = n /\ runner[r].pending = {n}
<1> DEFINE p == runner[r].pending
           files == runner[r].files
<1>1. files \in Nat /\ p # {}
  BY DEF MigrationInv, MigrationTyped, RunState, RunInv
<1>2. CASE r \in GoRunners
  <2>1. runner[r].command = "up" /\ GoPending(r) /\ Min(p) \notin recorded
    BY <1>2 DEF MigrationInv, RunInv
  <2>2. PICK k \in 1..(files + 1) : p = k..files /\ 1..(k - 1) \subseteq recorded
    BY <2>1 DEF GoPending
  <2>3. k <= files /\ k \in Int /\ files \in Int
    BY <1>1, <2>2
  <2>4. Min(p) = k
    BY <2>2, <2>3, IntervalEnds
  <2>5. k = n + 1
    <3>1. k > n
      BY <1>1, <2>1, <2>2, <2>3, <2>4
    <3>2. k - 1 <= n
      BY <1>1, <2>2, <2>3
    <3> QED BY <2>3, <3>1, <3>2
  <2> QED BY <2>1, <2>2, <2>3, <2>4, <2>5
<1>3. CASE r \notin GoRunners /\ runner[r].command = "up"
  <2>1. p = 1..files \ (1..n)
    BY <1>3 DEF MigrationInv, RunInv, NodePending
  <2>2. p = (n + 1)..files
    BY <1>1, <2>1
  <2>3. n + 1 <= files /\ n + 1 \in Int /\ files \in Int
    BY <1>1, <2>2
  <2>4. Min(p) = n + 1
    BY <2>2, <2>3, IntervalEnds
  <2> QED BY <1>3, <2>2, <2>3, <2>4
<1>4. CASE r \notin GoRunners /\ runner[r].command # "up"
  <2>1. runner[r].command = "down" /\ recorded # {} /\ p = {Max(recorded)}
    BY <1>4 DEF MigrationInv, RunInv, NodePending
  <2>2. 1 <= n /\ 1 \in Int /\ n \in Int
    BY <2>1
  <2>3. Max(1..n) = n
    BY <2>2, IntervalEnds
  <2>4. p = n..n
    BY <2>1, <2>2, <2>3
  <2>5. Min(p) = n
    <3>1. n <= n
      BY <2>2
    <3>2. Min(n..n) = n
      BY <2>2, <3>1, IntervalEnds
    <3> QED BY <2>4, <3>2
  <2> QED BY <1>4, <2>1, <2>2, <2>3, <2>5
<1> QED BY <1>2, <1>3, <1>4

\* A file is applied inside the transaction of the run that holds the lock.
LEMMA ApplyMigrationKeeps ==
  ASSUME MigrationInv, NEW r \in Runners, ApplyMigration(r)
  PROVE  MigrationInv'
<1> DEFINE v == Min(runner[r].pending)
<1>1. UNCHANGED <<lock, recorded, reverted>> /\ runner[r].step = "apply"
  BY DEF ApplyMigration, At
<1>2. lock = r /\ runner[r] \in RunState
  BY <1>1, OneHolder DEF Holding, MigrationInv, MigrationTyped
<1>3. PICK n \in Nat : recorded = 1..n
  BY DEF MigrationInv, Contiguous
<1>4. /\ runner[r].command = "up" => v = n + 1
      /\ runner[r].command # "up" => runner[r].command = "down" /\ v = n /\ n # 0
  BY <1>1, <1>3, VersionAtHand
<1>5. (runner[r].command = "up") <=> (v \notin recorded)
  BY <1>3, <1>4
<1>6. tx' = [version |-> v, command |-> runner[r].command] /\ Goto(r, "commit")
  BY <1>5 DEF ApplyMigration
<1>7. runner' = [runner EXCEPT ![r].step = "commit"]
  BY <1>6 DEF Goto
<1>8. runner'[r] = [runner[r] EXCEPT !.step = "commit"]
  BY <1>7 DEF MigrationInv, MigrationTyped
<1>9. /\ runner'[r].step = "commit" /\ runner'[r].command = runner[r].command
      /\ runner'[r].files = runner[r].files /\ runner'[r].pending = runner[r].pending
  BY <1>2, <1>8 DEF RunState
<1>10. v \in Nat \ {0} /\ tx'.version = v /\ tx'.command = runner[r].command
  BY <1>4, <1>6
<1>11. MigrationTyped'
  <2>1. tx' \in [version : Nat, command : Commands]
    BY <1>2, <1>6, <1>10 DEF RunState
  <2> QED BY <1>1, <1>7, <2>1 DEF MigrationInv, MigrationTyped, RunState, Steps
<1>12. TxFits'
  <2>1. runner[r].command = "up" => recorded = 1..(v - 1)
    BY <1>3, <1>4
  <2>2. runner[r].command # "up" => recorded = 1..v /\ runner[r].command = "down"
    BY <1>3, <1>4
  <2> QED BY <1>1, <1>10, <2>1, <2>2 DEF TxFits
<1>13. TxIsHeld'
  BY <1>1, <1>2, <1>9 DEF TxIsHeld
<1>14. \A q \in Runners \ {r} : RunInv(q)'
  <2>1. \A q \in Runners \ {r} : runner'[q] = runner[q]
    BY <1>7 DEF MigrationInv, MigrationTyped
  <2> QED BY <1>1, <2>1, OthersKeep DEF Holding
<1>15. RunInv(r)'
  <2>1. tx' # NoTx
    BY <1>10 DEF NoTx
  <2>2. GoPending(r)' = GoPending(r) /\ NodePending(r)' = NodePending(r)
    BY <1>1, <1>9 DEF GoPending, NodePending
  <2>3. RunInv(r)
    BY DEF MigrationInv
  <2> QED BY <1>1, <1>2, <1>9, <1>10, <2>1, <2>2, <2>3 DEF RunInv
<1> QED BY <1>1, <1>11, <1>12, <1>13, <1>14, <1>15 DEF MigrationInv, Contiguous

\* COMMIT records the version the run had next, and the run goes on to the one after.
LEMMA CommitKeeps ==
  ASSUME MigrationInv, NEW r \in Runners, Commit(r)
  PROVE  MigrationInv'
<1> DEFINE p == runner[r].pending
           files == runner[r].files
           rest == p \ {tx.version}
           next == IF r \in GoRunners THEN "exists" ELSE IF rest = {} THEN "unlock" ELSE "apply"
<1>1. lock' = lock /\ tx' = NoTx /\ Committed /\ runner[r].step = "commit"
  BY DEF Commit, At
<1>2. lock = r /\ runner[r] \in RunState /\ files \in Nat
  BY <1>1, OneHolder DEF Holding, MigrationInv, MigrationTyped, RunState
<1>3. tx # NoTx /\ tx.command = runner[r].command /\ tx.version = Min(p)
  BY <1>1 DEF MigrationInv, RunInv
<1>4. PICK n \in Nat : recorded = 1..n
  BY DEF MigrationInv, Contiguous
<1>5. /\ runner[r].command = "up" => tx.version = n + 1 /\ n + 1 <= files /\ p = (n + 1)..files
      /\ runner[r].command # "up" => r \notin GoRunners /\ p = {tx.version}
  BY <1>1, <1>3, <1>4, VersionAtHand
<1>6. /\ Contiguous' /\ recorded' \subseteq Nat
      /\ recorded \cup reverted \subseteq recorded' \cup reverted'
      /\ tx.command = "up" => recorded' = recorded \cup {tx.version}
  BY <1>1, <1>3, CommittedFits DEF MigrationInv
<1>7. runner' = [runner EXCEPT ![r].pending = rest, ![r].step = next]
  BY DEF Commit
<1>8. runner'[r] = [runner[r] EXCEPT !.pending = rest, !.step = next]
  BY <1>7 DEF MigrationInv, MigrationTyped
<1>9. /\ runner'[r].step = next /\ runner'[r].command = runner[r].command
      /\ runner'[r].files = files /\ runner'[r].pending = rest
  BY <1>2, <1>8 DEF RunState
<1>10. next \in {"exists", "unlock", "apply"}
  OBVIOUS
<1>11. rest \subseteq Nat
  BY <1>2 DEF RunState
<1> HIDE DEF next
<1>12. MigrationTyped'
  <2>1. runner'[r] \in RunState
    BY <1>2, <1>8, <1>10, <1>11 DEF RunState, Steps
  <2>2. tx' \in [version : Nat, command : Commands]
    BY <1>1 DEF NoTx, Commands
  <2> QED BY <1>1, <1>6, <1>7, <2>1, <2>2 DEF MigrationInv, MigrationTyped
<1>13. \A q \in Runners \ {r} : RunInv(q)'
  <2>1. \A q \in Runners \ {r} : runner'[q] = runner[q]
    BY <1>7 DEF MigrationInv, MigrationTyped
  <2> QED BY <1>1, <1>6, <2>1, OthersKeep DEF Holding
<1>14. RunInv(r)'
  <2>1. runner[r].command = "up" => rest = (n + 2)..files /\ recorded' = 1..(n + 1)
    <3> SUFFICES ASSUME runner[r].command = "up"
                 PROVE  rest = (n + 2)..files /\ recorded' = 1..(n + 1)
      OBVIOUS
    <3>1. recorded' = (1..n) \cup {n + 1} /\ rest = ((n + 1)..files) \ {n + 1}
      BY <1>3, <1>4, <1>5, <1>6
    <3> QED BY <1>2, <3>1
  <2>2. CASE r \in GoRunners
    <3>1. runner[r].command = "up" /\ next = "exists"
      BY <1>5, <2>2 DEF next
    <3>2. n + 2 \in 1..(files + 1) /\ 1..((n + 2) - 1) \subseteq recorded'
      BY <1>2, <1>5, <2>1, <3>1
    <3>3. GoPending(r)'
      BY <1>9, <2>1, <3>1, <3>2 DEF GoPending
    <3> QED BY <1>1, <1>2, <1>9, <2>2, <3>1, <3>3 DEF RunInv
  <2>3. CASE r \notin GoRunners /\ runner[r].command = "up"
    <3>1. rest = 1..files \ recorded'
      BY <1>2, <1>5, <2>1, <2>3
    <3>2. next = "unlock" => 1..files \subseteq recorded'
      BY <2>3, <3>1 DEF next
    <3>3. next = "apply" => rest # {}
      BY <2>3 DEF next
    <3>4. NodePending(r)'
      BY <1>9, <2>3, <3>1 DEF NodePending
    <3>5. next # "exists"
      BY <2>3 DEF next
    <3> QED BY <1>1, <1>2, <1>9, <1>10, <2>3, <3>2, <3>3, <3>4, <3>5 DEF RunInv
  <2>4. CASE r \notin GoRunners /\ runner[r].command # "up"
    <3>1. next = "unlock"
      BY <1>5, <2>4 DEF next
    <3> QED BY <1>1, <1>2, <1>9, <2>4, <3>1 DEF RunInv
  <2> QED BY <2>2, <2>3, <2>4
<1> QED
  BY <1>1, <1>6, <1>12, <1>13, <1>14 DEF MigrationInv, TxFits, TxIsHeld

\* The processes of some containers are killed.
LEMMA KilledKeeps ==
  ASSUME MigrationInv, NEW stopped, Killed(stopped), UNCHANGED <<tx, recorded, reverted>>
  PROVE  MigrationInv'
<1>1. runner' = [r \in Runners |-> IF r \in stopped THEN Idle ELSE runner[r]]
  BY DEF Killed
<1>2. Idle \in RunState
  BY DEF Idle, RunState, Steps, Commands
<1>3. MigrationTyped'
  BY <1>1, <1>2 DEF Killed, MigrationInv, MigrationTyped
<1>4. ASSUME NEW q \in Runners PROVE RunInv(q)'
  <2>1. CASE q \in stopped
    <3>1. runner'[q] = Idle
      BY <1>1, <2>1
    <3> QED BY <3>1 DEF Idle, RunInv, Holding
  <2>2. CASE q \notin stopped
    <3>1. runner'[q] = runner[q]
      BY <1>1, <2>2
    <3>2. runner[q].step \in Holding => lock = q
      BY DEF MigrationInv, RunInv
    <3>3. runner[q].step \in Holding => lock' = lock
      BY <2>2, <3>2 DEF Killed
    <3> QED BY <3>1, <3>3, RunUndisturbed DEF MigrationInv
  <2> QED BY <2>1, <2>2
<1>5. TxIsHeld'
  <2> SUFFICES ASSUME tx # NoTx, lock' # Orphan PROVE TxIsHeld'
    BY DEF TxIsHeld
  <2>1. lock' = lock /\ lock \notin stopped
    BY DEF Killed
  <2>2. PICK q \in Runners : lock = q /\ runner[q].step = "commit"
    BY <2>1 DEF MigrationInv, TxIsHeld
  <2> QED BY <1>1, <2>1, <2>2 DEF TxIsHeld
<1> QED BY <1>3, <1>4, <1>5 DEF MigrationInv, Contiguous, TxFits

\* A run that is over, or has not begun, begins or is reset.
LEMMA FreshRunKeeps ==
  ASSUME MigrationInv, NEW r \in Runners, runner[r].step \in {"idle", "ended", "failed"},
         NEW state \in RunState, runner' = [runner EXCEPT ![r] = state],
         state.step \in {"idle", "lock"}, r \in GoRunners => state.command = "up",
         UNCHANGED <<lock, tx, recorded, reverted>>
  PROVE  MigrationInv'
<1>1. MigrationTyped'
  BY DEF MigrationInv, MigrationTyped
<1>2. ASSUME NEW q \in Runners PROVE RunInv(q)'
  <2>1. CASE q = r
    <3>1. runner'[q] = state
      BY <2>1 DEF MigrationInv, MigrationTyped
    <3> QED BY <2>1, <3>1 DEF RunInv, Holding
  <2>2. CASE q # r
    <3>1. runner'[q] = runner[q]
      BY <2>2 DEF MigrationInv, MigrationTyped
    <3> QED BY <3>1, RunUndisturbed DEF MigrationInv
  <2> QED BY <2>1, <2>2
<1>3. TxIsHeld'
  <2> SUFFICES ASSUME tx # NoTx, lock # Orphan PROVE TxIsHeld'
    BY DEF TxIsHeld
  <2>1. PICK q \in Runners : lock = q /\ runner[q].step = "commit"
    BY DEF MigrationInv, TxIsHeld
  <2>2. runner'[q] = runner[q]
    BY <2>1 DEF MigrationInv, MigrationTyped
  <2> QED BY <2>1, <2>2 DEF TxIsHeld
<1> QED BY <1>1, <1>2, <1>3 DEF MigrationInv, Contiguous, TxFits

\* The server ends a dead process' session: its COMMIT was received or not, its lock is freed.
LEMMA OrphanEndsKeeps ==
  ASSUME MigrationInv, OrphanEnds
  PROVE  MigrationInv'
<1>1. lock = Orphan /\ lock' = NoOne /\ tx' = NoTx /\ runner' = runner
  BY DEF OrphanEnds
<1>2. /\ Contiguous' /\ recorded' \subseteq Nat
      /\ recorded \cup reverted \subseteq recorded' \cup reverted'
  <2>1. CASE UNCHANGED <<recorded, reverted>>
    BY <2>1 DEF MigrationInv, MigrationTyped, Contiguous
  <2>2. CASE tx # NoTx /\ Committed
    BY <2>2, CommittedFits DEF MigrationInv
  <2> QED BY <2>1, <2>2 DEF OrphanEnds
<1>3. ASSUME NEW q \in Runners PROVE RunInv(q)'
  <2>1. runner[q].step \notin Holding
    BY <1>1, NoHolder
  <2> QED BY <1>1, <1>2, <2>1, RunUndisturbed DEF MigrationInv
<1>4. MigrationTyped'
  BY <1>1, <1>2 DEF MigrationInv, MigrationTyped, NoTx, Commands
<1> QED BY <1>1, <1>2, <1>3, <1>4 DEF MigrationInv, TxFits, TxIsHeld

\* Every step of a run, and every way it dies, keeps the migrations' invariant.
LEMMA MigrationStepKeeps ==
  ASSUME MigrationInv, MigrationStep
  PROVE  MigrationInv'
<1>1. CASE OrphanEnds
  BY <1>1, OrphanEndsKeeps
<1>2. ASSUME NEW r \in Runners, RunnerStep(r) \/ SqlFails(r) \/ SessionLost(r)
      PROVE  MigrationInv'
  <2>1. CASE AcquireLock(r)
    BY <2>1, AcquireLockKeeps
  <2>2. CASE LockDeadline(r)
    BY <2>2, QuietMoveKeeps DEF LockDeadline, At, Holding
  <2>3. CASE ReadApplied(r)
    BY <2>3, ReadAppliedKeeps
  <2>4. CASE CheckExists(r)
    BY <2>4, CheckExistsKeeps
  <2>5. CASE ApplyMigration(r)
    BY <2>5, ApplyMigrationKeeps
  <2>6. CASE Commit(r)
    BY <2>6, CommitKeeps
  <2>7. CASE Unlock(r)
    <3>1. lock = r
      BY <2>7, OneHolder DEF Unlock, Holding
    <3>2. CASE runner[r].step = "unlock"
      BY <2>7, <3>1, <3>2, QuietMoveKeeps DEF Unlock, At
    <3>3. CASE runner[r].step = "failing"
      BY <2>7, <3>1, <3>3, QuietMoveKeeps DEF Unlock, At
    <3> QED BY <2>7, <3>2, <3>3 DEF Unlock
  <2>8. CASE SqlFails(r)
    <3>1. /\ UNCHANGED <<lock, tx, recorded, reverted>> /\ runner[r].step = "apply"
          /\ runner' = [runner EXCEPT ![r].step = "failing"]
      BY <2>8 DEF SqlFails, At, Goto
    <3>2. lock = r /\ tx = NoTx
      BY <3>1, OneHolder, NoOpenTx DEF Holding
    <3>3. \A q \in Runners \ {r} : runner'[q] = runner[q]
      BY <3>1 DEF MigrationInv, MigrationTyped
    <3>4. \A q \in Runners \ {r} : RunInv(q)'
      BY <3>1, <3>3, OthersKeep DEF Holding
    <3>5. MigrationTyped'
      BY <3>1 DEF MigrationInv, MigrationTyped, RunState, Steps
    <3>6. runner'[r].step = "failing" /\ runner'[r].command = runner[r].command
      BY <3>1 DEF MigrationInv, MigrationTyped, RunState
    <3>7. RunInv(r)'
      BY <3>1, <3>2, <3>6 DEF MigrationInv, RunInv
    <3> QED
      BY <3>1, <3>2, <3>4, <3>5, <3>7 DEF MigrationInv, Contiguous, TxFits, TxIsHeld
  <2>9. CASE SessionLost(r)
    <3>1. CASE lock = r
      BY <2>9, <3>1, QuietMoveKeeps DEF SessionLost, Abandoned
    <3>2. CASE lock # r
      <4>1. runner[r].step \notin Holding
        BY <3>2 DEF MigrationInv, RunInv
      <4> QED BY <2>9, <3>2, <4>1, QuietMoveKeeps DEF SessionLost, Abandoned
    <3> QED BY <3>1, <3>2
  <2> QED BY <1>2, <2>1, <2>2, <2>3, <2>4, <2>5, <2>6, <2>7, <2>8, <2>9 DEF RunnerStep
<1> QED BY <1>1, <1>2 DEF MigrationStep

\* An empty database with no run satisfies it.
LEMMA MigrationsInitially == MigrationsInit => MigrationInv
<1> SUFFICES ASSUME MigrationsInit PROVE MigrationInv
  OBVIOUS
<1>1. MigrationTyped
  BY DEF MigrationsInit, MigrationTyped, Idle, RunState, Steps, Commands, NoTx
<1>2. Contiguous
  <2>1. 0 \in Nat /\ 1..0 = {}
    OBVIOUS
  <2> QED BY <2>1 DEF MigrationsInit, Contiguous
<1>3. \A r \in Runners : RunInv(r)
  BY DEF MigrationsInit, Idle, RunInv, Holding
<1> QED BY <1>1, <1>2, <1>3 DEF MigrationsInit, MigrationInv, TxFits, TxIsHeld

(***************************************************************************)
(* Containers and Go workers                                               *)
(***************************************************************************)

\* The candidate is in the release file, and no containers were removed.
Trying == {"pull", "up", "wait", "record", "restore", "remove"}

ScriptSteps == Trying \cup {"idle", "undo", "undoWait", "forget"}

Releases == [Services -> Int]

RolloutTyped ==
    /\ release \in Releases /\ previous \in Releases
    /\ container \in [Services ->
           [image : Nat, state : {"absent", "starting", "ready", "exited"}]]
    /\ deploy \in [step : ScriptSteps, selected : SUBSET Services, todo : SUBSET Services,
                   seen : SUBSET Services, backup : Releases]
    /\ goReady \subseteq GoRunners
    /\ proven \in [Services -> SUBSET Int]
    /\ strays \subseteq Services
    /\ tainted \in [Services -> SUBSET Int]

\* A container's run is of its image; what it finished stays finished.
ServiceInv(s) ==
    /\ container[s].state \in {"absent", "exited"} => runner[s].step = "idle"
    /\ container[s].state = "starting" /\ runner[s].step # "idle" =>
           runner[s].files = container[s].image /\ runner[s].command = "up"
    /\ container[s].state = "ready" => 1..container[s].image \subseteq recorded \cup reverted

ServingInv ==
    /\ \A s \in NodeRunners : ServiceInv(s)
    /\ \A r \in goReady : runner[r].step = "ended"

\* What is kept of serving containers says that they are migrated.
LEMMA ServingSuffices ==
  ASSUME MigrationInv, RolloutTyped, ServingInv
  PROVE  ServingIsMigrated
  BY DEF MigrationInv, RunInv, RolloutTyped, ServingInv, ServiceInv, ServingIsMigrated, Runners

\* What a migration step may change of a run and of the versions.
LEMMA MigrationStepFrame ==
  ASSUME MigrationInv, MigrationStep
  PROVE  /\ recorded \cup reverted \subseteq recorded' \cup reverted'
         /\ \A q \in Runners :
                /\ runner'[q].files = runner[q].files /\ runner'[q].command = runner[q].command
                /\ runner[q].step \in {"idle", "ended"} => runner'[q].step = runner[q].step
<1>1. CASE OrphanEnds
  <2>1. CASE UNCHANGED <<recorded, reverted>>
    BY <1>1, <2>1 DEF OrphanEnds
  <2>2. CASE tx # NoTx /\ Committed
    BY <1>1, <2>2, CommittedFits DEF MigrationInv, OrphanEnds
  <2> QED BY <1>1, <2>1, <2>2 DEF OrphanEnds
<1>2. ASSUME NEW r \in Runners, RunnerStep(r) \/ SqlFails(r) \/ SessionLost(r)
      PROVE  /\ recorded \cup reverted \subseteq recorded' \cup reverted'
             /\ \A q \in Runners :
                    /\ runner'[q].files = runner[q].files
                    /\ runner'[q].command = runner[q].command
                    /\ runner[q].step \in {"idle", "ended"} => runner'[q].step = runner[q].step
  <2>1. runner \in [Runners -> RunState]
    BY DEF MigrationInv, MigrationTyped
  <2>2. recorded \cup reverted \subseteq recorded' \cup reverted'
    <3>1. CASE Commit(r)
      <4>1. tx # NoTx /\ Committed
        BY <3>1 DEF Commit, At, MigrationInv, RunInv
      <4> QED BY <4>1, CommittedFits DEF MigrationInv
    <3>2. CASE ~Commit(r)
      BY <1>2, <3>2 DEF RunnerStep, AcquireLock, LockDeadline, ReadApplied, CheckExists,
         ApplyMigration, Unlock, SqlFails, SessionLost
    <3> QED BY <3>1, <3>2
  <2>3. runner[r].step \notin {"idle", "ended"}
    BY <1>2 DEF RunnerStep, AcquireLock, LockDeadline, ReadApplied, CheckExists,
       ApplyMigration, Commit, Unlock, SqlFails, SessionLost, At
  <2>4. ASSUME NEW step, NEW pending, runner' = [runner EXCEPT ![r].pending = pending, ![r].step = step]
        PROVE  \A q \in Runners :
                    /\ runner'[q].files = runner[q].files
                    /\ runner'[q].command = runner[q].command
                    /\ q # r => runner'[q] = runner[q]
    BY <2>1, <2>4 DEF RunState
  <2>5. \E step, pending : runner' = [runner EXCEPT ![r].pending = pending, ![r].step = step]
    <3>1. ASSUME NEW step, runner' = [runner EXCEPT ![r].step = step]
          PROVE  runner' = [runner EXCEPT ![r].pending = runner[r].pending, ![r].step = step]
      BY <2>1, <3>1 DEF RunState
    <3>2. ASSUME NEW pending, runner' = [runner EXCEPT ![r].pending = pending]
          PROVE  runner' = [runner EXCEPT ![r].pending = pending, ![r].step = runner[r].step]
      BY <2>1, <3>2 DEF RunState
    <3>3. ASSUME NEW step, NEW pending,
                 runner' = [runner EXCEPT ![r].step = step, ![r].pending = pending]
          PROVE  runner' = [runner EXCEPT ![r].pending = pending, ![r].step = step]
      BY <2>1, <3>3 DEF RunState
    <3>4. CASE AcquireLock(r)
      <4>1. CASE r \in GoRunners
        BY <3>3, <3>4, <4>1 DEF AcquireLock
      <4>2. CASE r \notin GoRunners
        BY <3>1, <3>4, <4>2 DEF AcquireLock, Goto
      <4> QED BY <4>1, <4>2
    <3>5. CASE ReadApplied(r)
      BY <3>5 DEF ReadApplied
    <3>6. CASE CheckExists(r)
      BY <3>1, <3>2, <3>6 DEF CheckExists, Goto
    <3>7. CASE Commit(r)
      BY <3>7 DEF Commit
    <3>8. CASE LockDeadline(r) \/ ApplyMigration(r) \/ Unlock(r) \/ SqlFails(r) \/ SessionLost(r)
      BY <3>1, <3>8 DEF LockDeadline, ApplyMigration, Unlock, SqlFails, SessionLost, Goto
    <3> QED BY <1>2, <3>4, <3>5, <3>6, <3>7, <3>8 DEF RunnerStep
  <2> QED BY <2>2, <2>3, <2>4, <2>5
<1> QED BY <1>1, <1>2 DEF MigrationStep

\* Containers stay true when neither they, their runs nor the versions change.
LEMMA ServingUndisturbed ==
  ASSUME ServingInv, UNCHANGED <<runner, container, goReady, recorded, reverted>>
  PROVE  ServingInv'
  BY DEF ServingInv, ServiceInv

\* Containers that are stopped, replaced or removed take their run with them.
LEMMA KilledServing ==
  ASSUME MigrationInv, RolloutTyped, ServingInv, NEW stopped \in SUBSET Services, Killed(stopped),
         UNCHANGED <<goReady, recorded, reverted>>,
         \A s \in Services :
             IF s \in stopped THEN container'[s].state \in {"absent", "exited", "starting"}
             ELSE container'[s] = container[s]
  PROVE  ServingInv'
<1>1. \A r \in Runners : runner'[r] = IF r \in stopped THEN Idle ELSE runner[r]
  BY DEF Killed
<1>2. ASSUME NEW s \in NodeRunners PROVE ServiceInv(s)'
  <2>1. s \in Runners /\ s \in Services
    BY RolloutAssumption DEF Runners
  <2>2. CASE s \in stopped
    <3>1. runner'[s].step = "idle"
      BY <1>1, <2>1, <2>2 DEF Idle
    <3> QED BY <2>1, <2>2, <3>1 DEF ServiceInv
  <2>3. CASE s \notin stopped
    <3>1. runner'[s] = runner[s] /\ container'[s] = container[s]
      BY <1>1, <2>1, <2>3
    <3> QED BY <3>1 DEF ServingInv, ServiceInv
  <2> QED BY <2>2, <2>3
<1>3. ASSUME NEW r \in goReady' PROVE runner'[r].step = "ended"
  <2>1. r \in GoRunners /\ r \in Runners /\ r \notin stopped
    BY RolloutAssumption DEF RolloutTyped, Runners
  <2> QED BY <1>1, <2>1 DEF ServingInv
<1> QED BY <1>2, <1>3 DEF ServingInv

\* A run begins or is reset, no container changes.
LEMMA FreshRunServing ==
  ASSUME MigrationInv, RolloutTyped, ServingInv, NEW r \in Runners, NEW state,
         runner' = [runner EXCEPT ![r] = state],
         UNCHANGED <<container, recorded, reverted>>,
         goReady' \subseteq goReady \ {r},
         r \in NodeRunners => /\ container[r].state = "starting"
                             /\ state.files = container[r].image /\ state.command = "up"
  PROVE  ServingInv'
<1>1. \A q \in Runners : runner'[q] = IF q = r THEN state ELSE runner[q]
  BY DEF MigrationInv, MigrationTyped
<1>2. ASSUME NEW s \in NodeRunners PROVE ServiceInv(s)'
  BY <1>1 DEF Runners, ServingInv, ServiceInv
<1>3. ASSUME NEW q \in goReady' PROVE runner'[q].step = "ended"
  BY <1>1 DEF Runners, ServingInv, RolloutTyped
<1> QED BY <1>2, <1>3 DEF ServingInv

\* A migration step under serving containers takes no version of theirs away.
LEMMA MigrationServing ==
  ASSUME MigrationInv, RolloutTyped, ServingInv, MigrationStep, UNCHANGED rolloutVars
  PROVE  ServingInv'
<1>1. UNCHANGED <<container, goReady>>
  BY DEF rolloutVars
<1>2. ASSUME NEW s \in NodeRunners PROVE ServiceInv(s)'
  <2>1. s \in Runners
    BY DEF Runners
  <2>2. /\ recorded \cup reverted \subseteq recorded' \cup reverted'
        /\ runner'[s].files = runner[s].files /\ runner'[s].command = runner[s].command
        /\ runner[s].step = "idle" => runner'[s].step = "idle"
    BY <2>1, MigrationStepFrame
  <2>3. ServiceInv(s)
    BY DEF ServingInv
  <2> QED BY <1>1, <2>2, <2>3 DEF ServiceInv
<1>3. ASSUME NEW r \in goReady PROVE runner'[r].step = "ended"
  <2>1. r \in Runners
    BY DEF RolloutTyped, Runners
  <2> QED BY <2>1, MigrationStepFrame DEF ServingInv
<1> QED BY <1>1, <1>2, <1>3 DEF ServingInv

\* A container that starts to serve ended its own migration run first.
LEMMA ContainersServing ==
  ASSUME MigrationInv, RolloutTyped, ServingInv, NEW s \in Services,
         ServiceStep(s) \/ ServiceCrashes(s)
  PROVE  MigrationInv' /\ ServingInv'
<1>1. CASE BeginMigrations(s)
  <2>1. /\ s \in NodeRunners /\ container[s].state = "starting" /\ runner[s].step = "idle"
        /\ runner' = [runner EXCEPT ![s] = Began(container[s].image, "up")]
        /\ UNCHANGED <<lock, tx, recorded, reverted, container, goReady>>
    BY <1>1 DEF BeginMigrations, At, rolloutVars
  <2>2. Began(container[s].image, "up") \in RunState
    BY DEF Began, RunState, Steps, Commands, RolloutTyped
  <2>3. s \in Runners /\ s \notin GoRunners
    BY <2>1, RunnersAreDistinct DEF Runners
  <2>4. MigrationInv'
    BY <2>1, <2>2, <2>3, FreshRunKeeps DEF Began
  <2>5. goReady' \subseteq goReady \ {s}
    BY <2>1, <2>3 DEF RolloutTyped
  <2>6. ServingInv'
    BY <2>1, <2>3, <2>5, FreshRunServing DEF Began
  <2> QED BY <2>4, <2>6
<1>2. CASE Listen(s) \/ Restart(s)
  <2>1. UNCHANGED <<lock, tx, recorded, reverted, runner, goReady>>
    BY <1>2 DEF Listen, Restart, migrationVars
  <2>2. MigrationInv'
    BY <2>1 DEF MigrationInv, MigrationTyped, Contiguous, TxFits, TxIsHeld, RunInv, GoPending,
       NodePending
  <2>3. \A t \in Services : /\ container'[t].image = container[t].image
                            /\ t # s => container'[t] = container[t]
    BY <1>2 DEF Listen, Restart, RolloutTyped
  <2>4. ASSUME NEW t \in NodeRunners PROVE ServiceInv(t)'
    <3>1. t \in Services /\ t \in Runners /\ ServiceInv(t)
      BY RolloutAssumption DEF Runners, ServingInv
    <3>2. CASE t # s
      BY <2>1, <2>3, <3>1, <3>2 DEF ServiceInv
    <3>3. CASE t = s /\ Restart(s)
      <4>1. container[s].state = "exited" /\ container'[s].state = "starting"
        BY <3>3 DEF Restart, RolloutTyped
      <4> QED BY <2>1, <2>3, <3>1, <3>3, <4>1 DEF ServiceInv
    <3>4. CASE t = s /\ Listen(s)
      <4>1. /\ container[s].state = "starting" /\ container'[s].state = "ready"
            /\ runner[s].step = "ended"
        BY <3>4 DEF Listen, At, RolloutTyped
      <4>2. runner[s].files = container[s].image /\ runner[s].command = "up"
        BY <3>1, <3>4, <4>1 DEF ServiceInv
      <4>3. 1..container[s].image \subseteq recorded \cup reverted
        BY <3>1, <3>4, <4>1, <4>2 DEF MigrationInv, RunInv
      <4> QED BY <2>1, <2>3, <3>4, <4>1, <4>3 DEF ServiceInv
    <3> QED BY <1>2, <3>2, <3>3, <3>4
  <2> QED BY <2>1, <2>2, <2>4 DEF ServingInv
<1>3. CASE BootstrapFails(s) \/ ServiceCrashes(s)
  <2>1. /\ Killed({s}) /\ UNCHANGED <<tx, recorded, reverted, goReady>>
        /\ container' = [container EXCEPT ![s].state = "exited"]
    BY <1>3 DEF BootstrapFails, ServiceCrashes
  <2>2. \A t \in Services :
            IF t \in {s} THEN container'[t].state \in {"absent", "exited", "starting"}
            ELSE container'[t] = container[t]
    BY <2>1 DEF RolloutTyped
  <2> QED BY <2>1, <2>2, KilledKeeps, KilledServing
<1> QED BY <1>1, <1>2, <1>3 DEF ServiceStep

\* So does a Go worker; an operator's command runs beside them.
LEMMA WorkersServing ==
  ASSUME MigrationInv, RolloutTyped, ServingInv,
         \/ \E r \in GoRunners : StartGoWorker(r) \/ GoWorkerReady(r) \/ GoBootstrapFails(r)
         \/ \E command \in Commands : RunCommand(command)
  PROVE  MigrationInv' /\ ServingInv'
<1>1. \A i \in Images, command \in Commands :
          Began(i, command) \in RunState /\ Began(i, command).step = "lock"
                                        /\ Began(i, command).command = command
  BY RunnersAreDistinct DEF Began, RunState, Steps, Images
<1>2. Idle \in RunState /\ Idle.step = "idle" /\ Idle.command = "up"
  BY DEF Idle, RunState, Steps, Commands
<1>3. \A r \in GoRunners \cup {Cli} : r \in Runners /\ r \notin NodeRunners
  BY RunnersAreDistinct DEF Runners
<1>4. ASSUME NEW r \in GoRunners, StartGoWorker(r) PROVE MigrationInv' /\ ServingInv'
  <2>1. /\ runner[r].step \in {"idle", "ended", "failed"} /\ goReady' = goReady \ {r}
        /\ UNCHANGED <<lock, tx, recorded, reverted, container>>
    BY <1>4 DEF StartGoWorker
  <2>2. PICK i \in Images : runner' = [runner EXCEPT ![r] = Began(i, "up")]
    BY <1>4 DEF StartGoWorker
  <2>3. MigrationInv'
    BY <1>1, <1>3, <2>1, <2>2, FreshRunKeeps DEF Commands
  <2>4. ServingInv'
    BY <1>3, <2>1, <2>2, FreshRunServing
  <2> QED BY <2>3, <2>4
<1>5. ASSUME NEW r \in GoRunners, GoBootstrapFails(r) PROVE MigrationInv' /\ ServingInv'
  <2>1. /\ runner[r].step = "ended" /\ goReady' = goReady /\ r \notin goReady
        /\ runner' = [runner EXCEPT ![r] = Idle]
        /\ UNCHANGED <<lock, tx, recorded, reverted, container>>
    BY <1>5 DEF GoBootstrapFails, At, rolloutVars
  <2>2. MigrationInv'
    BY <1>2, <1>3, <2>1, FreshRunKeeps
  <2>3. goReady' \subseteq goReady \ {r} /\ r \in Runners /\ r \notin NodeRunners
    BY <1>3, <2>1
  <2>4. ServingInv'
    BY <2>1, <2>3, FreshRunServing
  <2> QED BY <2>2, <2>4
<1>6. ASSUME NEW r \in GoRunners, GoWorkerReady(r) PROVE MigrationInv' /\ ServingInv'
  <2>1. /\ runner[r].step = "ended" /\ goReady' = goReady \cup {r}
        /\ UNCHANGED <<lock, tx, recorded, reverted, runner, container>>
    BY <1>6 DEF GoWorkerReady, At, migrationVars
  <2>2. MigrationInv'
    BY <2>1 DEF MigrationInv, MigrationTyped, Contiguous, TxFits, TxIsHeld, RunInv, GoPending,
       NodePending
  <2> QED BY <2>1, <2>2 DEF ServingInv, ServiceInv
<1>7. ASSUME NEW command \in Commands, RunCommand(command) PROVE MigrationInv' /\ ServingInv'
  <2>1. /\ runner[Cli].step \in {"idle", "ended", "failed"} /\ goReady' = goReady
        /\ UNCHANGED <<lock, tx, recorded, reverted, container>>
    BY <1>7 DEF RunCommand
  <2>2. PICK i \in Images : runner' = [runner EXCEPT ![Cli] = Began(i, command)]
    BY <1>7 DEF RunCommand
  <2>3. Cli \notin GoRunners /\ Cli \in Runners /\ Cli \notin goReady /\ Cli \notin NodeRunners
    BY RunnersAreDistinct DEF Runners, RolloutTyped
  <2>4. MigrationInv'
    BY <1>1, <2>1, <2>2, <2>3, FreshRunKeeps
  <2>5. ServingInv'
    BY <2>1, <2>2, <2>3, FreshRunServing
  <2> QED BY <2>4, <2>5
<1> QED BY <1>4, <1>5, <1>6, <1>7

(***************************************************************************)
(* deploy.sh                                                               *)
(***************************************************************************)

\* The container of s is the one of the release file, or has an excuse.
InPlace(s) == s \in strays \cup deploy.todo \/ container[s].image = release[s]

\* No script runs: what ReleaseIsProven says.
SettledOK ==
    \A s \in Services :
        /\ release[s] \in Known(s)
        /\ s \in strays \/ release = Truncated \/ container[s].image = release[s]

\* Every running script works on selected services and may go back to a backup
\* that was settled when it began.
BackupOK ==
    /\ \A s \in Services : deploy.backup[s] \in Known(s)
    /\ deploy.todo \subseteq deploy.selected
    /\ deploy.backup = NoRelease => deploy.selected = Services

\* The candidate differs from it only in the selected services, and the
\* containers follow the script service by service.
TryingOK ==
    /\ \A s \in Services \ deploy.selected : release[s] = deploy.backup[s]
    /\ \A s \in Services : InPlace(s)

\* The way back has a release file that is accounted for.
UndoOK ==
    \A s \in Services : release[s] \in Known(s) /\ (release = Truncated \/ InPlace(s))

\* Why ReleaseIsProven holds.
ReleaseInv ==
    /\ \A s \in Services : previous[s] \in Known(s)
    /\ deploy.step = "idle" => SettledOK
    /\ deploy.step # "idle" => BackupOK
    /\ deploy.step \in Trying => TryingOK
    /\ deploy.step \in {"undo", "undoWait"} => UndoOK
    /\ deploy.step \in {"wait", "record", "undoWait"} => deploy.todo = {}
    /\ deploy.step = "record" => \A s \in deploy.selected : release[s] \in proven[s]
    /\ deploy.step = "remove" => deploy.backup = NoRelease
    /\ deploy.step = "forget" =>
           /\ deploy.todo = Services
           /\ \A s \in Services : s \in strays \/ container[s].image = 0

\* Steps that change no image and nothing of the script.
LEMMA ReleaseUndisturbed ==
  ASSUME RolloutTyped, ReleaseInv, UNCHANGED <<release, previous, deploy, histories>>,
         \A s \in Services : container'[s].image = container[s].image
  PROVE  ReleaseInv'
<1>1. \A s \in Services : InPlace(s)' = InPlace(s) /\ Known(s)' = Known(s)
  BY DEF InPlace, Known, histories, NoRelease, Truncated
<1> QED
  BY <1>1 DEF ReleaseInv, SettledOK, BackupOK, TryingOK, UndoOK, histories, NoRelease, Truncated

\* What is accounted for stays accounted for when the histories grow.
LEMMA KnownGrows ==
  ASSUME \A s \in Services : proven[s] \subseteq proven'[s] /\ tainted[s] \subseteq tainted'[s]
  PROVE  \A s \in Services : Known(s) \subseteq Known(s)'
  BY DEF Known, NoRelease, Truncated

\* A candidate that stays is accounted for.
LEMMA CandidateIsKnown ==
  ASSUME RolloutTyped, CandidateStays, UNCHANGED proven
  PROVE  /\ tainted' \in [Services -> SUBSET Int]
         /\ \A s \in Services : Known(s) \subseteq Known(s)'
         /\ \A s \in deploy.selected : release[s] \in Known(s)'
<1>1. tainted' \in [Services -> SUBSET Int]
  BY DEF CandidateStays, RolloutTyped, Releases
<1>2. \A s \in Services : tainted[s] \subseteq tainted'[s]
  BY DEF CandidateStays
<1>3. \A s \in deploy.selected : release[s] \in proven'[s] \cup tainted'[s]
  BY DEF CandidateStays, RolloutTyped
<1> QED BY <1>1, <1>2, <1>3, KnownGrows DEF Known

\* main begins from a settled release.
LEMMA StartKeeps ==
  ASSUME RolloutTyped, ReleaseInv, NEW selected \in SUBSET Services, NEW i \in Images,
         StartDeploy(selected, i)
  PROVE  RolloutTyped' /\ ReleaseInv'
<1>1. /\ deploy.step = "idle" /\ UNCHANGED <<previous, container, goReady, proven, strays, tainted>>
      /\ (release = NoRelease /\ selected = Services) \/ Complete(release)
      /\ release' = [s \in Services |-> IF s \in selected THEN i ELSE release[s]]
      /\ deploy' = [step |-> "pull", selected |-> selected, todo |-> selected, seen |-> {},
                    backup |-> release]
  BY DEF StartDeploy, Script, Candidate, Kept, histories
<1>2. i \in Int /\ 0 \notin Images /\ -1 \notin Images
  BY RunnersAreDistinct DEF Images
<1>3. RolloutTyped'
  <2>1. release' \in Releases
    BY <1>1, <1>2 DEF RolloutTyped, Releases
  <2>2. deploy' \in [step : ScriptSteps, selected : SUBSET Services, todo : SUBSET Services,
                     seen : SUBSET Services, backup : Releases]
    BY <1>1 DEF RolloutTyped, ScriptSteps, Trying
  <2> QED BY <1>1, <2>1, <2>2 DEF RolloutTyped
<1>4. \A s \in Services : Known(s)' = Known(s)
  BY <1>1 DEF Known, NoRelease, Truncated
<1>5. BackupOK'
  <2>1. release = NoRelease => selected = Services
    <3>1. CASE Complete(release) /\ release = NoRelease
      BY <1>2, <3>1 DEF Complete, NoRelease
    <3> QED BY <1>1, <3>1
  <2>2. NoRelease' = NoRelease
    BY DEF NoRelease
  <2> QED BY <1>1, <1>4, <2>1, <2>2 DEF BackupOK, ReleaseInv, SettledOK
<1>6. TryingOK'
  <2>1. \A s \in Services \ selected : release'[s] = release[s]
    BY <1>1
  <2>2. ASSUME NEW s \in Services \ selected PROVE s \in strays \/ container[s].image = release[s]
    <3>1. release # Truncated
      BY <1>1, <1>2 DEF Complete, Truncated
    <3> QED BY <1>1, <3>1 DEF ReleaseInv, SettledOK
  <2> QED BY <1>1, <2>1, <2>2 DEF TryingOK, InPlace
<1> QED BY <1>1, <1>3, <1>4, <1>5, <1>6 DEF ReleaseInv, Trying

\* The steps before the way back that touch no container.
LEMMA ForwardKeeps ==
  ASSUME RolloutTyped, ReleaseInv,
         \/ Pull \/ HealthPassed \/ RecordPrevious
         \/ \E s \in Services : CheckHealthy(s)
  PROVE  RolloutTyped' /\ ReleaseInv'
<1>1. CASE Pull
  <2>1. /\ deploy.step = "pull" /\ deploy' = [deploy EXCEPT !.step = "up"]
        /\ UNCHANGED <<release, previous, container, goReady, proven, strays, tainted>>
    BY <1>1 DEF Pull, Script, Kept, histories
  <2>2. /\ deploy'.step = "up" /\ deploy'.selected = deploy.selected
        /\ deploy'.todo = deploy.todo /\ deploy'.backup = deploy.backup
    BY <2>1 DEF RolloutTyped
  <2>3. RolloutTyped'
    BY <2>1 DEF RolloutTyped, ScriptSteps, Trying
  <2>4. \A s \in Services : Known(s)' = Known(s) /\ InPlace(s)' = InPlace(s)
    BY <2>1, <2>2 DEF Known, InPlace, NoRelease, Truncated
  <2>5. ReleaseInv'
    BY <2>1, <2>2, <2>4 DEF ReleaseInv, BackupOK, TryingOK, Trying, NoRelease
  <2> QED BY <2>3, <2>5
<1>2. CASE HealthPassed
  <2>1. /\ deploy.step = "wait" /\ deploy' = [deploy EXCEPT !.step = "record"]
        /\ UNCHANGED <<release, previous, container, goReady, strays, tainted>>
        /\ proven' = [s \in Services |->
               IF s \in deploy.selected THEN proven[s] \cup {release[s]} ELSE proven[s]]
    BY <1>2 DEF HealthPassed, Script, Kept
  <2>2. /\ deploy'.step = "record" /\ deploy'.selected = deploy.selected
        /\ deploy'.todo = deploy.todo /\ deploy'.backup = deploy.backup
    BY <2>1 DEF RolloutTyped
  <2>3. RolloutTyped'
    <3>1. deploy' \in [step : ScriptSteps, selected : SUBSET Services, todo : SUBSET Services,
                       seen : SUBSET Services, backup : Releases]
      BY <2>1 DEF RolloutTyped, ScriptSteps, Trying
    <3>2. proven' \in [Services -> SUBSET Int]
      BY <2>1 DEF RolloutTyped, Releases
    <3> QED BY <2>1, <3>1, <3>2 DEF RolloutTyped
  <2>4. \A s \in Services : Known(s) \subseteq Known(s)'
    BY <2>1, KnownGrows
  <2>5. \A s \in Services : InPlace(s)' = InPlace(s)
    BY <2>1, <2>2 DEF InPlace
  <2>6. \A s \in deploy.selected : release[s] \in proven'[s]
    BY <2>1 DEF RolloutTyped
  <2>7. ReleaseInv'
    BY <2>1, <2>2, <2>4, <2>5, <2>6 DEF ReleaseInv, BackupOK, TryingOK, Trying, NoRelease
  <2> QED BY <2>3, <2>7
<1>3. CASE RecordPrevious
  <2>1. /\ deploy.step = "record" /\ previous' = deploy.backup /\ deploy' = NoDeploy
        /\ UNCHANGED <<release, container, goReady, proven, strays, tainted>>
    BY <1>3 DEF RecordPrevious, Script, histories
  <2>2. RolloutTyped'
    BY <2>1 DEF RolloutTyped, NoDeploy, NoRelease, ScriptSteps, Releases
  <2>3. deploy'.step = "idle"
    BY <2>1 DEF NoDeploy
  <2>4. \A s \in Services : Known(s)' = Known(s)
    BY <2>1 DEF Known, NoRelease, Truncated
  <2>5. \A s \in Services : release[s] \in Known(s)
    BY <2>1 DEF ReleaseInv, TryingOK, BackupOK, Known, Trying
  <2>6. SettledOK'
    BY <2>1, <2>4, <2>5 DEF SettledOK, ReleaseInv, TryingOK, InPlace, Trying
  <2>7. ReleaseInv'
    BY <2>1, <2>3, <2>4, <2>6 DEF ReleaseInv, BackupOK, Trying
  <2> QED BY <2>2, <2>7
<1>4. ASSUME NEW s \in Services, CheckHealthy(s) PROVE RolloutTyped' /\ ReleaseInv'
  <2>1. UNCHANGED <<release, previous, container, goReady, proven, strays, tainted>>
    BY <1>4 DEF CheckHealthy, Kept, histories
  <2>2. PICK seen \in SUBSET Services : deploy' = [deploy EXCEPT !.seen = seen]
    BY <1>4 DEF CheckHealthy, RolloutTyped
  <2>3. /\ deploy'.step = deploy.step /\ deploy'.selected = deploy.selected
        /\ deploy'.todo = deploy.todo /\ deploy'.backup = deploy.backup
    BY <2>2 DEF RolloutTyped
  <2>4. \A t \in Services : Known(t)' = Known(t) /\ InPlace(t)' = InPlace(t)
    BY <2>1, <2>3 DEF Known, InPlace, NoRelease, Truncated
  <2>5. ReleaseInv'
    BY <2>1, <2>3, <2>4
       DEF ReleaseInv, SettledOK, BackupOK, TryingOK, UndoOK, NoRelease, Truncated
  <2> QED BY <2>1, <2>2, <2>5 DEF RolloutTyped
<1> QED BY <1>1, <1>2, <1>3, <1>4

\* A failed command or an expired wait turns the script round.
LEMMA RollbackKeeps ==
  ASSUME RolloutTyped, ReleaseInv, CommandFails \/ HealthTimeout
  PROVE  RolloutTyped' /\ ReleaseInv'
<1>1. /\ deploy.step \in {"pull", "up", "wait", "record"} /\ Rollback
      /\ UNCHANGED <<release, container, goReady, proven, strays, tainted>>
  BY DEF CommandFails, HealthTimeout, Script, Kept, histories
<1>2. previous' \in {previous, Truncated}
  BY DEF CommandFails, HealthTimeout, Kept, CopyCutShort
<1> DEFINE next == IF deploy.backup # NoRelease THEN "restore" ELSE "remove"
<1>3. /\ deploy'.step = next /\ deploy'.selected = deploy.selected
      /\ deploy'.todo = deploy.todo /\ deploy'.backup = deploy.backup
  BY <1>1 DEF Rollback, RolloutTyped
<1>4. RolloutTyped'
  <2>1. previous' \in Releases
    BY <1>2 DEF RolloutTyped, Releases, Truncated
  <2>2. deploy' \in [step : ScriptSteps, selected : SUBSET Services, todo : SUBSET Services,
                     seen : SUBSET Services, backup : Releases]
    BY <1>1 DEF Rollback, RolloutTyped, ScriptSteps, Trying
  <2> QED BY <1>1, <2>1, <2>2 DEF RolloutTyped
<1>5. \A s \in Services : Known(s)' = Known(s) /\ InPlace(s)' = InPlace(s)
  BY <1>1, <1>3 DEF Known, InPlace, NoRelease, Truncated
<1>6. \A s \in Services : previous'[s] \in Known(s)
  BY <1>2 DEF ReleaseInv, Known
<1>7. BackupOK' /\ TryingOK'
  BY <1>1, <1>3, <1>5 DEF ReleaseInv, BackupOK, TryingOK, Trying, NoRelease
<1>8. (deploy.backup = NoRelease)' = (deploy.backup = NoRelease)
  BY <1>3 DEF NoRelease
<1> QED BY <1>3, <1>4, <1>5, <1>6, <1>7, <1>8 DEF ReleaseInv, Trying

\* The way back, where it touches no container: the copy of the backup succeeds
\* or not, compose up fails, the wait ends, the first release is forgotten.
LEMMA WayBackKeeps ==
  ASSUME RolloutTyped, ReleaseInv,
         RestoreRelease \/ RestoreFails \/ UndoFails \/ EndRollback \/ ForgetRelease
  PROVE  RolloutTyped' /\ ReleaseInv'
<1>1. CASE RestoreRelease \/ RestoreFails
  <2>1. /\ deploy.step = "restore"
        /\ deploy' = [deploy EXCEPT !.step = "undo", !.todo = deploy.selected]
        /\ UNCHANGED <<previous, container, goReady, proven, strays>>
    BY <1>1 DEF RestoreRelease, RestoreFails, Script, Kept, histories
  <2>2. /\ deploy'.step = "undo" /\ deploy'.selected = deploy.selected
        /\ deploy'.todo = deploy.selected /\ deploy'.backup = deploy.backup
    BY <2>1 DEF RolloutTyped
  <2>3. BackupOK /\ TryingOK
    BY <2>1 DEF ReleaseInv, Trying
  <2>4. /\ release' \in Releases /\ tainted' \in [Services -> SUBSET Int]
        /\ \A s \in Services : Known(s) \subseteq Known(s)' /\ release'[s] \in Known(s)'
        /\ \A s \in Services \ deploy.selected : release' = Truncated \/ release'[s] = release[s]
    <3>1. CASE RestoreRelease
      <4>1. release' = deploy.backup /\ UNCHANGED <<proven, tainted>>
        BY <3>1 DEF RestoreRelease, histories
      <4>2. \A s \in Services : Known(s)' = Known(s)
        BY <4>1 DEF Known, NoRelease, Truncated
      <4> QED BY <2>3, <4>1, <4>2 DEF BackupOK, TryingOK, RolloutTyped
    <3>2. CASE RestoreFails
      <4>1. release' \in {release, Truncated} /\ CandidateStays /\ UNCHANGED proven
        BY <3>2 DEF RestoreFails, CopyCutShort
      <4>2. release' \in Releases
        BY <4>1 DEF RolloutTyped, Releases, Truncated
      <4>3. \A s \in Services : release'[s] \in Known(s)'
        <5>1. ASSUME NEW s \in Services PROVE release[s] \in Known(s)'
          BY <2>3, <4>1, CandidateIsKnown DEF TryingOK, BackupOK
        <5>2. ASSUME NEW s \in Services PROVE Truncated[s] \in Known(s)'
          BY DEF Known, Truncated
        <5> QED BY <4>1, <5>1, <5>2
      <4> QED BY <4>1, <4>2, <4>3, CandidateIsKnown
    <3> QED BY <1>1, <3>1, <3>2
  <2>5. RolloutTyped'
    BY <2>1, <2>4 DEF RolloutTyped, ScriptSteps
  <2>6. UndoOK'
    <3>1. ASSUME NEW s \in Services, release' # Truncated PROVE InPlace(s)'
      BY <2>1, <2>2, <2>3, <2>4, <3>1 DEF InPlace, TryingOK, BackupOK
    <3>2. Truncated' = Truncated
      BY DEF Truncated
    <3> QED BY <2>4, <3>1, <3>2 DEF UndoOK
  <2>7. BackupOK'
    <3>1. NoRelease' = NoRelease
      BY DEF NoRelease
    <3> QED BY <2>2, <2>3, <2>4, <3>1 DEF BackupOK
  <2>8. \A s \in Services : previous'[s] \in Known(s)'
    BY <2>1, <2>4 DEF ReleaseInv
  <2> QED BY <2>2, <2>5, <2>6, <2>7, <2>8 DEF ReleaseInv, Trying
<1>2. CASE UndoFails
  <2>1. /\ deploy.step = "undo" /\ deploy' = [deploy EXCEPT !.step = "undoWait", !.todo = {}]
        /\ strays' = strays \cup deploy.todo
        /\ UNCHANGED <<release, previous, container, goReady, proven, tainted>>
    BY <1>2 DEF UndoFails, Script, Kept
  <2>2. /\ deploy'.step = "undoWait" /\ deploy'.selected = deploy.selected
        /\ deploy'.todo = {} /\ deploy'.backup = deploy.backup
    BY <2>1 DEF RolloutTyped
  <2>3. RolloutTyped'
    BY <2>1 DEF RolloutTyped, ScriptSteps
  <2>4. \A s \in Services : Known(s)' = Known(s) /\ (InPlace(s) => InPlace(s)')
    BY <2>1, <2>2 DEF Known, InPlace, NoRelease, Truncated
  <2>5. UndoOK'
    BY <2>1, <2>4 DEF ReleaseInv, UndoOK, Truncated
  <2>6. BackupOK'
    BY <2>1, <2>2, <2>4 DEF ReleaseInv, BackupOK, NoRelease
  <2> QED BY <2>1, <2>2, <2>3, <2>4, <2>5, <2>6 DEF ReleaseInv, Trying
<1>3. CASE EndRollback
  <2>1. /\ deploy.step = "undoWait" /\ deploy' = NoDeploy
        /\ UNCHANGED <<release, previous, container, goReady, proven, strays, tainted>>
    BY <1>3 DEF EndRollback, Script, Kept, histories
  <2>2. RolloutTyped'
    BY <2>1 DEF RolloutTyped, NoDeploy, NoRelease, ScriptSteps, Releases
  <2>3. deploy'.step = "idle"
    BY <2>1 DEF NoDeploy
  <2>4. \A s \in Services : Known(s)' = Known(s)
    BY <2>1 DEF Known, NoRelease, Truncated
  <2>5. SettledOK'
    BY <2>1, <2>4 DEF SettledOK, ReleaseInv, UndoOK, InPlace, Truncated
  <2> QED BY <2>1, <2>2, <2>3, <2>4, <2>5 DEF ReleaseInv, Trying
<1>4. CASE ForgetRelease
  <2>1. /\ deploy.step = "forget" /\ deploy' = NoDeploy /\ release' = NoRelease
        /\ UNCHANGED <<previous, container, goReady, proven, strays, tainted>>
    BY <1>4 DEF ForgetRelease, Script, Kept, histories
  <2>2. RolloutTyped'
    BY <2>1 DEF RolloutTyped, NoDeploy, NoRelease, ScriptSteps, Releases
  <2>3. deploy'.step = "idle"
    BY <2>1 DEF NoDeploy
  <2>4. \A s \in Services : Known(s)' = Known(s) /\ release'[s] \in Known(s) /\ release'[s] = 0
    BY <2>1 DEF Known, NoRelease, Truncated
  <2>5. SettledOK'
    BY <2>1, <2>4 DEF SettledOK, ReleaseInv
  <2> QED BY <2>1, <2>2, <2>3, <2>4, <2>5 DEF ReleaseInv, Trying
<1> QED BY <1>1, <1>2, <1>3, <1>4

\* The script ends anywhere: what it leaves undone is on record.
LEMMA EndsKeeps ==
  ASSUME RolloutTyped, ReleaseInv, ScriptEnds
  PROVE  RolloutTyped' /\ ReleaseInv'
<1>1. /\ deploy.step # "idle" /\ deploy' = NoDeploy /\ strays' = strays \cup deploy.todo
      /\ UNCHANGED <<release, previous, container, goReady, proven>>
  BY DEF ScriptEnds, Script, Kept
<1>2. deploy'.step = "idle"
  BY <1>1 DEF NoDeploy
<1>3. /\ tainted' \in [Services -> SUBSET Int]
      /\ \A s \in Services : Known(s) \subseteq Known(s)'
      /\ \A s \in Services : release[s] \in Known(s)'
  <2>1. CASE deploy.step \in {"undo", "undoWait"}
    <3>1. UNCHANGED tainted
      BY <2>1 DEF ScriptEnds
    <3>2. \A s \in Services : Known(s)' = Known(s)
      BY <1>1, <3>1 DEF Known, NoRelease, Truncated
    <3> QED BY <2>1, <3>1, <3>2 DEF ReleaseInv, UndoOK, RolloutTyped
  <2>2. CASE deploy.step \notin {"undo", "undoWait"}
    <3>1. CandidateStays
      BY <2>2 DEF ScriptEnds
    <3>2. ASSUME NEW s \in Services \ deploy.selected PROVE release[s] \in Known(s)
      <4>1. BackupOK
        BY <1>1 DEF ReleaseInv
      <4>2. deploy.step # "forget"
        BY <4>1 DEF ReleaseInv, BackupOK
      <4>3. TryingOK
        BY <1>1, <2>2, <4>2 DEF ReleaseInv, RolloutTyped, ScriptSteps
      <4> QED BY <4>1, <4>3 DEF TryingOK, BackupOK
    <3> QED BY <1>1, <3>1, <3>2, CandidateIsKnown
  <2> QED BY <2>1, <2>2
<1>4. RolloutTyped'
  BY <1>1, <1>3 DEF RolloutTyped, NoDeploy, NoRelease, ScriptSteps, Releases
<1>5. ASSUME NEW s \in Services
      PROVE  s \in strays' \/ release = Truncated \/ container[s].image = release[s]
  BY <1>1 DEF ReleaseInv, TryingOK, UndoOK, InPlace, RolloutTyped, ScriptSteps
<1>6. SettledOK'
  BY <1>1, <1>3, <1>5 DEF SettledOK, Truncated
<1>7. \A s \in Services : previous'[s] \in Known(s)'
  BY <1>1, <1>3 DEF ReleaseInv
<1> QED BY <1>2, <1>4, <1>6, <1>7 DEF ReleaseInv, Trying

\* compose up of one service, forward or back.
LEMMA UpKeeps ==
  ASSUME RolloutTyped, ReleaseInv, MigrationInv, ServingInv, NEW s \in Services, Up(s)
  PROVE  RolloutTyped' /\ ReleaseInv' /\ MigrationInv' /\ ServingInv'
<1> DEFINE rest == deploy.todo \ {s}
           next == IF rest # {} THEN deploy.step
                   ELSE IF deploy.step = "up" THEN "wait" ELSE "undoWait"
<1>1. /\ deploy.step \in {"up", "undo"} /\ s \in deploy.todo /\ Complete(release)
      /\ strays' = strays \ {s}
      /\ UNCHANGED <<tx, recorded, reverted, release, previous, goReady, proven, tainted>>
  BY DEF Up, Kept
<1>2. deploy' = [deploy EXCEPT !.todo = rest, !.step = next]
  BY DEF Up
<1>3. /\ deploy'.step = next /\ deploy'.todo = rest /\ deploy'.selected = deploy.selected
      /\ deploy'.backup = deploy.backup /\ deploy'.seen = deploy.seen
  BY <1>2 DEF RolloutTyped
<1>4. next \in ScriptSteps /\ rest \in SUBSET Services
  BY <1>1 DEF ScriptSteps, Trying, RolloutTyped
<1>5. /\ container' \in [Services -> [image : Nat, state : {"absent", "starting", "ready", "exited"}]]
      /\ container'[s].image = release[s]
      /\ \A t \in Services \ {s} : container'[t] = container[t]
      /\ MigrationInv' /\ ServingInv'
  <2>1. CASE container[s].image = release[s]
    <3>1. UNCHANGED <<container, lock, runner>>
      BY <2>1 DEF Up
    <3>2. MigrationInv'
      BY <1>1, <3>1 DEF MigrationInv, MigrationTyped, Contiguous, TxFits, TxIsHeld, RunInv,
         GoPending, NodePending
    <3> QED BY <1>1, <2>1, <3>1, <3>2, ServingUndisturbed DEF RolloutTyped
  <2>2. CASE container[s].image # release[s]
    <3>1. container' = [container EXCEPT ![s] = Starting(release[s])] /\ Killed({s})
      BY <2>2 DEF Up
    <3>2. \A t \in Services :
              IF t \in {s} THEN container'[t].state \in {"absent", "exited", "starting"}
              ELSE container'[t] = container[t]
      BY <3>1 DEF Starting, RolloutTyped
    <3>3. release[s] \in Nat
      BY <1>1, RunnersAreDistinct DEF Complete, Images
    <3>4. MigrationInv' /\ ServingInv'
      BY <1>1, <3>1, <3>2, KilledKeeps, KilledServing
    <3> QED BY <3>1, <3>3, <3>4 DEF Starting, RolloutTyped
  <2> QED BY <2>1, <2>2
<1>6. RolloutTyped'
  BY <1>1, <1>2, <1>4, <1>5 DEF RolloutTyped
<1>7. ReleaseInv'
  <2>1. \A t \in Services : Known(t)' = Known(t)
    BY <1>1 DEF Known, NoRelease, Truncated
  <2>2. ASSUME NEW t \in Services, InPlace(t) PROVE InPlace(t)'
    BY <1>1, <1>3, <1>5, <2>2 DEF InPlace
  <2>3. BackupOK'
    BY <1>1, <1>3, <2>1 DEF ReleaseInv, BackupOK, NoRelease
  <2>4. CASE deploy.step = "up"
    <3>1. deploy'.step \in {"up", "wait"} /\ (deploy'.step = "wait" => rest = {})
      BY <1>3, <2>4
    <3>2. TryingOK'
      BY <1>1, <1>3, <2>2, <2>4 DEF ReleaseInv, TryingOK, Trying
    <3> QED BY <1>1, <1>3, <2>1, <2>3, <3>1, <3>2 DEF ReleaseInv, Trying
  <2>5. CASE deploy.step = "undo"
    <3>1. deploy'.step \in {"undo", "undoWait"} /\ (deploy'.step = "undoWait" => rest = {})
      BY <1>3, <2>5
    <3>2. UndoOK'
      BY <1>1, <2>1, <2>2, <2>5 DEF ReleaseInv, UndoOK, Truncated
    <3> QED BY <1>1, <1>3, <2>1, <2>3, <3>1, <3>2 DEF ReleaseInv, Trying
  <2> QED BY <1>1, <2>4, <2>5
<1> QED BY <1>5, <1>6, <1>7

\* compose rm of the first candidate's containers, or of some of them.
LEMMA RemoveKeeps ==
  ASSUME RolloutTyped, ReleaseInv, MigrationInv, ServingInv, NEW removed \in SUBSET Services,
         RemoveContainers(removed)
  PROVE  RolloutTyped' /\ ReleaseInv' /\ MigrationInv' /\ ServingInv'
<1>1. /\ deploy.step = "remove" /\ Killed(removed)
      /\ deploy' = [deploy EXCEPT !.step = "forget", !.todo = deploy.selected]
      /\ container' = [s \in Services |-> IF s \in removed THEN NoContainer ELSE container[s]]
      /\ strays' = (strays \ removed) \cup (deploy.selected \ removed)
      /\ UNCHANGED <<tx, recorded, reverted, release, previous, goReady, proven, tainted>>
  BY DEF RemoveContainers, Script, Kept
<1>2. /\ deploy'.step = "forget" /\ deploy'.selected = deploy.selected
      /\ deploy'.todo = deploy.selected /\ deploy'.backup = deploy.backup
  BY <1>1 DEF RolloutTyped
<1>3. container' \in [Services -> [image : Nat, state : {"absent", "starting", "ready", "exited"}]]
  BY <1>1 DEF RolloutTyped, NoContainer
<1>4. RolloutTyped'
  BY <1>1, <1>3 DEF RolloutTyped, ScriptSteps
<1>5. ReleaseInv'
  <2>1. \A s \in Services : Known(s)' = Known(s)
    BY <1>1 DEF Known, NoRelease, Truncated
  <2>2. BackupOK /\ deploy.selected = Services
    BY <1>1 DEF ReleaseInv, BackupOK
  <2>3. BackupOK'
    BY <1>2, <2>1, <2>2 DEF BackupOK, NoRelease
  <2>4. \A s \in Services : s \in strays' \/ container'[s].image = 0
    BY <1>1, <2>2 DEF NoContainer
  <2> QED BY <1>1, <1>2, <2>1, <2>2, <2>3, <2>4 DEF ReleaseInv, Trying
<1>6. \A s \in Services :
          IF s \in removed THEN container'[s].state \in {"absent", "exited", "starting"}
          ELSE container'[s] = container[s]
  BY <1>1 DEF NoContainer
<1> QED BY <1>1, <1>4, <1>5, <1>6, KilledKeeps, KilledServing

(***************************************************************************)
(* The theorems                                                            *)
(***************************************************************************)

RolloutInv == MigrationInv /\ RolloutTyped /\ ServingInv /\ ReleaseInv

\* Nothing released, no container and no run satisfies the invariant.
LEMMA RolloutInitially == Init => RolloutInv
<1> SUFFICES ASSUME Init PROVE RolloutInv
  OBVIOUS
<1>1. MigrationInv
  BY MigrationsInitially DEF Init
<1>2. RolloutTyped
  BY DEF Init, RolloutTyped, NoRelease, NoContainer, NoDeploy, ScriptSteps, Releases
<1>3. ServingInv
  BY RolloutAssumption DEF Init, MigrationsInit, ServingInv, ServiceInv, NoContainer, Idle, Runners
<1>4. ReleaseInv
  BY DEF Init, ReleaseInv, SettledOK, Known, Trying, NoRelease, NoContainer, NoDeploy
<1> QED BY <1>1, <1>2, <1>3, <1>4 DEF RolloutInv

\* Every step of runs, containers, operator and script keeps it.
LEMMA RolloutStep ==
  ASSUME RolloutInv, [Next]_vars
  PROVE  RolloutInv'
<1> USE DEF RolloutInv
<1>1. CASE MigrationStep /\ UNCHANGED rolloutVars
  <2>1. RolloutTyped' /\ ReleaseInv'
    BY <1>1, ReleaseUndisturbed DEF rolloutVars, histories, RolloutTyped
  <2> QED BY <1>1, <2>1, MigrationStepKeeps, MigrationServing
<1>2. ASSUME NEW s \in Services, ServiceStep(s) \/ ServiceCrashes(s)
      PROVE  RolloutInv'
  <2>1. UNCHANGED <<release, previous, deploy, goReady, histories>>
    BY <1>2 DEF ServiceStep, BeginMigrations, Listen, BootstrapFails, Restart, ServiceCrashes,
       rolloutVars
  <2>2. container' = container \/ \E state \in {"ready", "exited", "starting"} :
            container' = [container EXCEPT ![s].state = state]
    BY <1>2 DEF ServiceStep, BeginMigrations, Listen, BootstrapFails, Restart, ServiceCrashes,
       rolloutVars
  <2>3. RolloutTyped' /\ \A t \in Services : container'[t].image = container[t].image
    BY <2>1, <2>2 DEF RolloutTyped, histories
  <2> QED BY <1>2, <2>1, <2>3, ContainersServing, ReleaseUndisturbed
<1>3. CASE \/ \E r \in GoRunners : StartGoWorker(r) \/ GoWorkerReady(r) \/ GoBootstrapFails(r)
           \/ \E command \in Commands : RunCommand(command)
  <2>1. UNCHANGED <<release, previous, container, deploy, histories>>
    BY <1>3 DEF StartGoWorker, GoWorkerReady, GoBootstrapFails, RunCommand, rolloutVars
  <2>2. goReady' \subseteq GoRunners
    BY <1>3 DEF StartGoWorker, GoWorkerReady, GoBootstrapFails, RunCommand, rolloutVars,
       RolloutTyped
  <2>3. RolloutTyped'
    BY <2>1, <2>2 DEF RolloutTyped, histories
  <2> QED BY <1>3, <2>1, <2>3, WorkersServing, ReleaseUndisturbed
<1>4. CASE \/ \E selected \in SUBSET Services, i \in Images : StartDeploy(selected, i)
           \/ Pull \/ HealthPassed \/ RecordPrevious \/ HealthTimeout \/ CommandFails
           \/ RestoreRelease \/ RestoreFails \/ UndoFails \/ EndRollback \/ ForgetRelease
           \/ ScriptEnds
           \/ \E s \in Services : CheckHealthy(s)
  <2>1. UNCHANGED <<lock, tx, recorded, reverted, runner, container, goReady>>
    BY <1>4 DEF StartDeploy, Pull, HealthPassed, RecordPrevious, HealthTimeout, CommandFails,
       RestoreRelease, RestoreFails, UndoFails, EndRollback, ForgetRelease, ScriptEnds,
       CheckHealthy, Kept, migrationVars
  <2>2. MigrationInv'
    BY <2>1 DEF MigrationInv, MigrationTyped, Contiguous, TxFits, TxIsHeld, RunInv, GoPending,
       NodePending
  <2>3. RolloutTyped' /\ ReleaseInv'
    BY <1>4, StartKeeps, ForwardKeeps, RollbackKeeps, WayBackKeeps, EndsKeeps
  <2> QED BY <2>1, <2>2, <2>3, ServingUndisturbed
<1>5. ASSUME NEW s \in Services, Up(s) PROVE RolloutInv'
  BY <1>5, UpKeeps
<1>6. ASSUME NEW removed \in SUBSET Services, RemoveContainers(removed) PROVE RolloutInv'
  BY <1>6, RemoveKeeps
<1>7. CASE UNCHANGED vars
  <2>1. UNCHANGED <<lock, tx, recorded, reverted, runner, container, goReady>>
    BY <1>7 DEF vars, migrationVars, rolloutVars
  <2>2. UNCHANGED <<release, previous, deploy, histories>>
    BY <1>7 DEF vars, rolloutVars
  <2>3. MigrationInv'
    BY <2>1 DEF MigrationInv, MigrationTyped, Contiguous, TxFits, TxIsHeld, RunInv, GoPending,
       NodePending
  <2>4. RolloutTyped'
    BY <2>1, <2>2 DEF RolloutTyped, histories
  <2> QED BY <2>1, <2>2, <2>3, <2>4, ServingUndisturbed, ReleaseUndisturbed
<1> QED
  BY <1>1, <1>2, <1>3, <1>4, <1>5, <1>6, <1>7 DEF Next, ScriptStep

\* Every reachable state of a rollout satisfies the inductive invariant.
LEMMA RolloutInvariant == Spec => []RolloutInv
  BY RolloutInitially, RolloutStep, PTL DEF Spec

\* However many processes migrate, die or lose their session, the versions a
\* run of migrate.ts or runner.go has left to apply are the missing ones, it
\* holds the lock while it applies them, and the recorded ones have no gap.
THEOREM PendingStaysCurrent == Spec => []PendingIsCurrent
<1>1. RolloutInv => PendingIsCurrent
  <2> SUFFICES ASSUME RolloutInv PROVE PendingIsCurrent
    OBVIOUS
  <2>1. ASSUME NEW r \in Runners
        PROVE  /\ runner[r].step \in {"apply", "commit"} => lock = r
               /\ (runner[r].step \in {"apply", "commit"} /\ runner[r].command = "up") =>
                      IF r \in GoRunners
                        THEN Min(runner[r].pending) \notin recorded
                        ELSE runner[r].pending = 1..runner[r].files \ recorded
    BY DEF RolloutInv, MigrationInv, RunInv, Holding, NodePending
  <2>2. \A v \in recorded : 1..v \subseteq recorded
    <3>1. PICK n \in Nat : recorded = 1..n
      BY DEF RolloutInv, MigrationInv, Contiguous
    <3> QED BY <3>1
  <2> QED BY <2>1, <2>2 DEF PendingIsCurrent
<1> QED BY <1>1, RolloutInvariant, PTL

\* Nothing answers a health check before the migrations of its image are in
\* the database, however containers are restarted and replaced.
THEOREM ServingStaysMigrated == Spec => []ServingIsMigrated
<1>1. RolloutInv => ServingIsMigrated
  BY ServingSuffices DEF RolloutInv
<1> QED BY <1>1, RolloutInvariant, PTL

\* For any number of deployments of any selections, and wherever a command, a copy
\* or the script itself fails: the release files of deploy.sh name images that
\* passed a health wait, or candidates of the services a script had selected
\* when it ended early or could not restore the file; the containers are those
\* of the release except where such a script left one behind.
THEOREM ReleaseStaysProven == Spec => []ReleaseIsProven
<1>1. RolloutInv => ReleaseIsProven
  BY DEF RolloutInv, ReleaseInv, SettledOK, ReleaseIsProven, Script
<1> QED BY <1>1, RolloutInvariant, PTL

=============================================================================
