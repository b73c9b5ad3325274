------------------------------ MODULE Migrations ------------------------------
(***************************************************************************)
(* The tracked SQL migrations of the shared database                       *)
(* (app/src/database/migrate.ts, worker/internal/migrations/runner.go).     *)
(*                                                                         *)
(* API, Node worker, Go worker and the operator's command line each run    *)
(* the migrations of their own image against one database, serialised by   *)
(* one session-level advisory lock.  The Node runners poll for the lock    *)
(* until a deadline and read the applied versions once; the Go runner      *)
(* waits without a deadline and asks for each version.                     *)
(*                                                                         *)
(* A migration is its version; an image with `files` migrations ships the  *)
(* versions 1..files.  A client that dies leaves its database session      *)
(* behind until the server notices: that session keeps the lock, and its   *)
(* transaction may still commit.                                           *)
(***************************************************************************)
EXTENDS Naturals, FiniteSetsExt

CONSTANTS
    NodeRunners,   \* processes that run migrate.ts when they start
    GoRunners,     \* processes that run migrations.Run when they start
    Cli,           \* the operator's migrate.ts command line, a Node runner
    MaxVersion,    \* number of migrations of the newest image
    MaxFaults      \* bound: lost sessions, crashes and failed commands

ASSUME RunnersAreDistinct ==
    /\ NodeRunners \cap GoRunners = {}
    /\ Cli \notin NodeRunners \cup GoRunners
    /\ MaxVersion \in Nat \ {0} /\ MaxFaults \in Nat

Runners == NodeRunners \cup GoRunners \cup {Cli}
Versions == 1..MaxVersion
Commands == {"up", "down", "status"}

VARIABLES
    lock,       \* holder of the advisory lock
    tx,         \* the open migration transaction of the lock's holder
    recorded,   \* the versions of schema_migrations, whose SQL is in effect
    reverted,   \* the versions an operator took down and nobody reapplied
    runner,     \* the migration run of each process
    faults      \* number of faults so far

migrationVars == <<lock, tx, recorded, reverted, runner, faults>>

NoOne == "nobody"

\* The session of a client that is gone, still open on the server.
Orphan == "orphan"

ASSUME SessionNames == NoOne \notin Runners /\ Orphan \notin Runners

NoTx == [version |-> 0, command |-> "up"]

Idle == [step |-> "idle", files |-> 0, command |-> "up", pending |-> {}]

MigrationsInit ==
    /\ lock = NoOne
    /\ tx = NoTx
    /\ recorded = {}
    /\ reverted = {}
    /\ runner = [r \in Runners |-> Idle]
    /\ faults = 0

----------------------------------------------------------------------------
At(r, step) == runner[r].step = step
Goto(r, step) == runner' = [runner EXCEPT ![r].step = step]
Fault == faults < MaxFaults /\ faults' = faults + 1

\* A process connects and begins to ask for the lock.
Began(files, command) ==
    [step |-> "lock", files |-> files, command |-> command, pending |-> {}]

\* pg_try_advisory_lock answered true, or pg_advisory_lock returned.  The Go
\* runner then lists its files and looks every one of them up.
AcquireLock(r) ==
    /\ At(r, "lock")
    /\ lock = NoOne
    /\ lock' = r
    /\ IF r \in GoRunners
         THEN runner' = [runner EXCEPT ![r].step = "exists",
                                       ![r].pending = 1..runner[r].files]
         ELSE Goto(r, "read")
    /\ UNCHANGED <<tx, recorded, reverted, faults>>

\* Mutant of LockDeadline: the run goes on without the lock.
LockDeadlineIgnored(r) ==
    /\ At(r, "lock")
    /\ r \notin GoRunners
    /\ lock # NoOne
    /\ Goto(r, "read")
    /\ UNCHANGED <<lock, tx, recorded, reverted, faults>>

\* A Node runner that polled in vain until the deadline throws.
LockDeadline(r) ==
    /\ At(r, "lock")
    /\ r \notin GoRunners
    /\ lock # NoOne
    /\ Goto(r, "failed")
    /\ UNCHANGED <<lock, tx, recorded, reverted, faults>>

\* What a Node runner will do, from the versions it reads once.
Pending(r) ==
    CASE runner[r].command = "up"   -> 1..runner[r].files \ recorded
      [] runner[r].command = "down" -> IF recorded = {} THEN {} ELSE {Max(recorded)}
      [] OTHER                      -> {}

\* runUp, runDown or runStatus reads schema_migrations; the file of the version
\* to revert must exist.
ReadApplied(r) ==
    /\ At(r, "read")
    /\ runner' = [runner EXCEPT
           ![r].pending = Pending(r),
           ![r].step = IF Pending(r) = {} THEN "unlock"
                       ELSE IF Pending(r) \subseteq 1..runner[r].files THEN "apply"
                       ELSE "failing"]
    /\ UNCHANGED <<lock, tx, recorded, reverted, faults>>

\* The Go runner skips a version that is recorded.
CheckExists(r) ==
    /\ At(r, "exists")
    /\ LET p == runner[r].pending IN
       IF p = {} THEN Goto(r, "unlock")
       ELSE IF Min(p) \in recorded
         THEN runner' = [runner EXCEPT ![r].pending = p \ {Min(p)}]
         ELSE Goto(r, "apply")
    /\ UNCHANGED <<lock, tx, recorded, reverted, faults>>

\* BEGIN, the migration's SQL and its row of schema_migrations: creating what
\* exists or recording a version twice is an error, and the run rolls back.
ApplyMigration(r) ==
    LET v == Min(runner[r].pending)
        applicable == (runner[r].command = "up") <=> (v \notin recorded)
    IN
    /\ At(r, "apply")
    /\ IF applicable
         THEN tx' = [version |-> v, command |-> runner[r].command] /\ Goto(r, "commit")
         ELSE Goto(r, "failing") /\ UNCHANGED tx
    /\ UNCHANGED <<lock, recorded, reverted, faults>>

\* The effect of COMMIT.
Committed ==
    IF tx.command = "up"
      THEN /\ recorded' = recorded \cup {tx.version}
           /\ reverted' = reverted \ {tx.version}
      ELSE /\ recorded' = recorded \ {tx.version}
           /\ reverted' = reverted \cup {tx.version}

Commit(r) ==
    /\ At(r, "commit")
    /\ Committed
    /\ tx' = NoTx
    /\ LET rest == runner[r].pending \ {tx.version} IN
       runner' = [runner EXCEPT
           ![r].pending = rest,
           ![r].step = IF r \in GoRunners THEN "exists"
                       ELSE IF rest = {} THEN "unlock" ELSE "apply"]
    /\ UNCHANGED <<lock, faults>>

\* An error of the SQL itself: ROLLBACK, then out through the unlock.
SqlFails(r) ==
    /\ At(r, "apply")
    /\ Fault
    /\ Goto(r, "failing")
    /\ UNCHANGED <<lock, tx, recorded, reverted>>

\* Mutant of Unlock: the run ends with its session, and so the lock, kept.
UnlockNever(r) ==
    /\ runner[r].step \in {"unlock", "failing"}
    /\ Goto(r, IF At(r, "unlock") THEN "ended" ELSE "failed")
    /\ UNCHANGED <<lock, tx, recorded, reverted, faults>>

\* pg_advisory_unlock and the end of the connection.
Unlock(r) ==
    /\ runner[r].step \in {"unlock", "failing"}
    /\ lock' = NoOne
    /\ Goto(r, IF At(r, "unlock") THEN "ended" ELSE "failed")
    /\ UNCHANGED <<tx, recorded, reverted, faults>>

----------------------------------------------------------------------------
\* The client of r is gone: a lock it held stays with the session it left.
Abandoned(r) ==
    lock' = IF lock = r THEN Orphan ELSE lock

\* The connection breaks, or the deadline of a Node run destroys its socket.
SessionLost(r) ==
    /\ runner[r].step \notin {"idle", "ended", "failed"}
    /\ Fault
    /\ Abandoned(r)
    /\ Goto(r, "failed")
    /\ UNCHANGED <<tx, recorded, reverted>>

\* The server ends the session: a COMMIT it had received takes effect, any
\* other transaction is rolled back.
OrphanEnds ==
    /\ lock = Orphan
    /\ lock' = NoOne
    /\ tx' = NoTx
    /\ \/ UNCHANGED <<recorded, reverted>>
       \/ tx # NoTx /\ Committed
    /\ UNCHANGED <<runner, faults>>

RunnerStep(r) ==
    \/ AcquireLock(r) \/ LockDeadline(r)
    \/ ReadApplied(r) \/ CheckExists(r)
    \/ ApplyMigration(r) \/ Commit(r)
    \/ Unlock(r)

MigrationStep ==
    \/ \E r \in Runners : RunnerStep(r) \/ SqlFails(r) \/ SessionLost(r)
    \/ OrphanEnds

----------------------------------------------------------------------------
\* The list of pending migrations, read once by runUp, stays exact for as long
\* as the run uses it, whoever else starts, dies or commits late meanwhile: what
\* it will apply is what is missing, and what is recorded has no gap below it.
PendingIsCurrent ==
    /\ \A r \in Runners :
           /\ runner[r].step \in {"apply", "commit"} => lock = r
           /\ (runner[r].step \in {"apply", "commit"} /\ runner[r].command = "up") =>
                  IF r \in GoRunners
                    THEN Min(runner[r].pending) \notin recorded
                    ELSE runner[r].pending = 1..runner[r].files \ recorded
    /\ \A v \in recorded : 1..v \subseteq recorded
=============================================================================
