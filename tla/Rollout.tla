------------------------------- MODULE Rollout -------------------------------
(***************************************************************************)
(* Deployment of the services and their start (deploy/dev/deploy.sh,        *)
(* deploy/dev/compose.yml, app/src/main.ts, app/src/worker.ts,              *)
(* worker/cmd/ai-worker/main.go).                                           *)
(*                                                                         *)
(* The script replaces the images of the selected services in the release  *)
(* file, brings their containers up, waits until they are healthy and puts *)
(* the old release file back when they are not.  A container runs the      *)
(* migrations of its image before it serves; Docker starts it again when   *)
(* it exits.  The Go worker is started outside this script and shares only *)
(* the database.                                                           *)
(*                                                                         *)
(* An image is a number: image i ships the migrations 1..i.                *)
(***************************************************************************)
EXTENDS Migrations

CONSTANTS
    Services,     \* the services of compose.yml; those in NodeRunners migrate
    Broken,       \* the images whose bootstrap fails after the migrations
    MaxDeploys,   \* bound: runs of deploy.sh
    MaxCommands   \* bound: operator's migration commands and Go worker starts

Images == 1..MaxVersion

ASSUME RolloutAssumption ==
    /\ NodeRunners \subseteq Services
    /\ GoRunners \cap Services = {} /\ Cli \notin Services
    /\ Broken \subseteq Images
    /\ MaxDeploys \in Nat /\ MaxCommands \in Nat

VARIABLES
    release,     \* RELEASE_FILE: the image of each service
    previous,    \* PREVIOUS_RELEASE_FILE
    container,   \* the container of each service
    deploy,      \* the running deploy.sh
    deploys,     \* number of deployments so far
    commands,    \* number of commands and Go starts so far
    goReady,     \* the Go workers whose /readyz answers 200
    proven,      \* history: the images of each service that passed a health wait
    strays,      \* history: the services whose container an unfinished script left behind
    tainted      \* history: the images one left in the release file that never were healthy

histories == <<proven, strays, tainted>>
rolloutVars == <<release, previous, container, deploy, deploys, commands, goReady, histories>>
vars == <<migrationVars, rolloutVars>>

\* No release file, and one that lacks images.
NoRelease == [s \in Services |-> 0]
Truncated == [s \in Services |-> -1]
NoContainer == [image |-> 0, state |-> "absent"]
Starting(i) == [image |-> i, state |-> "starting"]
NoDeploy == [step |-> "idle", selected |-> {}, todo |-> {}, seen |-> {}, backup |-> NoRelease]

Init ==
    /\ MigrationsInit
    /\ release = NoRelease
    /\ previous = NoRelease
    /\ container = [s \in Services |-> NoContainer]
    /\ deploy = NoDeploy
    /\ deploys = 0
    /\ commands = 0
    /\ goReady = {}
    /\ proven = [s \in Services |-> {}]
    /\ strays = {}
    /\ tainted = [s \in Services |-> {}]

----------------------------------------------------------------------------
(* Containers.                                                             *)

\* The processes of the containers in stopped are killed.
Killed(stopped) ==
    /\ lock' = IF lock \in stopped THEN Orphan ELSE lock
    /\ runner' = [r \in Runners |-> IF r \in stopped THEN Idle ELSE runner[r]]

\* runStartupMigrations is the first thing a migrating service does.
BeginMigrations(s) ==
    /\ s \in NodeRunners
    /\ container[s].state = "starting"
    /\ At(s, "idle")
    /\ runner' = [runner EXCEPT ![s] = Began(container[s].image, "up")]
    /\ UNCHANGED <<lock, tx, recorded, reverted, faults, rolloutVars>>

\* Mutant of Listen: the service listens while its migrations run.
ListenEarly(s) ==
    /\ container[s].state = "starting"
    /\ container[s].image \notin Broken
    /\ container' = [container EXCEPT ![s].state = "ready"]
    /\ UNCHANGED <<migrationVars, release, previous, deploy, deploys, commands, goReady, histories>>

\* bootstrapApi, bootstrapWorker: the rest of the bootstrap, and the listening
\* socket that the health check of compose.yml asks.
Listen(s) ==
    /\ container[s].state = "starting"
    /\ s \in NodeRunners => At(s, "ended")
    /\ container[s].image \notin Broken
    /\ container' = [container EXCEPT ![s].state = "ready"]
    /\ UNCHANGED <<migrationVars, release, previous, deploy, deploys, commands, goReady, histories>>

\* A bootstrap stage fails and the process exits.
BootstrapFails(s) ==
    /\ container[s].state = "starting"
    /\ \/ s \in NodeRunners /\ At(s, "failed")
       \/ container[s].image \in Broken /\ (s \in NodeRunners => At(s, "ended"))
    /\ container' = [container EXCEPT ![s].state = "exited"]
    /\ Killed({s})
    /\ UNCHANGED <<tx, recorded, reverted, faults>>
    /\ UNCHANGED <<release, previous, deploy, deploys, commands, goReady, histories>>

\* A serving process dies.
ServiceCrashes(s) ==
    /\ container[s].state = "ready"
    /\ Fault
    /\ container' = [container EXCEPT ![s].state = "exited"]
    /\ Killed({s})
    /\ UNCHANGED <<tx, recorded, reverted>>
    /\ UNCHANGED <<release, previous, deploy, deploys, commands, goReady, histories>>

\* restart: unless-stopped
Restart(s) ==
    /\ container[s].state = "exited"
    /\ container' = [container EXCEPT ![s].state = "starting"]
    /\ UNCHANGED <<migrationVars, release, previous, deploy, deploys, commands, goReady, histories>>

\* run of main.go: the Go worker starts, or starts again.  Its health server
\* comes up first and is not ready; then it asks for the migration lock.
StartGoWorker(r) ==
    /\ r \in GoRunners
    /\ runner[r].step \in {"idle", "ended", "failed"}
    /\ commands < MaxCommands
    /\ commands' = commands + 1
    /\ \E i \in Images : runner' = [runner EXCEPT ![r] = Began(i, "up")]
    /\ goReady' = goReady \ {r}
    /\ UNCHANGED <<lock, tx, recorded, reverted, faults>>
    /\ UNCHANGED <<release, previous, container, deploy, deploys, histories>>

\* The rest of run: the store, the bucket check and the consumer's loops, and
\* only then the flag that Server.handle reads for /readyz.
GoWorkerReady(r) ==
    /\ At(r, "ended")
    /\ r \notin goReady
    /\ goReady' = goReady \cup {r}
    /\ UNCHANGED <<migrationVars, release, previous, container, deploy, deploys, commands, histories>>

\* The database or the bucket does not answer: run returns a bootstrap failure
\* and the deferred Close takes the health server down.
GoBootstrapFails(r) ==
    /\ At(r, "ended")
    /\ r \notin goReady
    /\ Fault
    /\ runner' = [runner EXCEPT ![r] = Idle]
    /\ UNCHANGED <<lock, tx, recorded, reverted, rolloutVars>>

\* main of migrate.ts with the operator's command.
RunCommand(command) ==
    /\ runner[Cli].step \in {"idle", "ended", "failed"}
    /\ commands < MaxCommands
    /\ commands' = commands + 1
    /\ \E i \in Images : runner' = [runner EXCEPT ![Cli] = Began(i, command)]
    /\ UNCHANGED <<lock, tx, recorded, reverted, faults>>
    /\ UNCHANGED <<release, previous, container, deploy, deploys, goReady, histories>>

----------------------------------------------------------------------------
(* deploy.sh                                                               *)

Script(step) == deploy.step = step

Kept == <<previous, commands, goReady>>

\* require_complete_release: the three images are in the file.
Complete(file) == \A s \in Services : file[s] \in Images

\* The release as far as the script replaces it.
Candidate(selected, i) == [s \in Services |-> IF s \in selected THEN i ELSE release[s]]

\* main, up to the mv of the candidate over the release file: the lock file is
\* free, the first deployment selects every service, a later one keeps the
\* images of the services it does not select and needs a complete file.
StartDeploy(selected, i) ==
    /\ Script("idle")
    /\ deploys < MaxDeploys
    /\ selected # {}
    /\ (release = NoRelease /\ selected = Services) \/ Complete(release)
    /\ release' = Candidate(selected, i)
    /\ deploy' = [step |-> "pull", selected |-> selected, todo |-> selected, seen |-> {},
                  backup |-> release]
    /\ deploys' = deploys + 1
    /\ UNCHANGED <<migrationVars, container, Kept, histories>>

\* docker login, compose config and compose pull succeed.
Pull ==
    /\ Script("pull")
    /\ deploy' = [deploy EXCEPT !.step = "up"]
    /\ UNCHANGED <<migrationVars, release, container, deploys, Kept, histories>>

\* compose up -d for one of the services: a container of another image is
\* replaced, one of the same image is left alone.
Up(s) ==
    /\ deploy.step \in {"up", "undo"}
    /\ s \in deploy.todo
    /\ Complete(release)
    /\ LET rest == deploy.todo \ {s} IN
       deploy' = [deploy EXCEPT
           !.todo = rest,
           !.step = IF rest # {} THEN deploy.step
                    ELSE IF deploy.step = "up" THEN "wait" ELSE "undoWait"]
    /\ IF container[s].image = release[s]
         THEN UNCHANGED <<container, lock, runner>>
         ELSE /\ container' = [container EXCEPT ![s] = Starting(release[s])]
              /\ Killed({s})
    /\ strays' = strays \ {s}
    /\ UNCHANGED <<tx, recorded, reverted, faults, release, deploys, Kept, proven, tainted>>

\* One look of wait_for_healthy_services at a service: any service that is not
\* healthy restarts the round.
CheckHealthy(s) ==
    /\ Script("wait")
    /\ s \in deploy.selected \ deploy.seen
    /\ deploy' = [deploy EXCEPT !.seen =
           IF container[s].state = "ready" THEN @ \cup {s} ELSE {}]
    /\ UNCHANGED <<migrationVars, release, container, deploys, Kept, histories>>

\* The round found every selected service healthy.
HealthPassed ==
    /\ Script("wait")
    /\ deploy.seen = deploy.selected
    /\ proven' = [s \in Services |->
           IF s \in deploy.selected THEN proven[s] \cup {release[s]} ELSE proven[s]]
    /\ deploy' = [deploy EXCEPT !.step = "record"]
    /\ UNCHANGED <<migrationVars, release, container, deploys, Kept, strays, tainted>>

\* The old release becomes the previous one, or there is none.
RecordPrevious ==
    /\ Script("record")
    /\ previous' = deploy.backup
    /\ deploy' = NoDeploy
    /\ UNCHANGED <<migrationVars, release, container, deploys, commands, goReady, histories>>

\* rollback: with a backup, restore it; without one, remove what was started.
Rollback ==
    deploy' = [deploy EXCEPT
        !.step = IF deploy.backup # NoRelease THEN "restore" ELSE "remove", !.seen = {}]

\* HEALTH_TIMEOUT_SECONDS pass before the round is complete.
HealthTimeout ==
    /\ Script("wait")
    /\ deploy.seen # deploy.selected
    /\ Rollback
    /\ UNCHANGED <<migrationVars, release, container, deploys, Kept, histories>>

\* What cp or a redirection leaves when it cannot finish: the old file, or one
\* without all its lines.
CopyCutShort(file) == {file, Truncated}

\* A docker command, or the copy or removal of the previous release's file,
\* fails: trap on_failure ERR.
CommandFails ==
    /\ Fault
    /\ \/ deploy.step \in {"pull", "up"} /\ UNCHANGED previous
       \/ /\ Script("record")
          /\ previous' \in (IF deploy.backup # NoRelease THEN CopyCutShort(previous) ELSE {previous})
    /\ Rollback
    /\ UNCHANGED <<lock, tx, recorded, reverted, runner>>
    /\ UNCHANGED <<release, container, deploys, commands, goReady, histories>>

\* Mutant of RestoreRelease: the containers are brought up again, the file is not
\* put back.
RestoreNothing ==
    /\ Script("restore")
    /\ deploy' = [deploy EXCEPT !.step = "undo", !.todo = deploy.selected]
    /\ UNCHANGED <<migrationVars, release, container, deploys, Kept, histories>>

\* cp of the backup over the release file.
RestoreRelease ==
    /\ Script("restore")
    /\ release' = deploy.backup
    /\ deploy' = [deploy EXCEPT !.step = "undo", !.todo = deploy.selected]
    /\ UNCHANGED <<migrationVars, container, deploys, Kept, histories>>

\* The candidate stays in the release file, whether it ever was healthy or not.
CandidateStays ==
    tainted' = [s \in Services |->
        IF s \in deploy.selected THEN tainted[s] \cup ({release[s]} \ proven[s]) ELSE tainted[s]]

\* It fails.  errexit is off inside "rollback || true": the script goes on with
\* whatever the file now holds.
RestoreFails ==
    /\ Script("restore")
    /\ Fault
    /\ release' \in CopyCutShort(release)
    /\ CandidateStays
    /\ deploy' = [deploy EXCEPT !.step = "undo", !.todo = deploy.selected]
    /\ UNCHANGED <<lock, tx, recorded, reverted, runner>>
    /\ UNCHANGED <<container, deploys, Kept, proven, strays>>

\* compose up of the rollback fails, as it must with a file that lacks images;
\* the script goes on to the wait.
UndoFails ==
    /\ Script("undo")
    /\ IF Complete(release) THEN Fault ELSE UNCHANGED faults
    /\ deploy' = [deploy EXCEPT !.step = "undoWait", !.todo = {}]
    /\ strays' = strays \cup deploy.todo
    /\ UNCHANGED <<lock, tx, recorded, reverted, runner>>
    /\ UNCHANGED <<release, container, deploys, Kept, proven, tainted>>

\* The wait of a rollback ends, healthy or not.
EndRollback ==
    /\ Script("undoWait")
    /\ deploy' = NoDeploy
    /\ UNCHANGED <<migrationVars, release, container, deploys, Kept, histories>>

\* compose rm --stop --force, which may get only as far as some of them: its
\* failure is ignored.
RemoveContainers(removed) ==
    /\ Script("remove")
    /\ removed \subseteq deploy.selected
    /\ IF removed = deploy.selected THEN UNCHANGED faults ELSE Fault
    /\ deploy' = [deploy EXCEPT !.step = "forget", !.todo = deploy.selected]
    /\ container' = [s \in Services |-> IF s \in removed THEN NoContainer ELSE container[s]]
    /\ Killed(removed)
    /\ strays' = (strays \ removed) \cup (deploy.selected \ removed)
    /\ UNCHANGED <<tx, recorded, reverted, release, deploys, Kept, proven, tainted>>

\* rm -f of the release file.
ForgetRelease ==
    /\ Script("forget")
    /\ release' = NoRelease
    /\ deploy' = NoDeploy
    /\ UNCHANGED <<migrationVars, container, deploys, Kept, histories>>

\* The script is killed, with the host or the session it runs in, or its last rm
\* fails; the lock file is free again, the release file stays as it is.
ScriptEnds ==
    /\ ~Script("idle")
    /\ Fault
    /\ deploy' = NoDeploy
    /\ strays' = strays \cup deploy.todo
    /\ IF deploy.step \in {"undo", "undoWait"} THEN UNCHANGED tainted ELSE CandidateStays
    /\ UNCHANGED <<lock, tx, recorded, reverted, runner>>
    /\ UNCHANGED <<release, container, deploys, Kept, proven>>

----------------------------------------------------------------------------
ServiceStep(s) ==
    \/ BeginMigrations(s) \/ Listen(s) \/ BootstrapFails(s) \/ Restart(s)

ScriptStep ==
    \/ Pull \/ HealthPassed \/ RecordPrevious \/ HealthTimeout
    \/ RestoreRelease \/ RestoreFails \/ UndoFails \/ EndRollback \/ ForgetRelease
    \/ \E removed \in SUBSET Services : RemoveContainers(removed)
    \/ \E s \in Services : Up(s) \/ CheckHealthy(s)

Next ==
    \/ MigrationStep /\ UNCHANGED rolloutVars
    \/ \E s \in Services : ServiceStep(s) \/ ServiceCrashes(s)
    \/ \E r \in GoRunners : StartGoWorker(r) \/ GoWorkerReady(r) \/ GoBootstrapFails(r)
    \/ \E command \in Commands : RunCommand(command)
    \/ \E selected \in SUBSET Services, i \in Images : StartDeploy(selected, i)
    \/ ScriptStep \/ CommandFails \/ ScriptEnds

\* A process and the database server go on working; a process that asks for the
\* lock again and again, or waits in its queue, gets it at last: nobody else
\* holds it for long, and Docker delays the restarts of a failing container.
Fairness ==
    /\ WF_vars(OrphanEnds /\ UNCHANGED rolloutVars)
    /\ \A r \in Runners :
           /\ WF_vars(RunnerStep(r) /\ UNCHANGED rolloutVars)
           /\ SF_vars(AcquireLock(r) /\ UNCHANGED rolloutVars)
    /\ \A s \in Services : WF_vars(ServiceStep(s))

Spec == Init /\ [][Next]_vars /\ Fairness

----------------------------------------------------------------------------
\* A service that answers its health check, and a Go worker that says it is
\* ready, run on a database that has every migration their image ships, apart
\* from those an operator reverted since.
ServingIsMigrated ==
    /\ \A s \in NodeRunners :
           container[s].state = "ready" =>
               1..container[s].image \subseteq recorded \cup reverted
    /\ \A r \in goReady : 1..runner[r].files \subseteq recorded \cup reverted

\* What a release file may say of s: an image that passed a health wait, one that
\* an unfinished script left there, or nothing.
Known(s) == proven[s] \cup tainted[s] \cup {NoRelease[s], Truncated[s]}

\* Whatever sequence of deployments succeeded, failed and was rolled back, the
\* kept release, and when no script runs the release itself, name only images
\* that passed a health wait: a failed candidate is not what a later rollback
\* returns to.  The exceptions are the images that a script left in the release
\* file, of the services it selected and of no other, because it was killed, or
\* because the copy or the removal of its rollback failed.  And every container
\* is the one of the release, except where a script ended before it brought
\* that service up or a rollback's compose command failed, until a later
\* deployment selects that service.
ReleaseIsProven ==
    /\ \A s \in Services : previous[s] \in Known(s)
    /\ Script("idle") =>
           \A s \in Services :
               /\ release[s] \in Known(s)
               /\ s \in strays \/ release = Truncated \/ container[s].image = release[s]

\* A container whose image can start does start: whoever holds the migration
\* lock gives it up, dead or alive, and a service that missed its deadline is
\* started again until it gets its turn.
ServicesComeUp ==
    \A s \in Services :
        []<>(container[s].state \in {"ready", "absent"} \/ container[s].image \in Broken)
=============================================================================
