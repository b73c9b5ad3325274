---------------------------- MODULE NodeProcesses ----------------------------
(***************************************************************************)
(* Inside the Node processes, from the start to the exit.                  *)
(*                                                                         *)
(* The worker (app/src/worker.ts): the cycles of WorkerRunner or           *)
(* LegacyWorkerRunner, one after the other with a timer between them, the  *)
(* listener of WorkerHealthServer, and the shutdown that drains both.      *)
(*                                                                         *)
(* The API (app/src/main.ts): its bootstrap stages, and the internal TLS   *)
(* listener (app/src/internal-mtls-server.ts), which reads its key         *)
(* material again whenever the projected files change.                     *)
(*                                                                         *)
(* What a cycle does to the database is DocumentPipeline's; what the       *)
(* containers do around a process is Rollout's.                            *)
(***************************************************************************)
EXTENDS Configuration

CONSTANTS
    Configurations,   \* the settings the processes may be started with
    Clients,          \* connections to the worker's health port
    MaxMaterial,      \* bound: versions of the projected TLS material
    Damaged           \* the versions createSecureContext refuses

ASSUME ProcessAssumption ==
    /\ MaxMaterial \in Nat \ {0}
    /\ Damaged \subseteq 1..MaxMaterial

VARIABLES
    config,     \* the settings both processes run with
    worker,     \* phase of the worker process
    cycle,      \* activeRun: the pump of the cycle under way
    timer,      \* the runner's timer, with its delay
    first,      \* the bootstrap hook of the runner has returned
    health,     \* the health server
    sockets,    \* its open connections
    api,        \* phase of the API process
    disk,       \* version of the TLS files
    notice,     \* the watcher has a change to report
    debounce,   \* reloadTimer is set
    read,       \* version of the files when the read under way began, 0: none
    queued,     \* reloadQueued
    served,     \* version in the secure context, Mixed when files of two were read
    missed      \* history: nobody watched for the last change, or its read failed

workerVars == <<worker, cycle, timer, first, health, sockets>>
tlsVars == <<disk, notice, debounce, read, queued, served, missed>>
processVars == <<config, workerVars, api, tlsVars>>

Mixed == 0

ProcessInit ==
    /\ config \in Configurations
    /\ worker = "loading" /\ cycle = "none" /\ timer = "none" /\ first = FALSE
    /\ health = "off" /\ sockets = {}
    /\ api = "loading"
    /\ disk = 1 /\ notice = FALSE /\ debounce = FALSE /\ read = 0 /\ queued = FALSE
    /\ served = Mixed /\ missed = FALSE

(***************************************************************************)
(* The worker's bootstrap                                                  *)
(***************************************************************************)

\* bootstrapWorker: any other mode than this one loads the legacy module.
RelayOnly == config.executionMode = "relay-only"

\* The providers' constructors read their settings.
WorkerLoads ==
    /\ Database(config)
    /\ RelayOnly \/ (Storage(config) /\ LlmProvider(config))

\* The modules are loaded and the bootstrap hooks called: the runner's begins
\* its first cycle, the health server's asks for its port.  Both read the worker
\* settings first.
LoadWorker ==
    /\ worker = "loading"
    /\ IF WorkerLoads /\ Worker(config)
         THEN worker' = "starting" /\ cycle' = "forward"
         ELSE worker' = "exited" /\ UNCHANGED cycle
    /\ UNCHANGED <<config, timer, first, health, sockets, api, tlsVars>>

\* The bucket of onModuleInit is missing: the legacy module does not load.
BucketMissing ==
    /\ worker = "loading" /\ ~RelayOnly
    /\ worker' = "exited"
    /\ UNCHANGED <<config, cycle, timer, first, health, sockets, api, tlsVars>>

HealthListens ==
    /\ worker = "starting" /\ health = "off"
    /\ health' = "listening"
    /\ UNCHANGED <<config, worker, cycle, timer, first, sockets, api, tlsVars>>

\* The port is taken: the bootstrap is rejected and sets the exit code, but the
\* runner's timer keeps the process alive.
HealthListenFails ==
    /\ worker = "starting" /\ health = "off"
    /\ health' = "failed" /\ worker' = "failed"
    /\ UNCHANGED <<config, cycle, timer, first, sockets, api, tlsVars>>

\* createApplicationContext returns when every hook has: enableShutdownHooks.
WorkerUp ==
    /\ worker = "starting" /\ first /\ health = "listening"
    /\ worker' = "up"
    /\ UNCHANGED <<config, cycle, timer, first, health, sockets, api, tlsVars>>

(***************************************************************************)
(* run of WorkerRunner and LegacyWorkerRunner                              *)
(***************************************************************************)

\* The pump after this one: the legacy cycle polls jobs and requeues leases too.
NextPump ==
    CASE cycle = "forward" -> IF RelayOnly THEN "return" ELSE "jobs"
      [] cycle = "jobs"    -> "leases"
      [] cycle = "leases"  -> "return"

PumpEnds ==
    /\ cycle \in {"forward", "jobs", "leases"}
    /\ cycle' = NextPump
    /\ UNCHANGED <<config, worker, timer, first, health, sockets, api, tlsVars>>

\* MUTANT: the timer is set whether or not the process is stopping.
CycleEndsAlwaysArming(delay) ==
    /\ cycle' = "none" /\ first' = TRUE
    /\ timer' = delay
    /\ UNCHANGED <<config, worker, health, sockets, api, tlsVars>>

\* The active run is over: a stopping process sets no timer.
CycleEnds(delay) ==
    /\ cycle' = "none" /\ first' = TRUE
    /\ timer' = IF worker = "stopping" THEN "none" ELSE delay
    /\ UNCHANGED <<config, worker, health, sockets, api, tlsVars>>

CycleCompletes == cycle = "return" /\ CycleEnds("poll")
CycleFails == cycle # "none" /\ CycleEnds("backoff")

TimerFires ==
    /\ timer # "none"
    /\ timer' = "none"
    /\ cycle' = IF worker = "stopping" THEN cycle ELSE "forward"
    /\ UNCHANGED <<config, worker, first, health, sockets, api, tlsVars>>

(***************************************************************************)
(* Shutdown of the worker                                                  *)
(***************************************************************************)

\* SIGTERM calls both shutdown hooks: the runner's clears its timer and waits
\* for the active run, the health server's closes its listener.
StopWorker ==
    /\ worker = "up"
    /\ worker' = "stopping" /\ timer' = "none" /\ health' = "closing"
    /\ UNCHANGED <<config, cycle, first, sockets, api, tlsVars>>

\* A signal before enableShutdownHooks, or SIGKILL: nothing is drained.
KillWorker ==
    /\ worker \in {"loading", "starting", "failed", "up", "stopping"}
    /\ worker' = "killed" /\ cycle' = "none" /\ timer' = "none"
    /\ health' = "off" /\ sockets' = {}
    /\ UNCHANGED <<config, first, api, tlsVars>>

Connect(client) ==
    /\ health = "listening" /\ client \notin sockets
    /\ sockets' = sockets \cup {client}
    /\ UNCHANGED <<config, worker, cycle, timer, first, health, api, tlsVars>>

Disconnect(client) ==
    /\ client \in sockets
    /\ sockets' = sockets \ {client}
    /\ UNCHANGED <<config, worker, cycle, timer, first, health, api, tlsVars>>

\* server.close calls back once the last connection has ended.
HealthCloses ==
    /\ health = "closing" /\ sockets = {}
    /\ health' = "closed"
    /\ UNCHANGED <<config, worker, cycle, timer, first, sockets, api, tlsVars>>

\* WORKER_HEALTH_CLOSE_TIMEOUT_MS wins the race: the sockets are destroyed.
CloseTimeout ==
    /\ health = "closing"
    /\ health' = "closed" /\ sockets' = {}
    /\ UNCHANGED <<config, worker, cycle, timer, first, api, tlsVars>>

\* Both hooks have returned.
ExitWorker ==
    /\ worker = "stopping" /\ cycle = "none" /\ health = "closed"
    /\ worker' = "exited"
    /\ UNCHANGED <<config, cycle, timer, first, health, sockets, api, tlsVars>>

(***************************************************************************)
(* The API's bootstrap                                                     *)
(***************************************************************************)

\* The stage module-setup: Swagger is protected or not served.
ModuleSetup(c) == c.swagger => "absent" \notin {c.swaggerUsername, c.swaggerPassword}

\* nestjs-create, application-config and module-setup; then the TLS material is
\* read, if there is any.
LoadApi ==
    /\ api = "loading"
    /\ IF Database(config) /\ Storage(config) /\ Application(config) /\ ModuleSetup(config)
         THEN IF InternalMtlsEnabled(config)
                THEN api' = "reading" /\ read' = disk
                ELSE api' = "plain" /\ UNCHANGED read
         ELSE api' = "exited" /\ UNCHANGED read
    /\ UNCHANGED <<config, workerVars, disk, notice, debounce, queued, served, missed>>

(***************************************************************************)
(* createInternalMtlsServer                                                *)
(***************************************************************************)

\* What readTlsMaterial may return: the three files are opened one by one, so a
\* change in between mixes two versions.
Readable == IF read = disk THEN {disk} ELSE (read..disk) \cup {Mixed}

\* createSecureContext accepts it; a mixture may or may not match.
Acceptable(v) == v \notin Damaged

\* The server is created with what was read, and only then the directories are
\* watched.
StartTls(v) ==
    /\ api = "reading" /\ Acceptable(v)
    /\ api' = "listening" /\ read' = 0 /\ served' = v
    /\ missed' = (read # disk)
    /\ UNCHANGED <<config, workerVars, disk, notice, debounce, queued>>

\* A file is missing or the material refused: the stage internal-mtls fails.
StartTlsFails ==
    /\ api = "reading"
    /\ api' = "exited" /\ read' = 0
    /\ UNCHANGED <<config, workerVars, disk, notice, debounce, queued, served, missed>>

\* The projection swaps the files; a watcher notices.
SwapFiles ==
    /\ disk < MaxMaterial
    /\ disk' = disk + 1
    /\ notice' = (notice \/ api = "listening")
    /\ missed' = (missed /\ api # "listening")
    /\ UNCHANGED <<config, workerVars, api, debounce, read, queued, served>>

\* scheduleReload: every change sets the debounce timer anew.
ScheduleReload ==
    /\ notice
    /\ notice' = FALSE
    /\ debounce' = (debounce \/ api = "listening")
    /\ UNCHANGED <<config, workerVars, api, disk, read, queued, served, missed>>

\* MUTANT: a reload asked for during another one is dropped.
DebounceFiresOnce ==
    /\ debounce
    /\ debounce' = FALSE
    /\ read' = IF read = 0 THEN disk ELSE read
    /\ UNCHANGED <<config, workerVars, api, disk, notice, queued, served, missed>>

\* The debounce timer calls reload: one read at a time, one more remembered.
DebounceFires ==
    /\ debounce
    /\ debounce' = FALSE
    /\ IF read = 0 THEN read' = disk /\ UNCHANGED queued ELSE queued' = TRUE /\ UNCHANGED read
    /\ UNCHANGED <<config, workerVars, api, disk, notice, served, missed>>

\* The finally block of reload: a remembered reload begins, unless closed.
ReloadAgain ==
    /\ queued' = FALSE
    /\ read' = IF queued /\ api = "listening" THEN disk ELSE 0

\* reload resumes after its read: a context that can be built is served, unless
\* the server was closed meanwhile; one that cannot leaves the last good one.
Reload(v) ==
    /\ api # "reading" /\ read # 0
    /\ served' = IF Acceptable(v) /\ api = "listening" THEN v ELSE served
    /\ ReloadAgain
    /\ UNCHANGED <<config, workerVars, api, disk, notice, debounce, missed>>

\* The read fails, or a mixture is refused: the catch block leaves it to the
\* next change.
ReloadFails ==
    /\ api # "reading" /\ read # 0
    /\ missed' = (missed \/ read = disk)
    /\ ReloadAgain
    /\ UNCHANGED <<config, workerVars, api, disk, notice, debounce, served>>

\* close, when the API's HTTP server has closed: timer and watchers are gone.
CloseTls ==
    /\ api = "listening"
    /\ api' = "closed" /\ debounce' = FALSE /\ notice' = FALSE
    /\ UNCHANGED <<config, workerVars, disk, read, queued, served, missed>>

(***************************************************************************)
(* Specification                                                           *)
(***************************************************************************)

Cycle == PumpEnds \/ CycleCompletes \/ CycleFails

WorkerStep ==
    \/ LoadWorker \/ BucketMissing \/ HealthListens \/ HealthListenFails \/ WorkerUp
    \/ Cycle \/ TimerFires
    \/ StopWorker \/ KillWorker \/ HealthCloses \/ CloseTimeout \/ ExitWorker
    \/ \E client \in Clients : Connect(client) \/ Disconnect(client)

ApiStep ==
    \/ LoadApi \/ StartTlsFails \/ SwapFiles \/ ScheduleReload \/ DebounceFires
    \/ ReloadFails \/ CloseTls
    \/ \E v \in Readable : StartTls(v) \/ Reload(v)

ProcessNext == WorkerStep \/ ApiStep

\* Pumps end, by success or by failure: the assumption is that the database
\* answers or that its connection breaks, for the driver has no time limit of its
\* own configured.  Timers fire; a hook that may return does.  Clients, signals
\* and projections owe nothing.
ProcessFairness ==
    /\ WF_processVars(Cycle)
    /\ WF_processVars(CloseTimeout)
    /\ WF_processVars(ExitWorker)

ProcessSpec == ProcessInit /\ [][ProcessNext]_processVars /\ ProcessFairness

(***************************************************************************)
(* Properties                                                              *)
(***************************************************************************)

\* The worker at rest: no cycle, nothing that would start one, nobody connected.
AtRest == cycle = "none" /\ timer = "none" /\ sockets = {}

\* An orderly shutdown ends, whoever keeps a connection open and wherever the
\* cycle stands, and it ends with everything at rest for good: the active run is
\* drained and none follows it.
StopEnds == (worker = "stopping") ~> [](worker \in {"exited", "killed"} /\ AtRest)

\* Nothing about the TLS files is still on its way to the server.
Quiet == ~notice /\ ~debounce /\ read = 0 /\ ~queued

\* Whenever the TLS listener is quiet it serves the files that are on disk, or
\* these are damaged: no change is lost in the debounce, in a read under way or
\* in the one remembered reload.  A change during the very first read, before
\* anything watches, and a read that fails although nothing changed, are
\* excepted until the next change, which is what the code waits for then.
ServedIsCurrent ==
    api = "listening" /\ Quiet /\ ~missed => served = disk \/ disk \in Damaged

=============================================================================
