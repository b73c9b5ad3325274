-------------------------- MODULE NodeProcessProofs --------------------------
(***************************************************************************)
(* Proofs about NodeProcesses: what the TLS listener serves, and that a    *)
(* stopped worker is at rest.                                              *)
(***************************************************************************)
EXTENDS NodeProcesses, TLAPS

(***************************************************************************)
(* The TLS listener                                                        *)
(***************************************************************************)

TlsTyped ==
    /\ disk \in Nat \ {0}
    /\ read \in 0..disk
    /\ served \in 0..disk

TlsFlags ==
    notice \in BOOLEAN /\ debounce \in BOOLEAN /\ queued \in BOOLEAN /\ missed \in BOOLEAN

\* Only one read is under way at a time: what is served was there before it
\* began, so a read the files have overtaken began with them unserved.
OvertakenReadIsNews == read \notin {0, disk} => served # disk

\* Why ServedIsCurrent holds: a version that is not served is on its way, as a
\* notice, a debounce, a remembered reload or a read that began with it.
ChangeIsOnItsWay ==
    api = "listening" /\ ~missed =>
        \/ notice \/ debounce \/ queued
        \/ read = disk \/ served = disk \/ disk \in Damaged

TlsInv == TlsTyped /\ TlsFlags /\ OvertakenReadIsNews /\ ChangeIsOnItsWay

\* Before the listener starts no change is pending and no file has been read.
LEMMA TlsInitially == ProcessInit => TlsInv
<1>1. ProcessInit => TlsTyped /\ OvertakenReadIsNews
  BY DEF ProcessInit, TlsTyped, OvertakenReadIsNews, Mixed
<1>2. ProcessInit => TlsFlags /\ ChangeIsOnItsWay
  BY DEF ProcessInit, TlsFlags, ChangeIsOnItsWay
<1> QED BY <1>1, <1>2 DEF TlsInv

\* What a read may return lies between its beginning and now.
LEMMA ReadableRange ==
  ASSUME TlsTyped, NEW v \in Readable
  PROVE  v \in 0..disk /\ (read = disk => v = disk)
  BY DEF TlsTyped, Readable, Mixed

\* Every step of the process keeps what is pending of a change on its way.
LEMMA TlsStep ==
  ASSUME TlsInv, [ProcessNext]_processVars
  PROVE  TlsInv'
<1> USE DEF TlsInv
<1>1. CASE WorkerStep
  <2>1. UNCHANGED <<api, tlsVars>>
    BY <1>1 DEF WorkerStep, LoadWorker, BucketMissing, HealthListens, HealthListenFails,
       WorkerUp, Cycle, PumpEnds, CycleCompletes, CycleFails, CycleEnds, TimerFires,
       StopWorker, KillWorker, HealthCloses, CloseTimeout, ExitWorker, Connect, Disconnect
  <2> QED BY <2>1 DEF tlsVars, TlsTyped, TlsFlags, OvertakenReadIsNews, ChangeIsOnItsWay
<1>2. CASE LoadApi
  <2>1. TlsTyped' /\ OvertakenReadIsNews'
    BY <1>2 DEF LoadApi, TlsTyped, OvertakenReadIsNews
  <2>2. TlsFlags'
    BY <1>2, Zenon DEF LoadApi, TlsFlags
  <2>3. ChangeIsOnItsWay'
    BY <1>2 DEF LoadApi, TlsTyped, TlsFlags, OvertakenReadIsNews, ChangeIsOnItsWay
  <2> QED BY <2>1, <2>2, <2>3
<1>3. CASE StartTlsFails
  <2>1. TlsTyped' /\ OvertakenReadIsNews'
    BY <1>3 DEF StartTlsFails, TlsTyped, OvertakenReadIsNews
  <2>2. TlsFlags'
    BY <1>3, Zenon DEF StartTlsFails, TlsFlags
  <2>3. ChangeIsOnItsWay'
    BY <1>3 DEF StartTlsFails, TlsTyped, TlsFlags, OvertakenReadIsNews, ChangeIsOnItsWay
  <2> QED BY <2>1, <2>2, <2>3
<1>4. CASE SwapFiles
  <2>1. TlsTyped' /\ OvertakenReadIsNews'
    BY <1>4 DEF SwapFiles, TlsTyped, OvertakenReadIsNews
  <2>2. TlsFlags'
    BY <1>4, Zenon DEF SwapFiles, TlsFlags
  <2>3. ChangeIsOnItsWay'
    BY <1>4 DEF SwapFiles, TlsTyped, TlsFlags, OvertakenReadIsNews, ChangeIsOnItsWay
  <2> QED BY <2>1, <2>2, <2>3
<1>5. CASE ScheduleReload
  <2>1. TlsTyped' /\ OvertakenReadIsNews'
    BY <1>5 DEF ScheduleReload, TlsTyped, OvertakenReadIsNews
  <2>2. TlsFlags'
    BY <1>5, Zenon DEF ScheduleReload, TlsFlags
  <2>3. ChangeIsOnItsWay'
    BY <1>5 DEF ScheduleReload, TlsTyped, TlsFlags, OvertakenReadIsNews, ChangeIsOnItsWay
  <2> QED BY <2>1, <2>2, <2>3
<1>6. CASE DebounceFires
  <2>1. TlsTyped' /\ OvertakenReadIsNews'
    BY <1>6 DEF DebounceFires, TlsTyped, OvertakenReadIsNews
  <2>2. TlsFlags'
    BY <1>6, Zenon DEF DebounceFires, TlsFlags
  <2>3. ChangeIsOnItsWay'
    BY <1>6 DEF DebounceFires, TlsTyped, TlsFlags, OvertakenReadIsNews, ChangeIsOnItsWay
  <2> QED BY <2>1, <2>2, <2>3
<1>7. CASE ReloadFails
  <2>1. TlsTyped' /\ OvertakenReadIsNews'
    BY <1>7 DEF ReloadFails, ReloadAgain, TlsTyped, OvertakenReadIsNews
  <2>2. TlsFlags'
    BY <1>7, Zenon DEF ReloadFails, ReloadAgain, TlsFlags
  <2>3. ChangeIsOnItsWay'
    BY <1>7 DEF ReloadFails, ReloadAgain, TlsTyped, TlsFlags, OvertakenReadIsNews, ChangeIsOnItsWay
  <2> QED BY <2>1, <2>2, <2>3
<1>8. CASE CloseTls
  <2>1. TlsTyped' /\ OvertakenReadIsNews'
    BY <1>8 DEF CloseTls, TlsTyped, OvertakenReadIsNews
  <2>2. TlsFlags'
    BY <1>8, Zenon DEF CloseTls, TlsFlags
  <2>3. ChangeIsOnItsWay'
    BY <1>8 DEF CloseTls, TlsTyped, TlsFlags, OvertakenReadIsNews, ChangeIsOnItsWay
  <2> QED BY <2>1, <2>2, <2>3
<1>9. ASSUME NEW v \in Readable, StartTls(v)
      PROVE  TlsInv'
  <2>1. v \in 0..disk /\ (read = disk => v = disk)
    BY ReadableRange
  <2>2. TlsTyped' /\ OvertakenReadIsNews'
    BY <1>9, <2>1 DEF StartTls, TlsTyped, OvertakenReadIsNews
  <2>3. TlsFlags'
    BY <1>9, Zenon DEF StartTls, TlsFlags
  <2>4. ChangeIsOnItsWay'
    BY <1>9, <2>1 DEF StartTls, TlsTyped, TlsFlags, OvertakenReadIsNews, ChangeIsOnItsWay
  <2> QED BY <2>2, <2>3, <2>4
<1>10. ASSUME NEW v \in Readable, Reload(v)
      PROVE  TlsInv'
  <2>1. v \in 0..disk /\ (read = disk => v = disk)
    BY ReadableRange
  <2>2. TlsTyped' /\ OvertakenReadIsNews'
    BY <1>10, <2>1 DEF Reload, ReloadAgain, Acceptable, TlsTyped, OvertakenReadIsNews
  <2>3. TlsFlags'
    BY <1>10, Zenon DEF Reload, ReloadAgain, Acceptable, TlsFlags
  <2>4. ChangeIsOnItsWay'
    BY <1>10, <2>1 DEF Reload, ReloadAgain, Acceptable, TlsTyped, TlsFlags, OvertakenReadIsNews, ChangeIsOnItsWay
  <2> QED BY <2>2, <2>3, <2>4
<1>11. CASE UNCHANGED processVars
  BY <1>11 DEF processVars, tlsVars, TlsTyped, TlsFlags, OvertakenReadIsNews, ChangeIsOnItsWay
<1> QED
  BY <1>1, <1>2, <1>3, <1>4, <1>5, <1>6, <1>7, <1>8, <1>9, <1>10, <1>11
     DEF ProcessNext, ApiStep

\* A quiet TLS listener serves the files on disk, unless createSecureContext
\* refuses them: the debounce of scheduleReload, the single read of reload and
\* its one reloadQueued together lose no change, however many there are.
THEOREM ListenerIsCurrent == ProcessSpec => []ServedIsCurrent
<1>1. TlsInv => ServedIsCurrent
  BY DEF TlsInv, TlsTyped, ChangeIsOnItsWay, ServedIsCurrent, Quiet
<1> QED BY <1>1, TlsInitially, TlsStep, PTL DEF ProcessSpec

(***************************************************************************)
(* A stopped worker                                                        *)
(***************************************************************************)

Stopped == worker \in {"exited", "killed"}

\* The runner sets no timer once it is stopping, and a closed health server has
\* no connection: what ExitWorker finds is at rest.
WorkerInv ==
    /\ worker = "loading" => AtRest /\ health = "off"
    /\ worker = "stopping" => timer = "none" /\ health \in {"closing", "closed"}
    /\ health = "closed" => sockets = {}
    /\ Stopped => AtRest /\ health \in {"off", "closed"}

\* Every step keeps a worker's cycle, timer and connection together, and a stopped one stopped.
LEMMA WorkerInvStep ==
  ASSUME WorkerInv, [ProcessNext]_processVars
  PROVE  WorkerInv' /\ (Stopped => Stopped')
<1> USE DEF WorkerInv, Stopped, AtRest
<1>1. CASE ApiStep
  <2>1. UNCHANGED workerVars
    BY <1>1 DEF ApiStep, LoadApi, StartTlsFails, SwapFiles, ScheduleReload, DebounceFires,
       ReloadFails, CloseTls, StartTls, Reload
  <2> QED BY <2>1 DEF workerVars
<1>2. CASE LoadWorker \/ BucketMissing \/ HealthListens \/ HealthListenFails \/ WorkerUp
  BY <1>2 DEF LoadWorker, BucketMissing, HealthListens, HealthListenFails, WorkerUp
<1>3. CASE Cycle
  BY <1>3 DEF Cycle, PumpEnds, CycleCompletes, CycleFails, CycleEnds
<1>4. CASE TimerFires
  BY <1>4 DEF TimerFires
<1>5. CASE StopWorker \/ KillWorker \/ HealthCloses \/ CloseTimeout \/ ExitWorker
  BY <1>5 DEF StopWorker, KillWorker, HealthCloses, CloseTimeout, ExitWorker
<1>6. ASSUME NEW client \in Clients, Connect(client) \/ Disconnect(client)
      PROVE  WorkerInv' /\ (Stopped => Stopped')
  BY <1>6 DEF Connect, Disconnect
<1>7. CASE UNCHANGED processVars
  BY <1>7 DEF processVars, workerVars
<1> QED
  BY <1>1, <1>2, <1>3, <1>4, <1>5, <1>6, <1>7 DEF ProcessNext, WorkerStep

\* The safety half of StopEnds: a worker that has exited, by whatever path, has
\* no cycle, no timer and no connection, and never gets one again.
THEOREM StoppedIsAtRest == ProcessSpec => []((Stopped => AtRest) /\ (Stopped => []Stopped))
<1>1. ProcessInit => WorkerInv
  BY DEF ProcessInit, WorkerInv, Stopped, AtRest
<1>2. WorkerInv => (Stopped => AtRest)
  BY DEF WorkerInv
<1> QED BY <1>1, <1>2, WorkerInvStep, PTL DEF ProcessSpec

=============================================================================
