--------------------------- MODULE RunOnceProofs ---------------------------
(***************************************************************************)
(* For any set of tasks and slots and every value of the settings: the     *)
(* theorems of AlluviumDaemonProofs and TaskLifecycleProofs hold of a root *)
(* that the daemon and run-once run in turn; and run-once returns with     *)
(* nothing half done.                                                      *)
(***************************************************************************)
EXTENDS RunOnce, TaskLifecycleProofs

(***************************************************************************)
(* run_once takes the steps of the runner in an order of its own           *)
(***************************************************************************)
LEMMA BatchStep == RunBatch => [Next]_vars
<1> SUFFICES ASSUME RunBatch PROVE [Next]_vars
  OBVIOUS
<1>1. CASE batch = "drain" /\ Coordinate
  BY <1>1 DEF Next
<1>2. CASE \E w \in Slots : StartFails(w) \/ Work(w)
  BY <1>2 DEF Next
<1>3. CASE DrainEnds \/ LookAgain
  BY <1>3 DEF DrainEnds, LookAgain, LookForWork, Next
<1>4. CASE IntegrateAll
  BY <1>4 DEF IntegrateAll, Next, Integrate
<1>5. CASE BatchEnds \/ Interrupt
  BY <1>5 DEF BatchEnds, Interrupt, Next
<1>6. CASE CancelWorkers
  BY <1>6 DEF CancelWorkers, Next, Work
<1>7. CASE CancelIntegration
  BY <1>7 DEF CancelIntegration, Next, Integrate
<1>8. CASE BatchExits
  BY <1>8 DEF BatchExits, Next
<1> QED
  BY <1>1, <1>2, <1>3, <1>4, <1>5, <1>6, <1>7, <1>8 DEF RunBatch

LEMMA OnceStep == [OnceNext]_onceVars => [Next]_vars
<1> SUFFICES ASSUME [OnceNext]_onceVars PROVE [Next]_vars
  OBVIOUS
<1>1. CASE StartDaemonOrBatch
  BY <1>1 DEF StartDaemonOrBatch, Next, Startup
<1>2. CASE phase # "down" /\ Startup
  BY <1>2 DEF Next
<1>3. CASE RunDaemon
  BY <1>3 DEF RunDaemon, Next
<1>4. CASE Beside
  BY <1>4 DEF Beside, Next, Integrate, Work
<1>5. CASE Environment
  BY <1>5 DEF Next
<1>6. CASE UNCHANGED onceVars
  BY <1>6 DEF onceVars
<1> QED
  BY <1>1, <1>2, <1>3, <1>4, <1>5, <1>6, BatchStep DEF OnceNext

LEMMA BatchIsDaemon == OnceSpec => Spec
<1>1. OnceInit => Init
  BY DEF OnceInit
<1> QED
  BY <1>1, OnceStep, PTL DEF OnceSpec, Spec

\* Under run-once, too, a row that says running has a supervisor.
COROLLARY BatchRunsNothingAlone == OnceSpec => []RunningHasWorker
BY BatchIsDaemon, NothingRunsAlone

\* Under run-once, too, a done task has its branch merged or found empty.
COROLLARY BatchDoneMeansIntegrated == OnceSpec => []DoneIsIntegrated
BY BatchIsDaemon, DoneMeansIntegrated

\* Under run-once, too, every task goes through the life cycle.
COROLLARY BatchKeepsLifecycle == OnceSpec => LifecycleIsKept
BY BatchIsDaemon, LifecycleHolds

(***************************************************************************)
(* run-once returns with nothing half done                                 *)
(***************************************************************************)
BatchPhase ==
  /\ batch \in {"wait", "integrate"} => phase = "up" /\ cpc = "idle"
  /\ batch = "ended" => phase = "stopping" /\ ipc = "idle"

\* Nothing is claimed after the drain, and no worker is left after the wait,
\* so what is queued or running when the integration starts stays so ...
NobodyWorks ==
  (batch \in {"integrate", "ended"} /\ Undisturbed) =>
    /\ \A w \in Slots : ~Supervised(w)
    /\ \A t \in Tasks : /\ row[t] # "queued"
                        /\ row[t] = "running" => t \in unwritten

\* ... and what is pending then is integrated before the batch ends.
PendingIsListed ==
  (batch = "integrate" /\ Undisturbed) => \A t \in PendingIntegrations :
    t \in ilist \/ (ipc \in {"started", "merging"} /\ itask = t)
NothingPending ==
  (batch = "ended" /\ Undisturbed) =>
    /\ PendingIntegrations = {}
    /\ MoveUnrevisionableToNeedsHuman =>
         \A t \in Tasks : row[t] = "integrating" => t \in unwritten
BatchInv == BatchPhase /\ NobodyWorks /\ PendingIsListed /\ NothingPending

\* The only step into the integration.
LEMMA LookAgainBatch == LifecycleInv /\ BatchInv /\ LookAgain => BatchInv'
<1> SUFFICES ASSUME LifecycleInv, BatchInv, LookAgain PROVE BatchInv'
  OBVIOUS
<1>1. CASE batch' = "drain"
  BY <1>1 DEF BatchInv, BatchPhase, NobodyWorks, PendingIsListed, NothingPending
<1>2. CASE RevisionTasks \cup QueuedTasks = {} /\ batch' = "integrate" /\ ListPending
  <2>1. /\ phase = "up" /\ cpc = "idle" /\ runningTasks = {} /\ ilist' = PendingIntegrations
        /\ UNCHANGED <<integration, taskDir, rows, runner, claimer, workers, outside>>
    BY <1>2 DEF BatchInv, BatchPhase, LookAgain, ListPending, disk
  <2>2. ASSUME Undisturbed, NEW w \in Slots PROVE ~Supervised(w)
    BY <2>1, <2>2 DEF LifecycleInv, QuietInv, Quiet, WorkerInv
  <2>3. ASSUME Undisturbed, NEW t \in Tasks
        PROVE  row[t] # "queued" /\ (row[t] = "running" => t \in unwritten)
    <3>1. row[t] # "queued"
      BY <1>2, <2>3 DEF LifecycleInv, QuietInv, Quiet, TaskInv, QueuedTasks
    <3>2. row[t] = "running" => t \in unwritten
      BY <2>1, <2>2, <2>3 DEF LifecycleInv, RunningInv, Untyped, RunningHasWorker, WorkersOf
    <3> QED
      BY <3>1, <3>2
  <2> QED
    BY <1>2, <2>1, <2>2, <2>3
    DEF BatchInv, BatchPhase, NobodyWorks, PendingIsListed, NothingPending, PendingIntegrations,
        Supervised, Undisturbed, rows, runner, claimer, workers, outside, environ
<1> QED
  BY <1>1, <1>2 DEF LookAgain, LookForWork

\* The integration queues nothing, starts nobody, and takes what is listed.
LEMMA IntegrateBatch ==
  ASSUME LifecycleInv, BatchInv, batch = "integrate", batch' = "integrate",
         \/ \E t \in Tasks : ilist # {} /\ StartIntegration(t)
         \/ FinishIntegration
         \/ MergeThread
  PROVE  BatchInv'
<1>1. UNCHANGED <<phase, cpc, workers, outside, taskDir>>
  BY DEF StartIntegration, FinishIntegration, MergeThread, ThreadReads, IntegrateTask,
         ReturnForRevisionOrBlock, ThreadReturns, disk, runner, claimer
<1>2. Undisturbed' => Undisturbed
  BY <1>1 DEF Undisturbed, outside, environ
<1>3. TypeOK /\ (Undisturbed => MergeInv /\ \A t \in Tasks : TaskInv(t))
  BY DEF LifecycleInv, RunningInv, QuietInv, Quiet
<1>4. BatchPhase'
  BY <1>1 DEF BatchInv, BatchPhase
<1>5. ASSUME Undisturbed, NEW t \in Tasks, row[t] # "queued", row[t] = "running" => t \in unwritten
      PROVE  row'[t] # "queued" /\ (row'[t] = "running" => t \in unwritten')
  <2>1. ASSUME NEW u \in Tasks, NEW state \in TASK_STATES \ {"queued", "running"}, SetRow(u, state)
        PROVE  row'[t] # "queued" /\ (row'[t] = "running" => t \in unwritten')
    BY <1>3, <1>5, <2>1 DEF SetRow, TypeOK
  <2>2. FinishIntegration => itask \in Tasks /\ IntegratedState \in TASK_STATES \ {"queued", "running"}
    BY <1>3 DEF FinishIntegration, IntegratedState, TypeOK, TASK_STATES
  <2>3. MergeThread => UNCHANGED rows
    BY DEF MergeThread, ThreadReads, IntegrateTask, ReturnForRevisionOrBlock, ThreadReturns
  <2>4. ASSUME NEW u \in Tasks, StartIntegration(u) PROVE SetRow(u, "integrating")
    BY <2>4 DEF StartIntegration
  <2>5. FinishIntegration => UNCHANGED rows \/ SetRow(itask, IntegratedState)
    BY DEF FinishIntegration
  <2>6. CASE UNCHANGED rows
    BY <1>5, <2>6 DEF rows
  <2>7. CASE FinishIntegration
    BY <2>1, <2>2, <2>5, <2>6, <2>7
  <2>8. CASE \E u \in Tasks : StartIntegration(u)
    <3>1. "integrating" \in TASK_STATES \ {"queued", "running"}
      BY DEF TASK_STATES
    <3> QED
      BY <2>1, <2>4, <2>8, <3>1
  <2>9. CASE MergeThread
    BY <2>3, <2>6, <2>9
  <2> QED
    BY <2>7, <2>8, <2>9
<1>6. NobodyWorks'
  BY <1>1, <1>2, <1>5 DEF BatchInv, NobodyWorks, Supervised, workers
<1>7. PendingIsListed'
  <2> SUFFICES ASSUME Undisturbed, NEW t \in Tasks, t \in PendingIntegrations'
               PROVE  t \in ilist' \/ (ipc' \in {"started", "merging"} /\ itask' = t)
    BY <1>1, <1>2, <1>3 DEF PendingIsListed, PendingIntegrations, TypeOK
  <2>1. t \in PendingIntegrations =>
          t \in ilist \/ (ipc \in {"started", "merging"} /\ itask = t)
    BY DEF BatchInv, PendingIsListed
  <2>2. ASSUME NEW u \in Tasks, ilist # {}, StartIntegration(u)
        PROVE  t \in ilist' \/ (ipc' \in {"started", "merging"} /\ itask' = t)
    BY <2>1, <2>2 DEF StartIntegration, PendingIntegrations, disk
  <2>3. CASE FinishIntegration
    BY <2>1, <2>3 DEF FinishIntegration, PendingIntegrations
  <2>4. CASE ThreadReads
    BY <2>1, <2>4 DEF ThreadReads, PendingIntegrations, disk
  <2>5. CASE MergeThread /\ ~ThreadReads
    <3>1. \E status \in {"merged", "noop", "blocked", "needs_revision"} : \E round :
            ThreadReturns(status, round)
      BY <2>5 DEF MergeThread, IntegrateTask, ReturnForRevisionOrBlock
    <3>2. t # itask /\ integration'[t] = integration[t] /\ ilist' = ilist
      BY <1>1, <1>3, <3>1 DEF ThreadReturns, PendingIntegrations, TypeOK
    <3> QED
      BY <1>1, <2>1, <3>2 DEF PendingIntegrations
  <2> QED
    BY <2>2, <2>3, <2>4, <2>5
<1>8. NothingPending'
  BY DEF NothingPending
<1> QED
  BY <1>4, <1>6, <1>7, <1>8 DEF BatchInv

\* The integration ends when all that was listed is decided, so nothing is pending.
LEMMA EndBatch ==
  LifecycleInv /\ IntegratingInv /\ BatchInv /\ BatchEnds => BatchInv'
<1> SUFFICES ASSUME LifecycleInv, IntegratingInv, BatchInv, BatchEnds PROVE BatchInv'
  OBVIOUS
<1>1. /\ UNCHANGED <<integration, taskDir, rows, workers, merger, outside>>
      /\ phase' = "stopping" /\ batch' = "ended"
  BY DEF BatchEnds, RequestStop, disk
<1>2. batch = "integrate" /\ phase = "up" /\ ipc = "idle" /\ ilist = {}
  BY DEF BatchEnds, BatchInv, BatchPhase
<1>3. Undisturbed => PendingIntegrations = {}
  BY <1>2 DEF BatchInv, PendingIsListed
<1>4. ASSUME Undisturbed, MoveUnrevisionableToNeedsHuman, NEW t \in Tasks, row[t] = "integrating"
      PROVE  t \in unwritten
  <2>1. t \in taskDir
    BY <1>4 DEF LifecycleInv, QuietInv, Quiet, TaskInv
  <2>2. WorkersOf(t) = {}
    BY <1>2, <1>4 DEF BatchInv, NobodyWorks, WorkersOf
  <2> QED
    BY <1>2, <1>3, <1>4, <2>1, <2>2 DEF IntegratingInv, IntegratingIsPending, PendingIntegrations
<1> QED
  BY <1>1, <1>2, <1>3, <1>4
  DEF BatchInv, BatchPhase, NobodyWorks, PendingIsListed, NothingPending, PendingIntegrations,
      Supervised, Undisturbed, rows, workers, merger, outside, environ

\* A step beside an integration, or after it, in which the rows and records stay.
LEMMA BesideBatch ==
  ASSUME BatchInv, batch' = batch, UNCHANGED <<integration, taskDir, rows, workers, merger>>,
         UNCHANGED <<phase, cpc>>, Undisturbed' => Undisturbed
  PROVE  BatchInv'
BY DEF BatchInv, BatchPhase, NobodyWorks, PendingIsListed, NothingPending, PendingIntegrations,
       Supervised, rows, workers, merger

LEMMA EnvironmentBatch ==
  LifecycleInv /\ BatchInv /\ Environment
    /\ batch' = (IF phase' = "down" THEN "none" ELSE batch) => BatchInv'
<1> SUFFICES ASSUME LifecycleInv, BatchInv, Environment, phase' # "down", batch' = batch
             PROVE  BatchInv'
  BY DEF BatchInv, BatchPhase, NobodyWorks, PendingIsListed, NothingPending
<1>1. TypeOK /\ (Undisturbed => NoRetry)
  BY DEF LifecycleInv, RunningInv, QuietInv, Quiet
<1>2. ASSUME NEW t \in Tasks, OrphanExits(t) PROVE BatchInv'
  BY <1>2, BesideBatch DEF OrphanExits, runner, claimer, environ, Undisturbed
\* Only somebody who used `retry` can have a retry under way.
<1>3. ASSUME NEW t \in Tasks, RetryChecks(t) \/ RetryArchives(t) PROVE BatchInv'
  <2>1. UNCHANGED <<integration, taskDir, rows, workers, merger, phase, cpc>>
    BY <1>3 DEF RetryChecks, RetryArchives, runner, claimer, disk
  <2>2. ~Undisturbed'
    BY <1>1, <1>3, BoundsAssumption DEF RetryChecks, RetryArchives, Undisturbed, NoRetry, TypeOK
  <2> QED
    BY <2>1, <2>2, BesideBatch
<1>4. ASSUME NEW t \in Tasks, RetryQueues(t) PROVE BatchInv'
  <2>1. ~Undisturbed' /\ UNCHANGED <<phase, cpc, ipc>>
    BY <1>1, <1>4 DEF RetryQueues, Undisturbed, NoRetry, runner, claimer, merger
  <2> QED
    BY <2>1 DEF BatchInv, BatchPhase, NobodyWorks, PendingIsListed, NothingPending
\* The rest takes a runner that is down, or leaves it down.
<1>5. ASSUME NEW t \in Tasks, RemoveTaskDir(t) PROVE FALSE
  BY <1>5 DEF RemoveTaskDir, runner
<1>6. ~Crash /\ ~LoseDatabase
  BY DEF Crash, MemoryIsLost, LoseDatabase, runner
<1> QED
  BY <1>2, <1>3, <1>4, <1>5, <1>6 DEF Environment

\* The supervisors work while run_once waits.  While it integrates there are none.
LEMMA WorkBatch ==
  ASSUME LifecycleInv, BatchInv, NEW w \in Slots, Work(w), batch' = batch,
         batch \notin {"none", "ended"}
  PROVE  BatchInv'
<1>1. /\ Supervised(w) /\ UNCHANGED <<phase, cpc, damages, retries>>
  BY DEF Work, LaunchWorker, LaunchFails, AgentExits, ReadPrior, FinalizeWorkerBranch,
         FinalizeBranchFailed, SettleWorker, SupervisorError, UnrecoverableError,
         SupervisorRaises, runner, claimer, outside, environ, Supervised, Idle
<1>2. batch = "integrate" => ~Undisturbed'
  BY <1>1 DEF BatchInv, NobodyWorks, Undisturbed
<1> QED
  BY <1>1, <1>2 DEF BatchInv, BatchPhase, NobodyWorks, PendingIsListed, NothingPending

\* An agent that exits when the batch has ended has been retried.
LEMMA ExitBatch ==
  ASSUME LifecycleInv, BatchInv, NEW w \in Slots, NEW code, AgentExits(w, code), batch' = batch
  PROVE  BatchInv'
<1>1. Supervised(w) /\ UNCHANGED <<phase, cpc, ipc, damages, retries>>
  BY DEF AgentExits, Supervised, Idle, runner, claimer, merger, outside, environ
<1>2. batch \in {"integrate", "ended"} => ~Undisturbed'
  BY <1>1 DEF BatchInv, NobodyWorks, Undisturbed
<1> QED
  BY <1>1, <1>2 DEF BatchInv, BatchPhase, NobodyWorks, PendingIsListed, NothingPending

\* So has a supervisor that is cancelled then.
LEMMA CancelBatch == LifecycleInv /\ BatchInv /\ CancelWorkers => BatchInv'
<1> SUFFICES ASSUME LifecycleInv, BatchInv, CancelWorkers, batch = "ended" PROVE BatchInv'
  BY DEF CancelWorkers, BatchInv, BatchPhase, NobodyWorks, PendingIsListed, NothingPending
<1>1. PICK w \in Slots : CancelWorker(w) \/ SupervisorError(w) \/ UnrecoverableError(w)
  BY DEF CancelWorkers
<1>2. Supervised(w) /\ UNCHANGED <<phase, ipc, damages, retries>>
  BY <1>1 DEF CancelWorker, SupervisorError, UnrecoverableError, SupervisorRaises, Supervised, Idle,
              runner, merger, environ
<1>3. ~Undisturbed'
  BY <1>2 DEF BatchInv, NobodyWorks, Undisturbed
<1>4. batch' = "ended"
  BY DEF CancelWorkers
<1> QED
  BY <1>2, <1>3, <1>4 DEF BatchInv, BatchPhase, NobodyWorks, PendingIsListed, NothingPending

LEMMA NextBatch ==
  LifecycleInv /\ IntegratingInv /\ BatchInv /\ [OnceNext]_onceVars => BatchInv'
<1> SUFFICES ASSUME LifecycleInv, IntegratingInv, BatchInv, [OnceNext]_onceVars
             PROVE  BatchInv'
  OBVIOUS
<1>1. CASE batch' \in {"none", "drain", "aborted"}
  BY <1>1 DEF BatchInv, BatchPhase, NobodyWorks, PendingIsListed, NothingPending
<1>2. CASE phase # "down" /\ Startup /\ batch' \in {"none", batch}
  <2>1. phase \notin {"up", "stopping"}
    BY <1>2 DEF Startup, StartRunner, NextPass, StartupFails, ReconcileMissing, ReconcileOrphan,
                OrphanNotRecorded, ReconcileInterrupted, InterruptedIsLeft, InterruptedStates
  <2>2. batch \notin {"wait", "integrate", "ended"}
    BY <2>1 DEF BatchInv, BatchPhase
  <2>3. ASSUME batch' = batch PROVE BatchInv'
    BY <2>2, <2>3 DEF BatchInv, BatchPhase, NobodyWorks, PendingIsListed, NothingPending
  <2> QED
    BY <1>1, <1>2, <2>3
<1>3. CASE RunBatch
  <2>1. CASE DrainEnds
    <3>1. batch' = "wait" /\ phase' = "up" /\ cpc' = "idle"
      BY <2>1 DEF DrainEnds, vars, runner, claimer
    <3> QED
      BY <3>1 DEF BatchInv, BatchPhase, NobodyWorks, PendingIsListed, NothingPending
  <2>2. ASSUME NEW w \in Slots, batch # "none", WorkersRun, Work(w), batch' = batch
        PROVE  BatchInv'
    BY <2>2, WorkBatch DEF WorkersRun
  <2>3. CASE IntegrateAll
    BY <1>1, <2>3, IntegrateBatch DEF IntegrateAll
  <2>4. CASE (batch = "drain" /\ batch' = batch) \/ batch' = "aborted" \/ BatchExits \/ Interrupt
    BY <1>1, <2>4 DEF BatchExits, Interrupt
  <2>5. CASE CancelIntegration
    BY <1>1, <2>5 DEF CancelIntegration
  <2> QED
    BY <1>3, <2>1, <2>2, <2>3, <2>4, <2>5, LookAgainBatch, EndBatch, CancelBatch DEF RunBatch
<1>4. CASE Beside /\ batch' = batch
  <2>1. CASE MergeThread /\ batch = "integrate"
    BY <1>4, <2>1, IntegrateBatch
  <2>2. MergeThread => ipc # "idle" /\ UNCHANGED <<phase, cpc>>
    BY DEF MergeThread, ThreadReads, IntegrateTask, ReturnForRevisionOrBlock, ThreadReturns,
           runner, claimer
  <2>3. CASE MergeThread /\ batch # "integrate"
    BY <1>4, <2>2, <2>3 DEF BatchInv, BatchPhase, NobodyWorks, PendingIsListed, NothingPending
  <2> QED
    BY <1>4, <2>1, <2>3, ExitBatch DEF Beside
<1>5. CASE UNCHANGED onceVars
  BY <1>5, BesideBatch DEF onceVars, vars, disk, runner, claimer, outside, environ, Undisturbed
<1> QED
  BY <1>1, <1>2, <1>3, <1>4, <1>5, EnvironmentBatch DEF OnceNext, StartDaemonOrBatch, RunDaemon

LEMMA BatchInvariant == OnceSpec => []BatchInv
<1>1. OnceInit => BatchInv
  BY DEF OnceInit, BatchInv, BatchPhase, NobodyWorks, PendingIsListed, NothingPending
<1>2. LifecycleInv /\ IntegratingInv /\ BatchInv /\ [OnceNext]_onceVars => BatchInv'
  BY NextBatch
<1> QED
  BY <1>1, <1>2, BatchIsDaemon, LifecycleInvariant, IntegratingInvariant, PTL DEF OnceSpec

\* When run_once returns by itself no task is queued, no branch is pending, no
\* supervisor is left, and a row says running or integrating only if it could
\* not be written, unless somebody used `retry` or lost files meanwhile.
THEOREM BatchIsComplete == OnceSpec => []BatchLeavesNothing
<1>1. LifecycleInv /\ BatchInv => BatchLeavesNothing
  BY DEF BatchInv, NobodyWorks, NothingPending, BatchLeavesNothing, WorkersOf, InterruptedStates
<1> QED
  BY <1>1, BatchInvariant, BatchIsDaemon, LifecycleInvariant, PTL
=============================================================================
