------------------------ MODULE TaskLifecycleProofs ------------------------
(***************************************************************************)
(* More about AlluviumDaemon, for any set of tasks and slots and every     *)
(* value of the settings and bounds: that no row is left integrating but   *)
(* one that could not be written, and that rows, records, workers,         *)
(* integrator and restarts together implement the life cycle of            *)
(* TaskLifecycle.                                                          *)
(***************************************************************************)
EXTENDS AlluviumDaemonProofs

(***************************************************************************)
(* No row is left integrating, unless it could not be written              *)
(***************************************************************************)
\* As for running rows: the last pass of the start-up reaches them.
IntegratingListed ==
  \A t \in Tasks : row[t] = "integrating" =>
    /\ phase = "missing" => t \in taskDir \cup todo
    /\ phase \in {"orphans", "running"} => t \in taskDir
    /\ phase = "integrating" => t \in todo \cup unwritten
IntegratingInv == IntegratingListed /\ IntegratingIsPending

\* While the loops run only integrating rows and what waits for them matter.
LEMMA IntegratingSuffices ==
  ASSUME phase \in {"up", "stopping"}, phase' = phase, IntegratingIsPending'
  PROVE  IntegratingInv'
BY DEF IntegratingInv, IntegratingListed

\* A step that leaves the integrator where it is, and sets no row to integrating.
LEMMA IntegratorElsewhere ==
  ASSUME RunningInv, IntegratingInv, phase \in {"up", "stopping"}, phase' = phase, UNCHANGED merger,
         \A t \in Tasks : row'[t] = "integrating" =>
           \/ t \in unwritten'
           \/ WorkersOf(t)' # {}
           \/ /\ row[t] = "integrating" /\ integration'[t] = integration[t]
              /\ t \in unwritten => t \in unwritten'
              /\ WorkersOf(t) # {} => WorkersOf(t)' # {}
  PROVE  IntegratingInv'
<1>1. IntegratingIsPending'
  BY DEF IntegratingInv, IntegratingIsPending, merger
<1> QED
  BY <1>1, IntegratingSuffices

LEMMA StartupIntegrating ==
  ASSUME RunningInv, IntegratingInv, Startup
  PROVE  IntegratingInv'
<1> USE DEF RunningInv, IntegratingInv, IntegratingListed, IntegratingIsPending, TypeOK,
            InterruptedStates, workers, merger
<1>1. CASE StartRunner
  BY <1>1 DEF StartRunner, EnterPass, ToReconcile, disk
<1>2. CASE NextPass
  BY <1>2 DEF NextPass, EnterPass, ToReconcile, disk, rows
<1>3. CASE StartupFails
  BY <1>3 DEF StartupFails, disk, rows
<1>4. ASSUME NEW t \in Tasks, ReconcileMissing(t) PROVE IntegratingInv'
  BY <1>4 DEF ReconcileMissing, SetRow, disk
<1>5. ASSUME NEW t \in Tasks, ReconcileOrphan(t) PROVE IntegratingInv'
  <2>1. InferOrphanState(t) \in {"queued", "done", "failed", "needs_human"}
    BY DEF InferOrphanState, ResultStatuses
  <2> QED
    BY <1>5, <2>1 DEF ReconcileOrphan, SetRow, disk
<1>6. ASSUME NEW t \in Tasks, OrphanNotRecorded(t) PROVE IntegratingInv'
  <2>1. row[t] = "none"
    BY <1>6 DEF OrphanNotRecorded, Untyped, OrphansHaveNoRow
  <2> QED
    BY <1>6, <2>1 DEF OrphanNotRecorded, ForgetFolder, rows
<1>7. ASSUME NEW t \in Tasks, ReconcileInterrupted(t) PROVE IntegratingInv'
  BY <1>7 DEF ReconcileInterrupted, SetRow
<1>8. ASSUME NEW t \in Tasks, InterruptedIsLeft(t) PROVE IntegratingInv'
  BY <1>8 DEF InterruptedIsLeft, RowIsLeft
<1> QED
  BY <1>1, <1>2, <1>3, <1>4, <1>5, <1>6, <1>7, <1>8 DEF Startup

LEMMA CoordinateIntegrating ==
  ASSUME RunningInv, IntegratingInv, Coordinate \/ \E w \in Slots : StartFails(w)
  PROVE  IntegratingInv'
<1> USE DEF RunningInv, TypeOK, Supervised, Idle
<1>1. phase \in {"up", "stopping"} /\ phase' = phase /\ UNCHANGED <<merger, integration>>
  BY LoopsRun DEF Coordinate, ClaimTask, ClaimInboxItem, RecordClaim, RecordClaimFails,
                  StartClaimed, StartFails, runner, disk
<1>2. \/ UNCHANGED rows
      \/ \E t \in Tasks : \E state : state # "integrating" /\ SetRow(t, state)
  BY DEF Coordinate, ClaimTask, ClaimInboxItem, RecordClaim, RecordClaimFails, StartClaimed,
         StartFails
<1>3. \A w \in Slots : Supervised(w) => Supervised(w)' /\ wtask'[w] = wtask[w]
  BY DEF Coordinate, ClaimTask, ClaimInboxItem, RecordClaim, RecordClaimFails, StartClaimed,
         StartFails, OccupySlot, workers
<1>4. \A t \in Tasks : WorkersOf(t) \subseteq WorkersOf(t)'
  BY <1>3 DEF WorkersOf
<1> QED
  BY <1>1, <1>2, <1>4, IntegratorElsewhere DEF SetRow, rows

LEMMA WorkIntegrating ==
  ASSUME NEW w \in Slots, RunningInv, IntegratingInv, Work(w)
  PROVE  IntegratingInv'
<1> USE DEF RunningInv, TypeOK, Supervised, Idle
<1>1. Supervised(w) /\ wtask[w] \in Tasks /\ phase' = phase /\ UNCHANGED merger
  BY DEF Work, LaunchWorker, LaunchFails, AgentExits, ReadPrior, FinalizeWorkerBranch,
         FinalizeBranchFailed, SettleWorker, SupervisorError, UnrecoverableError,
         SupervisorRaises, runner
<1>2. phase \in {"up", "stopping"}
  BY <1>1, LoopsRun
<1>3. CASE LaunchWorker(w) \/ LaunchFails(w) \/ (\E code \in {"ok", "error"} : AgentExits(w, code))
           \/ ReadPrior(w) \/ FinalizeWorkerBranch(w) \/ FinalizeBranchFailed(w)
  <2>1. /\ UNCHANGED <<rows, wtask>>
        /\ \E place \in {"agent", "settle", "exited", "finalize"} : wpc' = [wpc EXCEPT ![w] = place]
        /\ integration' = integration \/ \E record :
             integration' = [integration EXCEPT ![wtask[w]] = record]
    BY <1>3 DEF LaunchWorker, LaunchFails, AgentExits, ReadPrior, FinalizeWorkerBranch,
                FinalizeBranchFailed, disk
  <2>2. \A t \in Tasks : WorkersOf(t)' = WorkersOf(t)
    BY <1>1, <2>1 DEF WorkersOf
  <2>3. w \in WorkersOf(wtask[w])
    BY <1>1 DEF WorkersOf
  <2> QED
    BY <1>1, <1>2, <2>1, <2>2, <2>3, IntegratorElsewhere DEF rows
<1>4. CASE SettleWorker(w) \/ SupervisorError(w) \/ UnrecoverableError(w)
  <2>1. /\ FreeSlot(w) /\ UNCHANGED integration
        /\ \/ RowIsLeft(wtask[w])
           \/ \E state : state # "integrating" /\ SetRow(wtask[w], state)
    BY <1>4 DEF SettleWorker, SupervisorError, UnrecoverableError, SettledState
  <2>2. \A t \in Tasks \ {wtask[w]} : WorkersOf(t)' = WorkersOf(t)
    BY <1>1, <2>1 DEF FreeSlot, WorkersOf
  <2> QED
    BY <1>1, <1>2, <2>1, <2>2, IntegratorElsewhere DEF RowIsLeft, SetRow
<1> QED
  BY <1>3, <1>4 DEF Work

\* A step of the integrator on task t, which leaves the other tasks alone.
LEMMA IntegratorOn ==
  ASSUME IntegratingInv, phase \in {"up", "stopping"}, phase' = phase, NEW t \in Tasks,
         ipc # "idle" => itask = t,
         \A u \in Tasks : WorkersOf(u)' = WorkersOf(u),
         \A u \in Tasks \ {t} :
           /\ row'[u] = row[u] /\ integration'[u] = integration[u]
           /\ u \in unwritten => u \in unwritten',
         MoveUnrevisionableToNeedsHuman /\ row'[t] = "integrating" =>
           \/ ipc' # "idle" /\ itask' = t
           \/ integration'[t].status = "pending"
           \/ t \in unwritten'
  PROVE  IntegratingInv'
<1> SUFFICES ASSUME phase' = "up", MoveUnrevisionableToNeedsHuman,
                    NEW u \in Tasks, row'[u] = "integrating"
             PROVE  \/ ipc' # "idle" /\ itask' = u
                    \/ integration'[u].status = "pending"
                    \/ WorkersOf(u)' # {}
                    \/ u \in unwritten'
  BY IntegratingSuffices DEF IntegratingIsPending
<1>1. CASE u = t
  BY <1>1
<1>2. CASE u # t
  BY <1>2 DEF IntegratingInv, IntegratingIsPending
<1> QED
  BY <1>1, <1>2

LEMMA IntegrateIntegrating ==
  ASSUME RunningInv, IntegratingInv, ListPending \/ Integrate \/ FinishCancelled
  PROVE  IntegratingInv'
<1>1. phase \in {"up", "stopping"} /\ phase' = phase /\ UNCHANGED workers
  BY LoopsRun
  DEF ListPending, Integrate, MergeThread, StartIntegration, ThreadReads, IntegrateTask,
      ReturnForRevisionOrBlock, ThreadReturns, FinishIntegration, IntegrateTaskRaises,
      FinishFails, FinishCancelled, RunningInv, TypeOK, runner
<1>2. \A t \in Tasks : WorkersOf(t)' = WorkersOf(t)
  BY <1>1 DEF WorkersOf, Supervised, workers
<1>3. ASSUME NEW t \in Tasks, StartIntegration(t) PROVE IntegratingInv'
  <2>1. /\ ipc = "idle" /\ ipc' = "started" /\ itask' = t
        /\ row' = [row EXCEPT ![t] = "integrating"]
        /\ unwritten' = unwritten \ {t} /\ UNCHANGED integration
    BY <1>3 DEF StartIntegration, SetRow, disk
  <2>2. \A u \in Tasks \ {t} : row'[u] = row[u]
    BY <2>1 DEF RunningInv, TypeOK
  <2> QED
    BY <1>1, <1>2, <2>1, <2>2, IntegratorOn
<1>4. CASE ListPending \/ ThreadReads
  <2>1. /\ UNCHANGED <<rows, integration, itask>>
        /\ ipc # "idle" => ipc' # "idle"
    BY <1>4 DEF ListPending, ThreadReads, disk
  <2>2. IntegratingIsPending'
    BY <1>1, <1>2, <2>1 DEF rows, IntegratingInv, IntegratingIsPending
  <2> QED
    BY <1>1, <2>2, IntegratingSuffices
<1>5. CASE MergeThread /\ ~ThreadReads
  <2>1. /\ ipc = "merging" /\ ipc' = "returned" /\ UNCHANGED <<rows, itask>>
        /\ \E record : integration' = [integration EXCEPT ![itask] = record]
    BY <1>5 DEF MergeThread, IntegrateTask, ReturnForRevisionOrBlock, ThreadReturns
  <2>2. itask \in Tasks
    BY <2>1 DEF RunningInv, TypeOK
  <2>3. \A u \in Tasks \ {itask} : integration'[u] = integration[u]
    BY <2>1 DEF RunningInv, TypeOK
  <2> QED
    BY <1>1, <1>2, <2>1, <2>2, <2>3, IntegratorOn DEF rows
<1>6. CASE IntegrateTaskRaises \/ FinishFails \/ FinishCancelled
  <2>1. /\ ipc # "idle" /\ UNCHANGED integration
        /\ RowIsLeft(itask) \/ (UNCHANGED rows /\ integration[itask].status = "pending")
    BY <1>6 DEF IntegrateTaskRaises, FinishFails, FinishCancelled, disk
  <2>2. itask \in Tasks
    BY <2>1 DEF RunningInv, TypeOK
  <2> QED
    BY <1>1, <1>2, <2>1, <2>2, IntegratorOn DEF RowIsLeft, rows
<1>7. CASE FinishIntegration
  <2>1. /\ ipc # "idle" /\ UNCHANGED integration
        /\ UNCHANGED rows \/ SetRow(itask, IntegratedState)
        /\ MoveUnrevisionableToNeedsHuman => SetRow(itask, IntegratedState)
        /\ IntegratedState # "integrating"
    BY <1>7 DEF FinishIntegration, IntegratedState
  <2>2. itask \in Tasks
    BY <2>1 DEF RunningInv, TypeOK
  <2>3. \A u \in Tasks \ {itask} : row'[u] = row[u] /\ (u \in unwritten => u \in unwritten')
    BY <2>1 DEF RunningInv, TypeOK, SetRow, rows
  <2>4. MoveUnrevisionableToNeedsHuman => row'[itask] # "integrating"
    BY <2>1, <2>2 DEF RunningInv, TypeOK, SetRow
  <2> QED
    BY <1>1, <1>2, <2>1, <2>2, <2>3, <2>4, IntegratorOn
<1> QED
  BY <1>3, <1>4, <1>5, <1>6, <1>7 DEF Integrate

LEMMA EnvironmentIntegrating ==
  ASSUME RunningInv, IntegratingInv, Environment \/ RequestStop \/ RunnerExits
  PROVE  IntegratingInv'
<1> USE DEF RunningInv, IntegratingInv, IntegratingListed, IntegratingIsPending, WorkersOf,
            Supervised, TypeOK, disk, rows, runner, workers, merger
<1>1. ASSUME NEW t \in Tasks, RetryChecks(t) \/ RetryArchives(t) PROVE IntegratingInv'
  BY <1>1 DEF RetryChecks, RetryArchives
<1>2. ASSUME NEW t \in Tasks, RetryQueues(t) PROVE IntegratingInv'
  BY <1>2 DEF RetryQueues, SetRow
<1>3. ASSUME NEW t \in Tasks, OrphanExits(t) PROVE IntegratingInv'
  BY <1>3 DEF OrphanExits
<1>4. CASE LoseDatabase \/ \E t \in Tasks : RemoveTaskDir(t)
  BY <1>4 DEF LoseDatabase, RemoveTaskDir
<1>5. CASE Crash \/ RequestStop \/ RunnerExits
  BY <1>5 DEF Crash, RequestStop, RunnerExits, MemoryIsLost
<1> QED
  BY <1>1, <1>2, <1>3, <1>4, <1>5 DEF Environment

LEMMA NextIntegrating == RunningInv /\ IntegratingInv /\ [Next]_vars => IntegratingInv'
<1> SUFFICES ASSUME RunningInv, IntegratingInv, [Next]_vars PROVE IntegratingInv'
  OBVIOUS
<1>1. ASSUME NEW w \in Slots, CancelWorker(w) PROVE IntegratingInv'
  BY <1>1 DEF CancelWorker, IntegratingInv, IntegratingListed, IntegratingIsPending, runner
<1>2. CASE UNCHANGED vars
  BY <1>2 DEF vars, IntegratingInv, IntegratingListed, IntegratingIsPending, WorkersOf, Supervised,
              disk, rows, runner, workers, merger
<1> QED
  BY <1>1, <1>2, StartupIntegrating, CoordinateIntegrating, WorkIntegrating,
     IntegrateIntegrating, EnvironmentIntegrating DEF Next

LEMMA IntegratingInvariant == Spec => []IntegratingInv
<1>1. Init => IntegratingInv
  BY DEF Init, IntegratingInv, IntegratingListed, IntegratingIsPending
<1>2. RunningInv /\ IntegratingInv /\ [Next]_vars => IntegratingInv'
  BY NextIntegrating
<1> QED
  BY <1>1, <1>2, RunningInvariant, PTL DEF Spec

\* While the runner is up a row that says integrating is at the integrator, or
\* will be taken up again, or will be overwritten by a worker, or is one the
\* runner was refused to write, whatever crashes, retries and losses came
\* before.  This holds if a blocked task is moved to needs_human; without that
\* setting its row stays behind.
THEOREM NothingIsStranded == Spec => []IntegratingIsPending
<1>1. IntegratingInv => IntegratingIsPending
  BY DEF IntegratingInv
<1> QED
  BY <1>1, IntegratingInvariant, PTL

(***************************************************************************)
(* The life cycle: what a task looks like between claim and decision       *)
(***************************************************************************)
\* An agent works on a task that is new or was sent back, and what the thread
\* will write is about the round of the record.
AtWork == {"launch", "agent", "exited", "finalize"}
RunsAreFresh ==
  \A w \in Slots : wpc[w] \in AtWork =>
    integration[wtask[w]].status \in {"absent", "needs_revision"}
MergesThisRound == ipc = "merging" => iround = integration[itask].round
Fresh == RunsAreFresh /\ MergesThisRound
FreshInv == Undisturbed => Fresh

\* A step that takes up no task and writes no record.
LEMMA NoneTaken ==
  ASSUME Fresh, UNCHANGED <<integration, iround>>,
         ipc' = "merging" => ipc = "merging" /\ itask' = itask,
         \A w \in Slots : wpc'[w] \in AtWork => wpc[w] \in AtWork /\ wtask'[w] = wtask[w]
  PROVE  Fresh'
BY DEF Fresh, RunsAreFresh, MergesThisRound

\* Nobody is at work, and nobody integrates.
LEMMA Forgotten ==
  ASSUME MemoryIsLost
  PROVE  Fresh'
BY DEF MemoryIsLost, IntegratorIdles, Fresh, RunsAreFresh, MergesThisRound, AtWork

LEMMA StartupFresh ==
  ASSUME RunningInv, Quiet, Fresh, Startup
  PROVE  Fresh'
<1>1. /\ NothingRuns /\ UNCHANGED <<workers, merger>>
  <2>1. phase \notin {"up", "stopping"} /\ UNCHANGED <<workers, merger>>
    BY DEF Startup, StartRunner, NextPass, StartupFails, ReconcileMissing, ReconcileOrphan,
           OrphanNotRecorded, ReconcileInterrupted, InterruptedIsLeft, InterruptedStates
  <2> QED
    BY <2>1 DEF RunningInv, Untyped, LoopsNotStarted
<1> QED
  BY <1>1 DEF NothingRuns, workers, merger, Fresh, RunsAreFresh, MergesThisRound, AtWork

LEMMA CoordinateFresh ==
  ASSUME RunningInv, Quiet, Fresh, Coordinate \/ \E w \in Slots : StartFails(w)
  PROVE  Fresh'
<1> USE DEF RunningInv, TypeOK, AtWork
<1>1. integration' = integration /\ UNCHANGED merger
  BY DEF Coordinate, ClaimTask, ClaimInboxItem, RecordClaim, RecordClaimFails, StartClaimed,
         StartFails, disk
<1>2. ASSUME NEW t \in Tasks, NEW w \in Slots, OccupySlot(w, t),
             integration[t].status \in {"absent", "needs_revision"}
      PROVE  Fresh'
  BY <1>1, <1>2 DEF OccupySlot, Fresh, RunsAreFresh, MergesThisRound, merger
<1>3. ASSUME NEW t \in Tasks, NEW w \in Slots, ClaimTask(t, w) PROVE Fresh'
  <2>1. row[t] \in {"queued", "needs_revision"} /\ OccupySlot(w, t)
    BY <1>3 DEF ClaimTask, NextToClaim, RevisionTasks, QueuedTasks
  <2>2. TaskInv(t)
    BY DEF Quiet
  <2> QED
    BY <1>2, <2>1, <2>2 DEF TaskInv
<1>4. ASSUME NEW w \in Slots, StartClaimed(w) PROVE Fresh'
  <2>1. ctask \in Tasks /\ row[ctask] = "queued" /\ OccupySlot(w, ctask)
    BY <1>4 DEF StartClaimed, Quiet, ClaimInv
  <2>2. TaskInv(ctask)
    BY <2>1 DEF Quiet
  <2> QED
    BY <1>2, <2>1, <2>2 DEF TaskInv
<1>5. CASE RecordClaim \/ RecordClaimFails \/ \E t \in Tasks : ClaimInboxItem(t)
  BY <1>1, <1>5, NoneTaken
  DEF RecordClaim, RecordClaimFails, ClaimInboxItem, workers, merger
<1>6. ASSUME NEW w \in Slots, StartFails(w) PROVE Fresh'
  BY <1>1, <1>6, NoneTaken DEF StartFails, merger
<1> QED
  BY <1>3, <1>4, <1>5, <1>6 DEF Coordinate

LEMMA WorkFresh ==
  ASSUME RunningInv, Quiet, Fresh, NEW w \in Slots, Work(w) \/ CancelWorker(w)
  PROVE  Fresh'
<1> USE DEF RunningInv, TypeOK, AtWork
<1>1. UNCHANGED merger
  BY DEF Work, LaunchWorker, LaunchFails, AgentExits, ReadPrior, FinalizeWorkerBranch,
         FinalizeBranchFailed, SettleWorker, SupervisorError, UnrecoverableError, CancelWorker
<1>2. CASE LaunchWorker(w) \/ LaunchFails(w) \/ ReadPrior(w)
           \/ \E code \in {"ok", "error"} : AgentExits(w, code)
  <2>1. /\ integration' = integration /\ wtask' = wtask /\ wpc[w] \in AtWork
        /\ \E place : wpc' = [wpc EXCEPT ![w] = place]
    BY <1>2 DEF LaunchWorker, LaunchFails, AgentExits, ReadPrior, disk
  <2> QED
    BY <1>1, <2>1, NoneTaken DEF merger
<1>3. CASE FinalizeWorkerBranch(w) \/ FinalizeBranchFailed(w)
  <2>1. /\ wpc[w] \in AtWork /\ wtask' = wtask /\ wpc' = [wpc EXCEPT ![w] = "settle"]
        /\ \E record : integration' = [integration EXCEPT ![wtask[w]] = record]
    BY <1>3 DEF FinalizeWorkerBranch, FinalizeBranchFailed
  <2>2. /\ wtask[w] \in Tasks /\ row[wtask[w]] = "running"
        /\ \A v \in Slots \ {w} : wpc[v] \in AtWork => wtask[v] # wtask[w]
    BY <2>1 DEF Quiet, WorkerInv, DistinctWorkers, Supervised, Idle
  <2>3. ipc = "merging" => itask # wtask[w]
    BY <2>2 DEF Quiet, MergeInv
  <2> QED
    BY <1>1, <2>1, <2>2, <2>3 DEF Fresh, RunsAreFresh, MergesThisRound, merger
<1>4. CASE SettleWorker(w) \/ SupervisorError(w) \/ UnrecoverableError(w) \/ CancelWorker(w)
  <2>1. FreeSlot(w) /\ integration' = integration
    BY <1>4 DEF SettleWorker, SupervisorError, UnrecoverableError, CancelWorker
  <2> QED
    BY <1>1, <2>1, NoneTaken DEF FreeSlot, merger
<1> QED
  BY <1>2, <1>3, <1>4 DEF Work

LEMMA IntegrateFresh ==
  ASSUME RunningInv, Quiet, Fresh, ListPending \/ Integrate \/ FinishCancelled
  PROVE  Fresh'
<1> USE DEF RunningInv, TypeOK, AtWork
<1>1. UNCHANGED workers
  BY DEF ListPending, Integrate, MergeThread, StartIntegration, ThreadReads, IntegrateTask,
         ReturnForRevisionOrBlock, ThreadReturns, FinishIntegration, IntegrateTaskRaises,
         FinishFails, FinishCancelled
<1>2. CASE ThreadReads
  BY <1>1, <1>2 DEF ThreadReads, Fresh, RunsAreFresh, MergesThisRound, disk, workers
<1>3. CASE MergeThread /\ ~ThreadReads
  <2>1. /\ ipc = "merging" /\ ipc' = "returned"
        /\ \E record : integration' = [integration EXCEPT ![itask] = record]
    BY <1>3 DEF MergeThread, IntegrateTask, ReturnForRevisionOrBlock, ThreadReturns
  <2>2. \A w \in Slots : wpc[w] \in AtWork => wtask[w] # itask
    BY <2>1 DEF Quiet, MergeInv, WorkerInv, Supervised, Idle
  <2> QED
    BY <1>1, <2>1, <2>2 DEF Fresh, RunsAreFresh, MergesThisRound, workers
<1>4. CASE ~MergeThread
  <2>1. integration' = integration /\ RunsAreFresh /\ (ipc' = "merging" => UNCHANGED merger)
    BY <1>4 DEF ListPending, Integrate, StartIntegration, FinishIntegration, IntegrateTaskRaises,
                FinishFails, FinishCancelled, IntegratorIdles, disk, merger, Fresh
  <2> QED
    BY <1>1, <2>1 DEF Fresh, RunsAreFresh, MergesThisRound, workers, merger
<1> QED
  BY <1>2, <1>3, <1>4

LEMMA NextFresh == RunningInv /\ QuietInv /\ FreshInv /\ [Next]_vars => FreshInv'
<1> SUFFICES ASSUME RunningInv, QuietInv, FreshInv, [Next]_vars, Undisturbed'
             PROVE  Fresh'
  BY DEF FreshInv
<1>1. TypeOK /\ Quiet /\ Fresh
  BY UndisturbedBefore DEF RunningInv, QuietInv, FreshInv
<1>2. CASE Environment
  <2>1. ASSUME NEW t \in Tasks,
               RetryChecks(t) \/ RetryArchives(t) \/ RetryQueues(t) \/ OrphanExits(t)
        PROVE  Fresh'
    <3>1. UNCHANGED <<integration, workers, merger>>
      BY <2>1 DEF RetryChecks, RetryArchives, RetryQueues, OrphanExits, disk
    <3> QED
      BY <1>1, <3>1, NoneTaken DEF workers, merger
  <2>2. CASE Crash
    BY <2>2, Forgotten DEF Crash
  <2>3. ~LoseDatabase /\ \A t \in Tasks : ~RemoveTaskDir(t)
    BY <1>1 DEF LoseDatabase, RemoveTaskDir, Undisturbed, TypeOK
  <2> QED
    BY <1>2, <2>1, <2>2, <2>3 DEF Environment
<1>3. CASE RequestStop \/ UNCHANGED vars
  <2>1. UNCHANGED <<integration, workers, merger>>
    BY <1>3 DEF RequestStop, vars, disk
  <2> QED
    BY <1>1, <2>1, NoneTaken DEF workers, merger
<1>4. CASE RunnerExits
  BY <1>4, Forgotten DEF RunnerExits
<1> QED
  BY <1>1, <1>2, <1>3, <1>4, StartupFresh, CoordinateFresh, WorkFresh, IntegrateFresh DEF Next

LifecycleInv == RunningInv /\ QuietInv /\ RoundsInv /\ RowsStay /\ FreshInv

LEMMA LifecycleInvariant == Spec => []LifecycleInv
<1>1. Init => FreshInv
  BY DEF Init, FreshInv, Fresh, RunsAreFresh, MergesThisRound, AtWork
<1>2. RunningInv /\ QuietInv /\ FreshInv /\ [Next]_vars => FreshInv'
  BY NextFresh
<1> QED
  BY <1>1, <1>2, QuietInvariant, RoundsInvariant, PTL DEF Spec, LifecycleInv

(***************************************************************************)
(* The life cycle is kept                                                  *)
(***************************************************************************)
\* The refinement mapping, by task.
Shown(t) == IF Stage(t) \in {"ended", "withdrawn"} THEN 0 ELSE integration[t].round
stages == [t \in Tasks |-> Stage(t)]
shownRounds == [t \in Tasks |-> Shown(t)]

Kept(t) == Stage(t)' = Stage(t) /\ Shown(t)' = Shown(t)

\* What a step may do to one task.
Begins(t) ==
  Stage(t) \in {"new", "returned"} /\ Stage(t)' = "working" /\ Shown(t)' = Shown(t)
Delivers(t) ==
  Stage(t) = "working" /\ Stage(t)' = "delivered" /\ Shown(t)' = Shown(t)
Returns(t) ==
  /\ Stage(t) = "delivered" /\ Stage(t)' = "returned"
  /\ Shown(t) < MaxRevisionRounds /\ Shown(t)' = Shown(t) + 1
Ends(t) ==
  Stage(t) \in {"working", "delivered", "returned"} /\ Stage(t)' = "ended" /\ Shown(t)' = 0
Moves(t) == Kept(t) \/ Begins(t) \/ Delivers(t) \/ Returns(t) \/ Ends(t)

\* One task moves, as TaskLifecycle has it.
LEMMA OneMoves ==
  ASSUME NEW t \in Tasks, Moves(t), \A u \in Tasks \ {t} : Kept(u)
  PROVE  [Promise!Next]_<<stages, shownRounds>>
<1> USE DEF Kept, stages, shownRounds
<1>1. CASE Kept(t)
  BY <1>1
<1>2. ASSUME NEW to, Stage(t)' = to PROVE stages' = [stages EXCEPT ![t] = to]
  BY <1>2
<1>3. ASSUME Shown(t)' = Shown(t) PROVE shownRounds' = shownRounds
  BY <1>3
<1>4. CASE Begins(t)
  <2>1. Promise!Begin(t)
    BY <1>2, <1>3, <1>4 DEF Begins, Promise!Begin, Promise!Move, Shown
  <2> QED
    BY <2>1 DEF Promise!Next
<1>5. CASE Delivers(t)
  <2>1. Promise!Deliver(t)
    BY <1>2, <1>3, <1>5 DEF Delivers, Promise!Deliver, Promise!Move, Shown
  <2> QED
    BY <2>1 DEF Promise!Next
<1>6. CASE Returns(t)
  <2>1. shownRounds' = [shownRounds EXCEPT ![t] = @ + 1]
    BY <1>6 DEF Returns
  <2>2. Promise!Return(t)
    BY <1>2, <1>6, <2>1 DEF Returns, Promise!Return, Promise!Move, Shown
  <2> QED
    BY <2>2 DEF Promise!Next
<1>7. CASE Ends(t)
  <2>1. shownRounds' = [shownRounds EXCEPT ![t] = 0]
    BY <1>7 DEF Ends
  <2>2. Promise!End(t)
    BY <1>2, <1>7, <2>1 DEF Ends, Promise!End, Promise!Move, Shown
  <2> QED
    BY <2>2 DEF Promise!Next
<1> QED
  BY <1>1, <1>4, <1>5, <1>6, <1>7 DEF Moves

\* A task whose row and record a step does not touch.
LEMMA Untouched ==
  ASSUME NEW t \in Tasks, row'[t] = row[t], integration'[t] = integration[t],
         retries' = retries, damages' = damages
  PROVE  Kept(t)
BY DEF Kept, Shown, Stage, Undisturbed

\* A step that touches the row or the record of one task at most.
LEMMA OneTouched ==
  ASSUME NEW t \in Tasks, Moves(t), retries' = retries, damages' = damages,
         \A u \in Tasks \ {t} : row'[u] = row[u] /\ integration'[u] = integration[u]
  PROVE  [Promise!Next]_<<stages, shownRounds>>
<1>1. \A u \in Tasks \ {t} : Kept(u)
  BY Untouched
<1> QED
  BY <1>1, OneMoves

LEMMA NoneTouched ==
  ASSUME row' = row, integration' = integration, retries' = retries, damages' = damages
  PROVE  UNCHANGED <<stages, shownRounds>>
<1>1. \A t \in Tasks : Kept(t)
  BY Untouched
<1> QED
  BY <1>1 DEF Kept, stages, shownRounds

\* A step that moves the row of one task on, and no record.
LEMMA RowTouched ==
  ASSUME TypeOK, NEW t \in Tasks, NEW state, SetRow(t, state), integration' = integration,
         retries' = retries, damages' = damages,
         row'[t] = state => Moves(t)
  PROVE  [Promise!Next]_<<stages, shownRounds>>
<1>1. row'[t] = state /\ \A u \in Tasks \ {t} : row'[u] = row[u]
  BY DEF TypeOK, SetRow
<1> QED
  BY <1>1, OneTouched

LEMMA StartupLifecycle ==
  ASSUME LifecycleInv, Undisturbed, Startup
  PROVE  [Promise!Next]_<<stages, shownRounds>>
<1>1. /\ TypeOK /\ TodoInv /\ RowsAreKept
      /\ \A t \in Tasks : TaskInv(t)
  BY DEF LifecycleInv, RunningInv, QuietInv, Quiet, RowsStay, Undisturbed
<1>2. retries' = retries /\ damages' = damages
  BY DEF Startup, StartRunner, NextPass, StartupFails, ReconcileMissing, ReconcileOrphan,
         OrphanNotRecorded, ReconcileInterrupted, InterruptedIsLeft, outside, environ
<1>3. CASE StartRunner \/ NextPass \/ StartupFails \/ \E t \in Tasks : InterruptedIsLeft(t)
  <2>1. row' = row /\ integration' = integration
    BY <1>3 DEF StartRunner, NextPass, StartupFails, InterruptedIsLeft, RowIsLeft, disk, rows
  <2> QED
    BY <1>2, <2>1, NoneTouched
\* No folder is missing.
<1>4. ASSUME NEW t \in Tasks, ReconcileMissing(t) PROVE FALSE
  BY <1>1, <1>4 DEF ReconcileMissing, TodoInv
\* An orphan has been left by a claim: it is queued, and still new.
<1>5. ASSUME NEW t \in Tasks, ReconcileOrphan(t) PROVE [Promise!Next]_<<stages, shownRounds>>
  <2>1. row[t] = "none" /\ TaskInv(t)
    BY <1>1, <1>5 DEF ReconcileOrphan, TodoInv
  <2>2. InferOrphanState(t) = "queued"
    BY <2>1 DEF InferOrphanState, TaskInv
  <2>3. SetRow(t, "queued") /\ integration' = integration
    BY <1>5, <2>2 DEF ReconcileOrphan, disk
  <2>4. row'[t] = "queued" => Moves(t)
    BY <1>2, <2>1, <2>3 DEF Moves, Kept, Stage, Shown, Undisturbed
  <2> QED
    BY <1>1, <1>2, <2>3, <2>4, RowTouched
<1>6. ASSUME NEW t \in Tasks, OrphanNotRecorded(t) PROVE [Promise!Next]_<<stages, shownRounds>>
  <2>1. row[t] = "none" /\ integration[t].round = 0 /\ row' = row
    BY <1>1, <1>6 DEF OrphanNotRecorded, TodoInv, RowsAreKept, rows
  <2>2. /\ integration'[t] = integration[t] \/ integration'[t] = NoIntegration
        /\ \A u \in Tasks \ {t} : integration'[u] = integration[u]
    BY <1>1, <1>6 DEF OrphanNotRecorded, ForgetFolder, TypeOK
  <2>3. Kept(t)
    BY <1>2, <2>1, <2>2 DEF Kept, Stage, Shown, Undisturbed, NoIntegration
  <2> QED
    BY <1>2, <2>1, <2>2, <2>3, OneTouched DEF Moves
\* What was in flight ends, except for a branch that is pending.
<1>7. ASSUME NEW t \in Tasks, ReconcileInterrupted(t)
      PROVE  [Promise!Next]_<<stages, shownRounds>>
  <2>1. row[t] \in {"running", "integrating"}
    BY <1>1, <1>7 DEF ReconcileInterrupted, TodoInv, InterruptedStates
  <2>2. SetRow(t, "failed") /\ integration' = integration
    BY <1>7 DEF ReconcileInterrupted
  <2>3. row'[t] = "failed" => Moves(t)
    BY <1>2, <2>1, <2>2 DEF Moves, Kept, Ends, Stage, Shown, Undisturbed
  <2> QED
    BY <1>1, <1>2, <2>2, <2>3, RowTouched
<1> QED
  BY <1>3, <1>4, <1>5, <1>6, <1>7 DEF Startup

LEMMA CoordinateLifecycle ==
  ASSUME LifecycleInv, Undisturbed, Coordinate \/ \E w \in Slots : StartFails(w)
  PROVE  [Promise!Next]_<<stages, shownRounds>>
<1>1. TypeOK /\ ClaimInv /\ \A t \in Tasks : TaskInv(t)
  BY DEF LifecycleInv, RunningInv, QuietInv, Quiet
<1>2. retries' = retries /\ damages' = damages /\ integration' = integration
  BY DEF Coordinate, ClaimTask, ClaimInboxItem, RecordClaim, RecordClaimFails, StartClaimed,
         StartFails, outside, environ, disk
<1>3. ASSUME NEW t \in Tasks, row[t] \in {"queued", "needs_revision"}, SetRow(t, "running")
      PROVE  [Promise!Next]_<<stages, shownRounds>>
  <2>1. row'[t] = "running" => Moves(t)
    BY <1>1, <1>2, <1>3 DEF TaskInv, Moves, Begins, Stage, Shown, Undisturbed
  <2> QED
    BY <1>1, <1>2, <1>3, <2>1, RowTouched
<1>4. ASSUME NEW t \in Tasks, NEW w \in Slots, ClaimTask(t, w)
      PROVE  [Promise!Next]_<<stages, shownRounds>>
  <2>1. row[t] \in {"queued", "needs_revision"} /\ SetRow(t, "running")
    BY <1>4 DEF ClaimTask, NextToClaim, RevisionTasks, QueuedTasks
  <2> QED
    BY <1>3, <2>1
<1>5. CASE RecordClaim
  <2>1. PICK t \in Tasks : row[t] = "none" /\ SetRow(t, "queued")
    BY <1>1, <1>5 DEF RecordClaim, ClaimInv, TypeOK
  <2>2. row'[t] = "queued" => Moves(t)
    BY <1>2, <2>1 DEF Moves, Kept, Stage, Shown, Undisturbed
  <2> QED
    BY <1>1, <1>2, <2>1, <2>2, RowTouched
<1>6. ASSUME NEW w \in Slots, StartClaimed(w)
      PROVE  [Promise!Next]_<<stages, shownRounds>>
  <2>1. ctask \in Tasks /\ row[ctask] = "queued" /\ SetRow(ctask, "running")
    BY <1>1, <1>6 DEF StartClaimed, ClaimInv, TypeOK
  <2> QED
    BY <1>3, <2>1
<1>7. CASE RecordClaimFails \/ (\E t \in Tasks : ClaimInboxItem(t)) \/ \E w \in Slots : StartFails(w)
  <2>1. row' = row
    BY <1>7 DEF RecordClaimFails, ClaimInboxItem, StartFails, rows
  <2> QED
    BY <1>2, <2>1, NoneTouched
<1> QED
  BY <1>4, <1>5, <1>6, <1>7 DEF Coordinate

LEMMA WorkLifecycle ==
  ASSUME LifecycleInv, Undisturbed, NEW w \in Slots, Work(w) \/ CancelWorker(w)
  PROVE  [Promise!Next]_<<stages, shownRounds>>
<1>1. TypeOK /\ WorkerInv(w) /\ MergeInv /\ RunsAreFresh /\ PriorIsRead
  BY DEF LifecycleInv, RunningInv, QuietInv, Quiet, FreshInv, Fresh, RoundsInv
<1>2. retries' = retries /\ damages' = damages /\ Supervised(w)
  BY DEF Work, LaunchWorker, LaunchFails, AgentExits, ReadPrior, FinalizeWorkerBranch,
         FinalizeBranchFailed, SettleWorker, SupervisorError, UnrecoverableError,
         SupervisorRaises, CancelWorker, outside, environ, Supervised, Idle
<1>3. PICK t \in Tasks : t = wtask[w]
  BY <1>1, <1>2 DEF TypeOK
<1>4. row[t] = "running"
  BY <1>1, <1>2, <1>3 DEF WorkerInv
<1>5. CASE \/ LaunchWorker(w) \/ LaunchFails(w) \/ ReadPrior(w) \/ CancelWorker(w)
           \/ UnrecoverableError(w) \/ \E code \in {"ok", "error"} : AgentExits(w, code)
  <2>1. row' = row /\ integration' = integration
    BY <1>5 DEF LaunchWorker, LaunchFails, AgentExits, ReadPrior, CancelWorker, UnrecoverableError,
                RowIsLeft, disk, rows
  <2> QED
    BY <1>2, <2>1, NoneTouched
\* A finished run delivers a branch, or ends.
<1>6. ASSUME NEW record, integration' = [integration EXCEPT ![t] = record], row' = row,
             integration[t].status \in {"absent", "needs_revision"},
             \/ record.status \in {"noop", "blocked"}
             \/ record.status = "pending" /\ record.round = integration[t].round
      PROVE  [Promise!Next]_<<stages, shownRounds>>
  <2>1. integration'[t] = record /\ \A u \in Tasks \ {t} : integration'[u] = integration[u]
    BY <1>1, <1>6 DEF TypeOK
  <2>2. Delivers(t) \/ Ends(t)
    BY <1>2, <1>4, <1>6, <2>1 DEF Delivers, Ends, Stage, Shown, Undisturbed
  <2> QED
    BY <1>2, <1>6, <2>1, <2>2, OneTouched DEF Moves
<1>7. CASE FinalizeWorkerBranch(w)
  <2>1. /\ wpc[w] = "finalize" /\ row' = row
        /\ \E status \in {"pending", "noop"} :
             integration' = [integration EXCEPT ![t] = [status |-> status, round |-> prior]]
    BY <1>3, <1>7 DEF FinalizeWorkerBranch, FinalizedIntegration, rows
  <2>2. integration[t].status \in {"absent", "needs_revision"}
    BY <1>1, <1>3, <2>1 DEF RunsAreFresh, AtWork
  <2>3. prior = integration[t].round
    BY <1>1, <1>3, <1>4, <2>1 DEF PriorIsRead, MergeInv
  <2> QED
    BY <1>6, <2>1, <2>2, <2>3
<1>8. CASE FinalizeBranchFailed(w)
  <2>1. /\ wpc[w] \in AtWork /\ row' = row
        /\ integration' = [integration EXCEPT ![t] = [status |-> "blocked", round |-> 0]]
    BY <1>3, <1>8 DEF FinalizeBranchFailed, rows, AtWork
  <2>2. integration[t].status \in {"absent", "needs_revision"}
    BY <1>1, <1>3, <2>1 DEF RunsAreFresh
  <2> QED
    BY <1>6, <2>1, <2>2
\* A branch that is delivered stays so; what is not ends.
<1>9. CASE SettleWorker(w) \/ SupervisorError(w)
  <2>1. /\ integration' = integration
        /\ \E state \in {"failed", "needs_human", "done", "worker_done"} : SetRow(t, state)
    BY <1>3, <1>9 DEF SettleWorker, SupervisorError, SettledState
  <2>2. PICK state \in {"failed", "needs_human", "done", "worker_done"} : SetRow(t, state)
    BY <2>1
  <2>3. row'[t] = state => Moves(t)
    BY <1>2, <1>4, <2>1 DEF Moves, Kept, Ends, Stage, Shown, Undisturbed
  <2> QED
    BY <1>1, <1>2, <2>1, <2>2, <2>3, RowTouched
<1> QED
  BY <1>5, <1>7, <1>8, <1>9 DEF Work

\* What the thread writes decides on a branch that is pending.
LEMMA ThreadReturnsLifecycle ==
  ASSUME LifecycleInv, Undisturbed, NEW status, NEW round, ThreadReturns(status, round),
         \/ status \in {"merged", "noop", "blocked"}
         \/ status = "needs_revision" /\ iround < MaxRevisionRounds /\ round = iround + 1
  PROVE  [Promise!Next]_<<stages, shownRounds>>
<1>1. TypeOK /\ MergeInv /\ MergesThisRound /\ ipc = "merging"
  BY DEF LifecycleInv, RunningInv, QuietInv, Quiet, FreshInv, Fresh, ThreadReturns
<1>2. PICK t \in Tasks : t = itask
  BY <1>1 DEF TypeOK
<1>3. /\ row[t] = "integrating" /\ row' = row
      /\ integration[t].status = "pending" /\ integration[t].round = iround
      /\ integration'[t] = [status |-> status, round |-> round]
      /\ \A u \in Tasks \ {t} : integration'[u] = integration[u]
  BY <1>1, <1>2 DEF ThreadReturns, MergeInv, MergesThisRound, TypeOK, rows
<1>4. retries' = retries /\ damages' = damages
  BY DEF ThreadReturns, outside, environ
<1>5. CASE status \in {"merged", "noop", "blocked"}
  <2>1. Ends(t)
    BY <1>3, <1>4, <1>5 DEF Ends, Stage, Shown, Undisturbed
  <2> QED
    BY <1>3, <1>4, <2>1, OneTouched DEF Moves
<1>6. CASE status = "needs_revision" /\ iround < MaxRevisionRounds /\ round = iround + 1
  <2>1. Returns(t)
    BY <1>3, <1>4, <1>6 DEF Returns, Stage, Shown, Undisturbed
  <2> QED
    BY <1>3, <1>4, <2>1, OneTouched DEF Moves
<1> QED
  BY <1>5, <1>6

LEMMA IntegrateLifecycle ==
  ASSUME LifecycleInv, Undisturbed, ListPending \/ Integrate \/ FinishCancelled
  PROVE  [Promise!Next]_<<stages, shownRounds>>
<1>1. TypeOK /\ MergeInv /\ \A t \in Tasks : TaskInv(t)
  BY DEF LifecycleInv, RunningInv, QuietInv, Quiet
<1>2. retries' = retries /\ damages' = damages
  BY DEF ListPending, Integrate, MergeThread, StartIntegration, ThreadReads, IntegrateTask,
         ReturnForRevisionOrBlock, ThreadReturns, FinishIntegration, IntegrateTaskRaises,
         FinishFails, FinishCancelled, outside, environ
<1>3. ASSUME NEW t \in Tasks, StartIntegration(t)
      PROVE  [Promise!Next]_<<stages, shownRounds>>
  <2>1. /\ integration[t].status = "pending" /\ TaskInv(t)
        /\ SetRow(t, "integrating") /\ integration' = integration
    BY <1>1, <1>3 DEF StartIntegration, PendingIntegrations, TaskInv, disk
  <2>2. row'[t] = "integrating" => Moves(t)
    BY <1>2, <2>1 DEF TaskInv, Moves, Kept, Stage, Shown, Undisturbed
  <2> QED
    BY <1>1, <1>2, <2>1, <2>2, RowTouched
<1>4. ASSUME NEW status \in {"merged", "noop"}, IntegrateTask(status)
      PROVE  [Promise!Next]_<<stages, shownRounds>>
  BY <1>4, ThreadReturnsLifecycle DEF IntegrateTask
<1>5. ASSUME NEW revisionable \in BOOLEAN, ReturnForRevisionOrBlock(revisionable)
      PROVE  [Promise!Next]_<<stages, shownRounds>>
  <2>1. CASE CanRevise(revisionable)
    BY <1>5, <2>1, ThreadReturnsLifecycle DEF ReturnForRevisionOrBlock, CanRevise
  <2>2. CASE ~CanRevise(revisionable)
    BY <1>5, <2>2, ThreadReturnsLifecycle DEF ReturnForRevisionOrBlock
  <2> QED
    BY <2>1, <2>2
\* The row follows the record: what was sent back stays so, and so does what ended.
<1>6. ASSUME FinishIntegration, SetRow(itask, IntegratedState)
      PROVE  [Promise!Next]_<<stages, shownRounds>>
  <2>1. PICK t \in Tasks : t = itask
    BY <1>1, <1>6 DEF FinishIntegration, TypeOK
  <2>2. /\ row[t] = "integrating" /\ integration[t].status = istatus
        /\ istatus \in {"merged", "noop", "needs_revision", "blocked"}
        /\ SetRow(t, IntegratedState) /\ integration' = integration
    BY <1>1, <1>6, <2>1 DEF FinishIntegration, MergeInv
  <2>3. row'[t] = IntegratedState => Moves(t)
    BY <1>2, <2>2 DEF IntegratedState, Moves, Kept, Stage, Shown, Undisturbed
  <2> QED
    BY <1>1, <1>2, <2>2, <2>3, RowTouched
<1>7. CASE \/ ListPending \/ ThreadReads \/ IntegrateTaskRaises \/ FinishFails \/ FinishCancelled
           \/ FinishIntegration /\ UNCHANGED rows
  <2>1. row' = row /\ integration' = integration
    BY <1>7 DEF ListPending, ThreadReads, IntegrateTaskRaises, FinishFails, FinishCancelled,
                FinishIntegration, RowIsLeft, disk, rows
  <2> QED
    BY <1>2, <2>1, NoneTouched
<1> QED
  BY <1>3, <1>4, <1>5, <1>6, <1>7 DEF Integrate, MergeThread, FinishIntegration

\* Once somebody has intervened nothing is promised, now or later.
LEMMA Withdrawn ==
  ASSUME ~Undisturbed'
  PROVE  [Promise!Next]_<<stages, shownRounds>>
<1>1. \A t \in Tasks : Stage(t)' = "withdrawn" /\ Shown(t)' = 0
  BY DEF Stage, Shown
<1>2. Promise!Intervene
  BY <1>1 DEF Promise!Intervene, stages, shownRounds
<1> QED
  BY <1>2 DEF Promise!Next

LEMMA EnvironmentLifecycle ==
  ASSUME LifecycleInv, Undisturbed, Undisturbed', Environment
  PROVE  [Promise!Next]_<<stages, shownRounds>>
<1>1. TypeOK /\ NoRetry
  BY DEF LifecycleInv, RunningInv, QuietInv, Quiet
<1>2. ASSUME NEW t \in Tasks,
             RetryChecks(t) \/ RetryArchives(t) \/ RetryQueues(t) \/ RemoveTaskDir(t)
      PROVE  FALSE
  BY <1>1, <1>2
  DEF RetryChecks, RetryArchives, RetryQueues, RemoveTaskDir, NoRetry, Undisturbed
<1>3. CASE LoseDatabase
  BY <1>1, <1>3 DEF LoseDatabase, Undisturbed
<1>4. ASSUME NEW t \in Tasks, OrphanExits(t) PROVE [Promise!Next]_<<stages, shownRounds>>
  BY <1>4, NoneTouched DEF OrphanExits, rows, environ
<1>5. CASE Crash
  BY <1>5, NoneTouched DEF Crash, disk, rows
<1> QED
  BY <1>2, <1>3, <1>4, <1>5 DEF Environment

LEMMA NextLifecycle ==
  LifecycleInv /\ [Next]_vars => [Promise!Next]_<<stages, shownRounds>>
<1> SUFFICES ASSUME LifecycleInv, [Next]_vars, Undisturbed'
             PROVE  [Promise!Next]_<<stages, shownRounds>>
  BY Withdrawn
<1>1. Undisturbed
  BY UndisturbedBefore DEF LifecycleInv, RunningInv
<1>2. CASE RequestStop \/ RunnerExits \/ UNCHANGED vars
  BY <1>2, NoneTouched DEF RequestStop, RunnerExits, vars, disk, rows, outside, environ
<1> QED
  BY <1>1, <1>2, StartupLifecycle, CoordinateLifecycle, WorkLifecycle, IntegrateLifecycle,
     EnvironmentLifecycle DEF Next

\* Seen from outside, every task goes through the life cycle of TaskLifecycle:
\* it is worked on, delivered, sent back at most MaxRevisionRounds times, and
\* ends once, through crashes, restarts and failed writes, as long as nobody
\* uses `retry` and no folder or database is lost.
THEOREM LifecycleHolds == Spec => LifecycleIsKept
<1>1. Init => Promise!Init
  BY DEF Init, Promise!Init, Stage, Undisturbed, NoIntegration
<1>2. LifecycleInv /\ [Next]_vars => [Promise!Next]_<<stages, shownRounds>>
  BY NextLifecycle
<1> QED
  BY <1>1, <1>2, LifecycleInvariant, PTL
  DEF Spec, LifecycleIsKept, Promise!Spec, stages, shownRounds, Shown
=============================================================================
