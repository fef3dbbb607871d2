------------------------ MODULE AlluviumDaemonProofs ------------------------
(***************************************************************************)
(* Proofs about AlluviumDaemon for any set of tasks and slots and every    *)
(* value of the settings and bounds: types, then that no row says running  *)
(* without a supervisor, then, while nobody retries and nothing on disk is *)
(* lost, what keeps workers and the integrator apart, and last what        *)
(* becomes of the count of revision rounds.                                *)
(***************************************************************************)
EXTENDS AlluviumDaemon, TLAPS

(***************************************************************************)
(* The inductive invariants                                                *)
(***************************************************************************)
\* Nothing runs before the loops do.
NothingRuns ==
  /\ cpc = "idle" /\ ipc = "idle" /\ ilist = {} /\ runningTasks = {}
  /\ \A w \in Slots : wpc[w] = "free"
LoopsNotStarted == phase \notin {"up", "stopping"} => NothingRuns

\* A row left running is still to be reached by a pass of the start-up, or has
\* been reached by it: the first pass sees to those without a folder.
RunningListed ==
  \A t \in Tasks : row[t] = "running" =>
    /\ phase = "missing" => t \in taskDir \cup todo
    /\ phase = "orphans" => t \in taskDir
    /\ phase = "running" => t \in todo \cup unwritten
    /\ phase = "integrating" => t \in unwritten
OrphansHaveNoRow == phase = "orphans" => \A t \in todo : row[t] = "none"

Untyped == LoopsNotStarted /\ RunningListed /\ OrphansHaveNoRow /\ RunningHasWorker
RunningInv == TypeOK /\ Untyped

\* What an undisturbed root looks like, from each task ...
NoRetry == \A t \in Tasks : retrying[t] = "no"
DistinctWorkers ==
  \A v, w \in Slots : (Supervised(v) /\ Supervised(w) /\ wtask[v] = wtask[w]) => v = w
TaskInv(t) ==
  /\ t \in inbox => row[t] = "none" /\ t \notin taskDir
  /\ row[t] = "none" =>
       /\ integration[t].status = "absent" /\ result[t] = "absent"
       /\ t \notin needsHuman
  /\ row[t] # "none" => t \in taskDir
  /\ row[t] = "queued" => integration[t].status = "absent"
  /\ row[t] = "needs_revision" => integration[t].status = "needs_revision"
  /\ row[t] = "done" => integration[t].status \in {"noop", "merged"}
  /\ integration[t].status \in {"pending", "needs_revision"} => t \in worktree
  /\ integration[t].status = "needs_revision" => integration[t].round > 0
  /\ t \in orphans =>
       /\ row[t] \in {"running", "failed"}
       /\ integration[t].status # "pending"
  /\ t \in ilist => integration[t].status = "pending"

\* ... from each worker ...
WorkerInv(w) ==
  Supervised(w) =>
    /\ row[wtask[w]] = "running"
    /\ wtask[w] \notin orphans
    /\ wtask[w] \in runningTasks
    /\ wpc[w] = "finalize" => wtask[w] \in worktree
    /\ wpc[w] # "settle" => integration[wtask[w]].status # "pending"
    /\ (wpc[w] = "settle" /\ wout[w] = "noop") => integration[wtask[w]].status = "noop"

\* ... from the coordinator and the integrator, and from the start-up.
ClaimInv ==
  /\ cpc = "claimed" => row[ctask] = "none" /\ ctask \in taskDir
  /\ cpc = "queued"  => row[ctask] = "queued"
MergeInv ==
  /\ ipc # "idle" => row[itask] = "integrating" /\ itask \notin ilist
  /\ ipc \in {"started", "merging"} => integration[itask].status = "pending"
  /\ ipc = "returned" =>
       /\ integration[itask].status = istatus
       /\ istatus \in {"merged", "noop", "needs_revision", "blocked"}
TodoInv ==
  /\ phase = "missing" => todo = {}
  /\ phase = "orphans" => \A t \in todo : t \in taskDir /\ row[t] = "none"
  /\ phase \in InterruptedStates => \A t \in todo : row[t] = phase

Quiet ==
  /\ NoRetry
  /\ DistinctWorkers
  /\ \A t \in Tasks : TaskInv(t)
  /\ \A w \in Slots : WorkerInv(w)
  /\ ClaimInv
  /\ MergeInv
  /\ TodoInv
QuietInv == Undisturbed => Quiet

(***************************************************************************)
(* Types                                                                   *)
(***************************************************************************)
LEMMA InitTypeOK == Init => TypeOK
BY TasksAssumption, RoundsAssumption, BoundsAssumption
DEF Init, TypeOK, Integration, NoIntegration, IntegrationStatuses, Phases, Supervised, Idle

\* What an agent leaves in the .agent/ of its task has the right types.
LEMMA AgentWritesType ==
  ASSUME TypeOK, NEW t \in Tasks, AgentWrites(t)
  PROVE  /\ result' \in [Tasks -> ResultStatuses \cup {"absent"}]
         /\ needsHuman' \in SUBSET Tasks
<1>1. PICK status \in AgentResults \cup {result[t]} : result' = [result EXCEPT ![t] = status]
  BY DEF AgentWrites
<1>2. status \in ResultStatuses \cup {"absent"}
  BY ResultsAssumption DEF TypeOK, ResultStatuses
<1> QED
  BY <1>1, <1>2 DEF TypeOK, AgentWrites

\* A record the integrator writes has the right type.
LEMMA ThreadReturnsType ==
  ASSUME TypeOK, NEW status \in IntegrationStatuses, NEW round \in 0..MaxRevisionRounds,
         ThreadReturns(status, round)
  PROVE  integration' \in [Tasks -> Integration]
<1>1. [status |-> status, round |-> round] \in Integration
  BY DEF Integration
<1> QED
  BY <1>1 DEF ThreadReturns, TypeOK

\* A row is given one of the states, or left.
LEMMA SetRowType ==
  ASSUME TypeOK, NEW t \in Tasks, NEW state \in TASK_STATES,
         SetRow(t, state) \/ RowIsLeft(t) \/ UNCHANGED rows
  PROVE  row' \in [Tasks -> TASK_STATES \cup {"none"}] /\ unwritten' \in SUBSET Tasks
BY DEF SetRow, RowIsLeft, rows, TypeOK

\* A slot that is released, or taken for a task.
LEMMA SlotType ==
  ASSUME TypeOK, NEW w \in Slots, FreeSlot(w) \/ \E t \in Tasks : OccupySlot(w, t)
  PROVE  /\ wpc' \in [Slots -> Idle \cup {"launch", "agent", "exited", "finalize", "settle"}]
         /\ wtask' \in [Slots -> Tasks \cup {NoTask}]
         /\ \A v \in Slots : Supervised(v)' => wtask'[v] \in Tasks
         /\ wout' \in [Slots -> {"none", "ok", "error", "noop", "branch"}]
         /\ runningTasks' \in SUBSET Tasks
         /\ prior' = prior
<1>1. CASE FreeSlot(w)
  BY <1>1 DEF FreeSlot, TypeOK, Supervised, Idle
<1>2. CASE \E t \in Tasks : OccupySlot(w, t)
  BY <1>2 DEF OccupySlot, TypeOK, Supervised, Idle
<1> QED
  BY <1>1, <1>2

\* A result that is filled in.
LEMMA ResultType ==
  ASSUME TypeOK, NEW t \in Tasks, NEW status \in ResultStatuses,
         result' = result \/ EnsureResultFiles(t, status)
  PROVE  result' \in [Tasks -> ResultStatuses \cup {"absent"}]
BY DEF EnsureResultFiles, TypeOK

LEMMA ForgetFolderType ==
  ASSUME TypeOK, NEW t \in Tasks, ForgetFolder(t)
  PROVE  /\ taskDir' \in SUBSET Tasks
         /\ integration' \in [Tasks -> Integration]
         /\ result' \in [Tasks -> ResultStatuses \cup {"absent"}]
         /\ needsHuman' \in SUBSET Tasks
BY RoundsAssumption
DEF ForgetFolder, TypeOK, NoIntegration, Integration, IntegrationStatuses

LEMMA StartupTypeOK == TypeOK /\ Startup => TypeOK'
<1> SUFFICES ASSUME TypeOK, Startup PROVE TypeOK'
  OBVIOUS
<1> USE DEF TypeOK, disk, claimer, workers, merger, outside, environ, Supervised
<1>1. \A pass \in Phases : ToReconcile(pass) \in SUBSET Tasks
  BY DEF ToReconcile
<1>2. CASE StartRunner
  BY <1>1, <1>2 DEF StartRunner, EnterPass, Phases
<1>3. CASE NextPass
  BY <1>1, <1>3 DEF NextPass, EnterPass, Phases, rows
<1>4. CASE StartupFails
  BY <1>4 DEF StartupFails, Phases, rows
<1>5. ASSUME NEW t \in Tasks, ReconcileMissing(t) PROVE TypeOK'
  <2>1. row' \in [Tasks -> TASK_STATES \cup {"none"}] /\ unwritten' \in SUBSET Tasks
    BY <1>5, SetRowType DEF ReconcileMissing, TASK_STATES
  <2> QED
    BY <1>5, <2>1 DEF ReconcileMissing
<1>6. ASSUME NEW t \in Tasks, ReconcileOrphan(t) PROVE TypeOK'
  <2>1. InferOrphanState(t) \in TASK_STATES
    BY DEF InferOrphanState, TASK_STATES, ResultStatuses
  <2>2. row' \in [Tasks -> TASK_STATES \cup {"none"}] /\ unwritten' \in SUBSET Tasks
    BY <1>6, <2>1, SetRowType DEF ReconcileOrphan
  <2> QED
    BY <1>6, <2>2 DEF ReconcileOrphan
<1>7. ASSUME NEW t \in Tasks, OrphanNotRecorded(t) PROVE TypeOK'
  BY <1>7, ForgetFolderType DEF OrphanNotRecorded, rows
<1>8. ASSUME NEW t \in Tasks, ReconcileInterrupted(t) \/ InterruptedIsLeft(t) PROVE TypeOK'
  <2>1. row' \in [Tasks -> TASK_STATES \cup {"none"}] /\ unwritten' \in SUBSET Tasks
    BY <1>8, SetRowType DEF ReconcileInterrupted, InterruptedIsLeft, TASK_STATES
  <2>2. result' \in [Tasks -> ResultStatuses \cup {"absent"}]
    BY <1>8, ResultType DEF ReconcileInterrupted, InterruptedIsLeft, ResultStatuses
  <2> QED
    BY <1>8, <2>1, <2>2 DEF ReconcileInterrupted, InterruptedIsLeft
<1> QED
  BY <1>2, <1>3, <1>4, <1>5, <1>6, <1>7, <1>8 DEF Startup

LEMMA CoordinateTypeOK == TypeOK /\ Coordinate => TypeOK'
<1> SUFFICES ASSUME TypeOK, Coordinate PROVE TypeOK'
  OBVIOUS
<1> USE TasksAssumption DEF TypeOK, disk, runner, claimer, workers, merger, outside, environ
<1>1. ASSUME NEW t \in Tasks, NEW w \in Slots, ClaimTask(t, w) PROVE TypeOK'
  <2>1. OccupySlot(w, t) /\ SetRow(t, "running") /\ "running" \in TASK_STATES
    BY <1>1 DEF ClaimTask, TASK_STATES
  <2> QED
    BY <1>1, <2>1, SlotType, SetRowType DEF ClaimTask
<1>2. ASSUME NEW t \in Tasks, ClaimInboxItem(t) PROVE TypeOK'
  BY <1>2 DEF ClaimInboxItem, rows, Supervised
<1>3. CASE RecordClaim
  BY <1>3 DEF RecordClaim, SetRow, TASK_STATES, Supervised
<1>4. CASE RecordClaimFails
  BY <1>4 DEF RecordClaimFails, rows, Supervised
<1>5. ASSUME NEW w \in Slots, StartClaimed(w) PROVE TypeOK'
  <2>1. /\ ctask \in Tasks /\ OccupySlot(w, ctask) /\ SetRow(ctask, "running")
        /\ "running" \in TASK_STATES
    BY <1>5 DEF StartClaimed, TASK_STATES
  <2> QED
    BY <1>5, <2>1, SlotType, SetRowType DEF StartClaimed
<1> QED
  BY <1>1, <1>2, <1>3, <1>4, <1>5 DEF Coordinate

LEMMA StartFailsTypeOK ==
  ASSUME TypeOK, NEW w \in Slots, StartFails(w)
  PROVE  TypeOK'
BY DEF StartFails, TypeOK, Supervised, Idle, disk, rows, runner, merger, outside, environ

\* The types of what the end of a supervisor leaves.
LEMMA SettledTypes ==
  \A w \in Slots : /\ SettledState(w) \in TASK_STATES
                   /\ ResultFor(SettledState(w)) \in ResultStatuses
                   /\ ResultsWritten(w) \subseteq ResultStatuses
BY DEF SettledState, ResultFor, ResultsWritten, TASK_STATES, ResultStatuses

LEMMA WorkTypeOK == ASSUME NEW w \in Slots PROVE TypeOK /\ Work(w) => TypeOK'
<1> SUFFICES ASSUME TypeOK, Work(w) PROVE TypeOK'
  OBVIOUS
<1> USE DEF TypeOK, disk, runner, claimer, merger, outside, environ, Supervised, Idle
<1>1. CASE LaunchWorker(w)
  BY <1>1 DEF LaunchWorker, rows
<1>2. CASE LaunchFails(w)
  BY <1>2 DEF LaunchFails, rows, ResultStatuses
<1>3. ASSUME NEW code \in {"ok", "error"}, AgentExits(w, code) PROVE TypeOK'
  <2>1. wtask[w] \in Tasks /\ AgentWrites(wtask[w])
    BY <1>3 DEF AgentExits
  <2>2. /\ result' \in [Tasks -> ResultStatuses \cup {"absent"}]
        /\ needsHuman' \in SUBSET Tasks
    BY <2>1, AgentWritesType
  <2> QED
    BY <1>3, <2>1, <2>2 DEF AgentExits, rows
<1>4. CASE ReadPrior(w)
  BY <1>4 DEF ReadPrior, rows, Integration
<1>5. CASE FinalizeWorkerBranch(w)
  <2>1. wtask[w] \in Tasks
    BY <1>5 DEF FinalizeWorkerBranch
  <2>2. \A status \in {"pending", "noop"} : FinalizedIntegration(status) \in Integration
    BY DEF FinalizedIntegration, Integration, IntegrationStatuses
  <2> QED
    BY <1>5, <2>1, <2>2, RoundsAssumption DEF FinalizeWorkerBranch, rows
<1>6. CASE FinalizeBranchFailed(w)
  BY <1>6, RoundsAssumption DEF FinalizeBranchFailed, Integration, IntegrationStatuses, rows
<1>7. CASE SettleWorker(w)
  <2>1. /\ wtask[w] \in Tasks /\ FreeSlot(w) /\ SetRow(wtask[w], SettledState(w))
        /\ EnsureResultFiles(wtask[w], ResultFor(SettledState(w)))
        /\ worktree' \in SUBSET Tasks
    BY <1>7 DEF SettleWorker, CleanupTaskWorktreeAndBranch
  <2> QED
    BY <1>7, <2>1, SlotType, SetRowType, ResultType, SettledTypes DEF SettleWorker
<1>8. CASE SupervisorError(w) \/ UnrecoverableError(w)
  <2>1. SupervisorRaises(w) /\ wpc[w] \notin Idle
    BY <1>8 DEF SupervisorError, UnrecoverableError, SupervisorRaises
  <2>2. wtask[w] \in Tasks
    BY <2>1
  <2>3. worktree' \in SUBSET Tasks /\ orphans' \in SUBSET Tasks
    BY <2>1, <2>2 DEF SupervisorRaises, CleanupTaskWorktreeAndBranch
  <2>4. /\ FreeSlot(w)
        /\ SetRow(wtask[w], "failed") \/ RowIsLeft(wtask[w])
        /\ result' = result \/ \E status \in ResultsWritten(w) : EnsureResultFiles(wtask[w], status)
        /\ "failed" \in TASK_STATES
    BY <1>8 DEF SupervisorError, UnrecoverableError, TASK_STATES
  <2>5. row' \in [Tasks -> TASK_STATES \cup {"none"}] /\ unwritten' \in SUBSET Tasks
    BY <2>2, <2>4, SetRowType
  <2>6. result' \in [Tasks -> ResultStatuses \cup {"absent"}]
    BY <2>2, <2>4, ResultType, SettledTypes
  <2> QED
    BY <1>8, <2>3, <2>4, <2>5, <2>6, SlotType DEF SupervisorError, UnrecoverableError
<1> QED
  BY <1>1, <1>2, <1>3, <1>4, <1>5, <1>6, <1>7, <1>8 DEF Work

LEMMA CancelTypeOK ==
  ASSUME TypeOK, NEW w \in Slots, CancelWorker(w)
  PROVE  TypeOK'
<1>1. wpc[w] = "agent" => wtask[w] \in Tasks /\ AgentWrites(wtask[w])
  BY DEF CancelWorker, TypeOK, Supervised, Idle
<1>2. /\ result' \in [Tasks -> ResultStatuses \cup {"absent"}]
      /\ needsHuman' \in SUBSET Tasks
  BY <1>1, AgentWritesType DEF CancelWorker, TypeOK
<1>3. orphans' \in SUBSET Tasks /\ FreeSlot(w)
  BY <1>1 DEF CancelWorker, TypeOK
<1> QED
  BY <1>2, <1>3, SlotType DEF CancelWorker, TypeOK, rows, runner, claimer, merger, environ

LEMMA IntegrateTypeOK == TypeOK /\ (ListPending \/ Integrate \/ FinishCancelled) => TypeOK'
<1> SUFFICES ASSUME TypeOK, ListPending \/ Integrate \/ FinishCancelled PROVE TypeOK'
  OBVIOUS
<1> USE TasksAssumption, RoundsAssumption
    DEF TypeOK, disk, runner, claimer, workers, outside, environ, Integration,
        IntegrationStatuses, Supervised
<1>1. ASSUME NEW t \in Tasks, StartIntegration(t) PROVE TypeOK'
  BY <1>1 DEF StartIntegration, SetRow, TASK_STATES
<1>2. CASE ThreadReads
  BY <1>2 DEF ThreadReads, rows
<1>3. ASSUME NEW status \in {"merged", "noop"}, IntegrateTask(status) PROVE TypeOK'
  BY <1>3 DEF IntegrateTask, ThreadReturns, CleanupTaskWorktreeAndBranch, rows
<1>4. ASSUME NEW revisionable \in BOOLEAN, ReturnForRevisionOrBlock(revisionable)
      PROVE TypeOK'
  <2>1. CASE CanRevise(revisionable)
    <3>1. iround + 1 \in 0..MaxRevisionRounds
      BY <2>1 DEF CanRevise
    <3>2. ThreadReturns("needs_revision", iround + 1) /\ worktree' = worktree
      BY <1>4, <2>1 DEF ReturnForRevisionOrBlock
    <3> QED
      BY <3>1, <3>2, ThreadReturnsType DEF ThreadReturns, rows
  <2>2. CASE ~CanRevise(revisionable)
    <3>1. ThreadReturns("blocked", iround) /\ worktree' = worktree
      BY <1>4, <2>2 DEF ReturnForRevisionOrBlock
    <3> QED
      BY <3>1, ThreadReturnsType DEF ThreadReturns, rows
  <2> QED
    BY <2>1, <2>2
<1>5. CASE IntegrateTaskRaises
  <2>1. itask \in Tasks /\ (UNCHANGED rows \/ RowIsLeft(itask)) /\ IntegratorIdles
    BY <1>5 DEF IntegrateTaskRaises
  <2>2. row' \in [Tasks -> TASK_STATES \cup {"none"}] /\ unwritten' \in SUBSET Tasks
    BY <2>1 DEF RowIsLeft, rows
  <2> QED
    BY <1>5, <2>1, <2>2 DEF IntegrateTaskRaises, IntegratorIdles
<1>6. CASE FinishIntegration
  <2>1. itask \in Tasks /\ (UNCHANGED rows \/ SetRow(itask, IntegratedState))
        /\ IntegratedState \in TASK_STATES
    BY <1>6 DEF FinishIntegration, IntegratedState, TASK_STATES
  <2> QED
    BY <1>6, <2>1, SetRowType DEF FinishIntegration, IntegratorIdles
<1>7. CASE FinishFails \/ FinishCancelled
  <2>1. itask \in Tasks /\ RowIsLeft(itask) /\ IntegratorIdles
    BY <1>7 DEF FinishFails, FinishCancelled
  <2>2. row' \in [Tasks -> TASK_STATES \cup {"none"}] /\ unwritten' \in SUBSET Tasks
    BY <2>1 DEF RowIsLeft
  <2>3. needsHuman' \in {needsHuman, needsHuman \cup {itask}}
    BY <1>7 DEF FinishFails, FinishCancelled
  <2>4. UNCHANGED <<inbox, taskDir, integration, result, worktree, runner, claimer, workers,
                    ilist, outside>>
    BY <1>7 DEF FinishFails, FinishCancelled
  <2> QED
    BY <2>1, <2>2, <2>3, <2>4 DEF IntegratorIdles
<1>8. CASE ListPending
  BY <1>8 DEF ListPending, PendingIntegrations, rows
<1> QED
  BY <1>1, <1>2, <1>3, <1>4, <1>5, <1>6, <1>7, <1>8 DEF Integrate, MergeThread

LEMMA EnvironmentTypeOK == TypeOK /\ Environment => TypeOK'
<1> SUFFICES ASSUME TypeOK, Environment PROVE TypeOK'
  OBVIOUS
<1> USE TasksAssumption, BoundsAssumption
    DEF TypeOK, disk, rows, runner, claimer, workers, merger, environ, outside, Supervised
<1>1. ASSUME NEW t \in Tasks, RetryChecks(t) PROVE TypeOK'
  BY <1>1 DEF RetryChecks
<1>2. ASSUME NEW t \in Tasks, RetryArchives(t) PROVE TypeOK'
  BY <1>2 DEF RetryArchives
<1>3. ASSUME NEW t \in Tasks, RetryQueues(t) PROVE TypeOK'
  BY <1>3 DEF RetryQueues, SetRow, TASK_STATES
<1>4. ASSUME NEW t \in Tasks, OrphanExits(t) PROVE TypeOK'
  <2>1. /\ result' \in [Tasks -> ResultStatuses \cup {"absent"}]
        /\ needsHuman' \in SUBSET Tasks
    BY <1>4, AgentWritesType DEF OrphanExits
  <2> QED
    BY <1>4, <2>1 DEF OrphanExits
<1>5. ASSUME NEW t \in Tasks, RemoveTaskDir(t) PROVE TypeOK'
  <2>1. ForgetFolder(t)
    BY <1>5 DEF RemoveTaskDir
  <2> QED
    BY <1>5, <2>1, ForgetFolderType DEF RemoveTaskDir
<1>6. CASE Crash
  <2>1. {wtask[w] : w \in {v \in Slots : wpc[v] = "agent"}} \subseteq Tasks
    BY DEF Idle
  <2>2. orphans' \in SUBSET Tasks
    BY <1>6, <2>1 DEF Crash
  <2>3. crashes' \in 0..MaxCrashes
    BY <1>6 DEF Crash
  <2> QED
    BY <1>6, <2>2, <2>3, RoundsAssumption
    DEF Crash, MemoryIsLost, IntegratorIdles, Phases, IntegrationStatuses, Idle
<1>7. CASE LoseDatabase
  BY <1>7 DEF LoseDatabase
<1> QED
  BY <1>1, <1>2, <1>3, <1>4, <1>5, <1>6, <1>7 DEF Environment

LEMMA NextTypeOK == TypeOK /\ [Next]_vars => TypeOK'
<1> SUFFICES ASSUME TypeOK, [Next]_vars PROVE TypeOK'
  OBVIOUS
<1> USE DEF TypeOK, disk, rows, runner, claimer, workers, merger, outside, environ, Supervised
<1>1. CASE RequestStop
  BY <1>1 DEF RequestStop, Phases
<1>2. CASE RunnerExits
  BY <1>2, RoundsAssumption
  DEF RunnerExits, MemoryIsLost, IntegratorIdles, Phases, IntegrationStatuses, Idle
<1>3. CASE UNCHANGED vars
  BY <1>3 DEF vars
<1> QED
  BY <1>1, <1>2, <1>3, StartupTypeOK, CoordinateTypeOK, StartFailsTypeOK, WorkTypeOK,
     CancelTypeOK, IntegrateTypeOK, EnvironmentTypeOK DEF Next

\* The variables always hold values of their types: in particular no record
\* counts more revision rounds than max_revision_rounds.
THEOREM TypeCorrect == Spec => []TypeOK
<1>1. Init => TypeOK
  BY InitTypeOK
<1>2. TypeOK /\ [Next]_vars => TypeOK'
  BY NextTypeOK
<1> QED
  BY <1>1, <1>2, PTL DEF Spec

(***************************************************************************)
(* No row says running without a supervisor, unless it could not be written *)
(***************************************************************************)
\* The loops run: nothing of the start-up is left.
LEMMA LoopsRun ==
  ASSUME RunningInv,
         \/ cpc # "idle" \/ ipc # "idle" \/ LoopFree \/ phase \in {"up", "stopping"}
         \/ \E w \in Slots : Supervised(w)
  PROVE  phase \in {"up", "stopping"}
BY DEF RunningInv, Untyped, LoopsNotStarted, NothingRuns, LoopFree, Supervised, Idle

\* While the loops run only running rows and their supervisors matter.
LEMMA RunningSuffices ==
  ASSUME phase \in {"up", "stopping"}, phase' = phase, RunningHasWorker'
  PROVE  Untyped'
BY DEF Untyped, LoopsNotStarted, RunningListed, OrphansHaveNoRow

LEMMA StartupRunning == RunningInv /\ Startup => Untyped'
<1> SUFFICES ASSUME RunningInv, Startup PROVE Untyped'
  OBVIOUS
<1> USE DEF RunningInv, Untyped, LoopsNotStarted, RunningListed, OrphansHaveNoRow,
            RunningHasWorker, NothingRuns, TypeOK, InterruptedStates, claimer, workers, merger
<1>1. CASE StartRunner
  BY <1>1 DEF StartRunner, EnterPass, ToReconcile, disk
<1>2. CASE NextPass
  BY <1>2 DEF NextPass, EnterPass, ToReconcile, disk, rows
<1>3. CASE StartupFails
  BY <1>3 DEF StartupFails, disk, rows
<1>4. ASSUME NEW t \in Tasks, ReconcileMissing(t) PROVE Untyped'
  BY <1>4 DEF ReconcileMissing, SetRow, disk
<1>5. ASSUME NEW t \in Tasks, ReconcileOrphan(t) PROVE Untyped'
  <2>1. InferOrphanState(t) \in {"queued", "done", "failed", "needs_human"}
    BY DEF InferOrphanState, ResultStatuses
  <2> QED
    BY <1>5, <2>1 DEF ReconcileOrphan, SetRow, disk
<1>6. ASSUME NEW t \in Tasks, OrphanNotRecorded(t) PROVE Untyped'
  BY <1>6 DEF OrphanNotRecorded, ForgetFolder, rows
<1>7. ASSUME NEW t \in Tasks, ReconcileInterrupted(t) PROVE Untyped'
  BY <1>7 DEF ReconcileInterrupted, SetRow
<1>8. ASSUME NEW t \in Tasks, InterruptedIsLeft(t) PROVE Untyped'
  BY <1>8 DEF InterruptedIsLeft, RowIsLeft
<1> QED
  BY <1>1, <1>2, <1>3, <1>4, <1>5, <1>6, <1>7, <1>8 DEF Startup

\* A slot is taken for each row that is set to running.
LEMMA OccupyRunning ==
  ASSUME RunningInv, NEW t \in Tasks, NEW w \in Slots, OccupySlot(w, t), SetRow(t, "running"),
         phase' = phase
  PROVE  RunningHasWorker'
<1>1. t \in Tasks /\ w \in WorkersOf(t)'
  BY DEF OccupySlot, WorkersOf, Supervised, Idle, RunningInv, TypeOK
<1>2. ASSUME NEW u \in Tasks, u # t PROVE WorkersOf(u) # {} => WorkersOf(u)' # {}
  BY DEF OccupySlot, WorkersOf, Supervised, Idle, RunningInv, TypeOK
<1> QED
  BY <1>1, <1>2 DEF RunningInv, Untyped, RunningHasWorker, SetRow, TypeOK

LEMMA CoordinateRunning ==
  ASSUME RunningInv, Coordinate \/ \E w \in Slots : StartFails(w)
  PROVE  Untyped'
<1> USE DEF RunningInv, Untyped, RunningHasWorker, WorkersOf, Supervised, TypeOK, runner, workers
<1>1. ASSUME NEW t \in Tasks, NEW w \in Slots, ClaimTask(t, w) PROVE Untyped'
  <2>1. phase \in {"up", "stopping"} /\ phase' = phase /\ OccupySlot(w, t) /\ SetRow(t, "running")
    BY <1>1 DEF ClaimTask
  <2> QED
    BY <2>1, OccupyRunning, RunningSuffices
<1>2. ASSUME NEW t \in Tasks, ClaimInboxItem(t) PROVE Untyped'
  <2>1. phase \in {"up", "stopping"} /\ phase' = phase
    BY <1>2 DEF ClaimInboxItem
  <2> QED
    BY <1>2, <2>1, RunningSuffices DEF ClaimInboxItem, rows
<1>3. CASE RecordClaim
  <2>1. phase \in {"up", "stopping"} /\ phase' = phase
    BY <1>3, LoopsRun DEF RecordClaim
  <2> QED
    BY <1>3, <2>1, RunningSuffices DEF RecordClaim, SetRow
<1>4. CASE RecordClaimFails
  <2>1. phase \in {"up", "stopping"} /\ phase' = phase
    BY <1>4, LoopsRun DEF RecordClaimFails
  <2> QED
    BY <1>4, <2>1, RunningSuffices DEF RecordClaimFails, rows
<1>5. ASSUME NEW w \in Slots, StartClaimed(w) PROVE Untyped'
  <2>1. /\ phase \in {"up", "stopping"} /\ phase' = phase
        /\ ctask \in Tasks /\ OccupySlot(w, ctask) /\ SetRow(ctask, "running")
    BY <1>5, LoopsRun DEF StartClaimed
  <2> QED
    BY <2>1, OccupyRunning, RunningSuffices
<1>6. ASSUME NEW w \in Slots, StartFails(w) PROVE Untyped'
  <2>1. phase \in {"up", "stopping"} /\ phase' = phase
    BY <1>6, LoopsRun DEF StartFails
  <2>2. \A u \in Tasks : WorkersOf(u) \subseteq WorkersOf(u)'
    BY <1>6 DEF StartFails, Idle
  <2> QED
    BY <1>6, <2>1, <2>2, RunningSuffices DEF StartFails, rows
<1> QED
  BY <1>1, <1>2, <1>3, <1>4, <1>5, <1>6 DEF Coordinate

\* A supervisor that ends, or tries to end, the running state of its task.
LEMMA FreeRunning ==
  ASSUME RunningInv, NEW w \in Slots, NEW state \in TASK_STATES \ {"running"}, Supervised(w),
         FreeSlot(w), SetRow(wtask[w], state) \/ RowIsLeft(wtask[w]), phase' = phase
  PROVE  RunningHasWorker'
<1>1. wtask[w] \in Tasks
  BY DEF RunningInv, TypeOK
<1>2. ASSUME NEW u \in Tasks, u # wtask[w] PROVE WorkersOf(u) # {} => WorkersOf(u)' # {}
  BY <1>2 DEF FreeSlot, WorkersOf, Supervised, Idle, RunningInv, TypeOK
<1> QED
  BY <1>1, <1>2 DEF RunningInv, Untyped, RunningHasWorker, SetRow, RowIsLeft, TypeOK

LEMMA WorkRunning == ASSUME NEW w \in Slots, RunningInv, Work(w) PROVE Untyped'
<1>1. Supervised(w) /\ phase' = phase
  BY DEF Work, LaunchWorker, LaunchFails, AgentExits, ReadPrior, FinalizeWorkerBranch,
         FinalizeBranchFailed, SettleWorker, SupervisorError, UnrecoverableError,
         SupervisorRaises, Supervised, Idle, runner
<1>2. phase \in {"up", "stopping"}
  BY <1>1, LoopsRun
<1>3. CASE LaunchWorker(w) \/ LaunchFails(w) \/ (\E code \in {"ok", "error"} : AgentExits(w, code))
           \/ ReadPrior(w) \/ FinalizeWorkerBranch(w) \/ FinalizeBranchFailed(w)
  <2>1. UNCHANGED <<rows, wtask>> /\ \E place \in {"agent", "settle", "exited", "finalize"} :
                                        wpc' = [wpc EXCEPT ![w] = place]
    BY <1>3 DEF LaunchWorker, LaunchFails, AgentExits, ReadPrior, FinalizeWorkerBranch,
                FinalizeBranchFailed
  <2>2. \A u \in Tasks : WorkersOf(u)' = WorkersOf(u)
    BY <1>1, <2>1 DEF WorkersOf, Supervised, Idle, RunningInv, TypeOK
  <2> QED
    BY <1>1, <1>2, <2>1, <2>2, RunningSuffices
    DEF RunningInv, Untyped, RunningHasWorker, rows
<1>4. CASE SettleWorker(w)
  <2>1. SettledState(w) \in TASK_STATES \ {"running"}
    BY DEF SettledState, TASK_STATES
  <2>2. FreeSlot(w) /\ SetRow(wtask[w], SettledState(w))
    BY <1>4 DEF SettleWorker
  <2> QED
    BY <1>1, <1>2, <2>1, <2>2, FreeRunning, RunningSuffices
<1>5. CASE SupervisorError(w) \/ UnrecoverableError(w)
  <2>1. /\ FreeSlot(w) /\ (SetRow(wtask[w], "failed") \/ RowIsLeft(wtask[w]))
        /\ "failed" \in TASK_STATES \ {"running"}
    BY <1>5 DEF SupervisorError, UnrecoverableError, TASK_STATES
  <2> QED
    BY <1>1, <1>2, <2>1, FreeRunning, RunningSuffices
<1> QED
  BY <1>3, <1>4, <1>5 DEF Work

LEMMA CancelRunning == ASSUME NEW w \in Slots, RunningInv, CancelWorker(w) PROVE Untyped'
<1>1. phase = "stopping" /\ phase' = phase
  BY DEF CancelWorker, runner
<1> QED
  BY <1>1, RunningSuffices DEF RunningHasWorker

LEMMA IntegrateRunning ==
  ASSUME RunningInv, ListPending \/ Integrate \/ FinishCancelled
  PROVE  Untyped'
<1> USE DEF RunningInv, Untyped, RunningHasWorker, WorkersOf, Supervised, TypeOK, rows, runner, workers
<1>1. phase \in {"up", "stopping"} /\ phase' = phase
  BY LoopsRun
  DEF ListPending, Integrate, MergeThread, StartIntegration, ThreadReads, IntegrateTask,
      ReturnForRevisionOrBlock, ThreadReturns, FinishIntegration, IntegrateTaskRaises,
      FinishFails, FinishCancelled
<1>2. UNCHANGED workers
  BY DEF ListPending, Integrate, MergeThread, StartIntegration, ThreadReads, IntegrateTask,
         ReturnForRevisionOrBlock, ThreadReturns, FinishIntegration, IntegrateTaskRaises,
         FinishFails, FinishCancelled
<1>3. \/ UNCHANGED rows
      \/ \E t \in Tasks : RowIsLeft(t) \/ \E state \in TASK_STATES \ {"running"} : SetRow(t, state)
  <2>1. \A t \in Tasks : StartIntegration(t) => SetRow(t, "integrating")
    BY DEF StartIntegration
  <2>2. FinishIntegration => itask \in Tasks /\ (UNCHANGED rows \/ SetRow(itask, IntegratedState))
    BY DEF FinishIntegration
  <2>3. IntegratedState \in TASK_STATES \ {"running"} /\ "integrating" \in TASK_STATES \ {"running"}
    BY DEF IntegratedState, TASK_STATES
  <2>4. IntegrateTaskRaises \/ FinishFails \/ FinishCancelled =>
          itask \in Tasks /\ (UNCHANGED rows \/ RowIsLeft(itask))
    BY DEF IntegrateTaskRaises, FinishFails, FinishCancelled
  <2>5. ListPending \/ MergeThread => UNCHANGED rows
    BY DEF ListPending, MergeThread, ThreadReads, IntegrateTask, ReturnForRevisionOrBlock,
           ThreadReturns
  <2> QED
    BY <2>1, <2>2, <2>3, <2>4, <2>5 DEF Integrate
<1>4. RunningHasWorker'
  BY <1>1, <1>2, <1>3 DEF SetRow, RowIsLeft
<1> QED
  BY <1>1, <1>4, RunningSuffices

LEMMA EnvironmentRunning == RunningInv /\ Environment => Untyped'
<1> SUFFICES ASSUME RunningInv, Environment PROVE Untyped'
  OBVIOUS
<1> USE DEF RunningInv, Untyped, LoopsNotStarted, RunningListed, OrphansHaveNoRow,
            RunningHasWorker, NothingRuns, WorkersOf, Supervised, TypeOK,
            rows, runner, claimer, workers, merger
<1>1. ASSUME NEW t \in Tasks, RetryChecks(t) PROVE Untyped'
  BY <1>1 DEF RetryChecks, disk
<1>2. ASSUME NEW t \in Tasks, RetryArchives(t) PROVE Untyped'
  BY <1>2 DEF RetryArchives
<1>3. ASSUME NEW t \in Tasks, RetryQueues(t) PROVE Untyped'
  BY <1>3 DEF RetryQueues, SetRow, disk
<1>4. ASSUME NEW t \in Tasks, OrphanExits(t) PROVE Untyped'
  BY <1>4 DEF OrphanExits
<1>5. ASSUME NEW t \in Tasks, RemoveTaskDir(t) PROVE Untyped'
  BY <1>5 DEF RemoveTaskDir
<1>6. CASE Crash
  BY <1>6 DEF Crash, MemoryIsLost, IntegratorIdles
<1>7. CASE LoseDatabase
  BY <1>7 DEF LoseDatabase
<1> QED
  BY <1>1, <1>2, <1>3, <1>4, <1>5, <1>6, <1>7 DEF Environment

LEMMA NextRunning == RunningInv /\ [Next]_vars => RunningInv'
<1> SUFFICES ASSUME RunningInv, [Next]_vars PROVE Untyped'
  BY NextTypeOK DEF RunningInv
<1> USE DEF Untyped, LoopsNotStarted, RunningListed, OrphansHaveNoRow, RunningHasWorker,
            NothingRuns, WorkersOf, Supervised
<1>1. CASE RequestStop
  BY <1>1 DEF RequestStop
<1>2. CASE RunnerExits
  BY <1>2 DEF RunnerExits, MemoryIsLost, IntegratorIdles
<1>3. CASE UNCHANGED vars
  BY <1>3 DEF vars, RunningInv, disk, rows, runner, claimer, workers, merger
<1> QED
  BY <1>1, <1>2, <1>3, StartupRunning, CoordinateRunning, WorkRunning, CancelRunning,
     IntegrateRunning, EnvironmentRunning DEF Next

LEMMA RunningInvariant == Spec => []RunningInv
<1>1. Init => RunningInv
  BY InitTypeOK DEF Init, RunningInv, Untyped, LoopsNotStarted, NothingRuns, RunningListed,
                    OrphansHaveNoRow, RunningHasWorker
<1>2. RunningInv /\ [Next]_vars => RunningInv'
  BY NextRunning
<1> QED
  BY <1>1, <1>2, PTL DEF Spec

\* While the runner is up a row that says running has a supervisor, whatever
\* crashes, shutdowns, retries, losses and failed writes came before: start-up
\* takes up every row left running, with or without its folder, before the
\* loops start; only a supervisor that starts sets the state; and only one that
\* writes the row, or is refused by the database, leaves it.
THEOREM NothingRunsAlone == Spec => []RunningHasWorker
<1>1. RunningInv => RunningHasWorker
  BY DEF RunningInv, Untyped
<1> QED
  BY <1>1, RunningInvariant, PTL

(***************************************************************************)
(* Workers and the integrator keep apart                                   *)
(***************************************************************************)
LEMMA StartupQuiet == RunningInv /\ Quiet /\ Startup => Quiet'
<1> SUFFICES ASSUME RunningInv, Quiet, Startup PROVE Quiet'
  OBVIOUS
<1>1. phase \notin {"up", "stopping"} /\ NothingRuns /\ UNCHANGED <<claimer, workers, merger, outside>>
  BY DEF Startup, StartRunner, NextPass, StartupFails, ReconcileMissing, ReconcileOrphan,
         OrphanNotRecorded, ReconcileInterrupted, InterruptedIsLeft, InterruptedStates,
         RunningInv, Untyped, LoopsNotStarted
<1>2. (NoRetry /\ DistinctWorkers /\ (\A w \in Slots : WorkerInv(w)) /\ ClaimInv /\ MergeInv)'
  BY <1>1 DEF NothingRuns, Quiet, NoRetry, DistinctWorkers, WorkerInv, ClaimInv, MergeInv,
              Supervised, Idle, claimer, workers, merger, outside, environ
<1>3. (\A t \in Tasks : TaskInv(t))' /\ TodoInv'
  <2> USE <1>1 DEF RunningInv, Quiet, TaskInv, TodoInv, TypeOK, NothingRuns, InterruptedStates,
                   merger, outside
  <2>1. CASE StartRunner
    BY <2>1 DEF StartRunner, EnterPass, ToReconcile, disk
  <2>2. CASE NextPass
    BY <2>2 DEF NextPass, EnterPass, ToReconcile, disk, rows
  <2>3. CASE StartupFails
    BY <2>3 DEF StartupFails
  <2>4. ASSUME NEW t \in Tasks, ReconcileMissing(t) PROVE FALSE
    BY <2>4 DEF ReconcileMissing
  <2>5. ASSUME NEW t \in Tasks, ReconcileOrphan(t)
        PROVE  (\A u \in Tasks : TaskInv(u))' /\ TodoInv'
    <3>1. InferOrphanState(t) = "queued"
      BY <2>5 DEF ReconcileOrphan, InferOrphanState
    <3> QED
      BY <2>5, <3>1 DEF ReconcileOrphan, SetRow, disk
  <2>6. ASSUME NEW t \in Tasks, OrphanNotRecorded(t)
        PROVE  (\A u \in Tasks : TaskInv(u))' /\ TodoInv'
    BY <2>6 DEF OrphanNotRecorded, ForgetFolder, NoIntegration, rows
  <2>7. ASSUME NEW t \in Tasks, ReconcileInterrupted(t)
        PROVE  (\A u \in Tasks : TaskInv(u))' /\ TodoInv'
    BY <2>7 DEF ReconcileInterrupted, SetRow, EnsureResultFiles
  <2>8. ASSUME NEW t \in Tasks, InterruptedIsLeft(t)
        PROVE  (\A u \in Tasks : TaskInv(u))' /\ TodoInv'
    BY <2>8 DEF InterruptedIsLeft, RowIsLeft, EnsureResultFiles
  <2> QED
    BY <2>1, <2>2, <2>3, <2>4, <2>5, <2>6, <2>7, <2>8 DEF Startup
<1> QED
  BY <1>2, <1>3 DEF Quiet

\* A slot taken for a task that is queued or was returned.
LEMMA OccupyQuiet ==
  ASSUME RunningInv, Quiet, NEW t \in Tasks, NEW w \in Slots, OccupySlot(w, t),
         SetRow(t, "running"), row[t] \in {"queued", "needs_revision"},
         UNCHANGED <<disk, runner, merger, outside>>, ctask # t \/ cpc' = "idle",
         UNCHANGED claimer \/ cpc' = "idle", phase \in {"up", "stopping"}
  PROVE  Quiet'
<1> USE DEF RunningInv, Quiet, TypeOK, Supervised, Idle, disk, runner, merger, outside, environ
<1>1. /\ row' = [row EXCEPT ![t] = "running"] /\ wpc' = [wpc EXCEPT ![w] = "launch"]
      /\ wtask' = [wtask EXCEPT ![w] = t] /\ runningTasks' = runningTasks \cup {t}
      /\ wpc[w] = "free"
  BY DEF OccupySlot, SetRow
<1>2. t \notin orphans /\ integration[t].status \in {"absent", "needs_revision"}
  BY DEF TaskInv
<1>3. \A v \in Slots : Supervised(v) => wtask[v] # t
  BY DEF WorkerInv
<1>4. DistinctWorkers'
  BY <1>1, <1>3 DEF DistinctWorkers
<1>5. (\A u \in Tasks : TaskInv(u))'
  BY <1>1, <1>2 DEF TaskInv
<1>6. ASSUME NEW v \in Slots PROVE WorkerInv(v)'
  <2>1. WorkerInv(v)
    OBVIOUS
  <2>2. CASE v = w
    BY <1>1, <1>2, <2>2 DEF WorkerInv
  <2>3. CASE v # w
    <3>1. UNCHANGED <<wpc[v], wtask[v], integration, orphans>> /\ wout'[v] = wout[v]
      BY <1>1, <2>3 DEF OccupySlot
    <3> QED
      BY <1>1, <2>1, <3>1 DEF WorkerInv
  <2> QED
    BY <2>2, <2>3
<1>7. (NoRetry /\ MergeInv /\ TodoInv /\ ClaimInv)'
  BY <1>1 DEF NoRetry, MergeInv, TodoInv, ClaimInv, claimer, InterruptedStates
<1> QED
  BY <1>4, <1>5, <1>6, <1>7

LEMMA CoordinateQuiet ==
  ASSUME RunningInv, Quiet, Coordinate \/ \E w \in Slots : StartFails(w)
  PROVE  Quiet'
<1> USE DEF RunningInv, Quiet, TypeOK
<1>1. ASSUME NEW t \in Tasks, NEW w \in Slots, ClaimTask(t, w) PROVE Quiet'
  <2>1. row[t] \in {"queued", "needs_revision"}
    BY <1>1 DEF ClaimTask, NextToClaim, RevisionTasks, QueuedTasks
  <2>2. /\ OccupySlot(w, t) /\ SetRow(t, "running") /\ cpc' = "idle"
        /\ phase \in {"up", "stopping"} /\ UNCHANGED <<disk, runner, merger, outside>>
    BY <1>1 DEF ClaimTask, LoopFree, claimer
  <2> QED
    BY <2>1, <2>2, OccupyQuiet
<1>2. ASSUME NEW w \in Slots, StartClaimed(w) PROVE Quiet'
  <2>1. ctask \in Tasks /\ row[ctask] = "queued" /\ phase \in {"up", "stopping"}
    BY <1>2, LoopsRun DEF StartClaimed, ClaimInv
  <2>2. /\ OccupySlot(w, ctask) /\ SetRow(ctask, "running") /\ cpc' = "idle"
        /\ UNCHANGED <<disk, runner, merger, outside>>
    BY <1>2 DEF StartClaimed
  <2> QED
    BY <2>1, <2>2, OccupyQuiet
<1>3. CASE \/ \E t \in Tasks : ClaimInboxItem(t)
           \/ RecordClaim \/ RecordClaimFails \/ \E w \in Slots : StartFails(w)
  <2> USE DEF runner, merger, outside, environ, disk, rows, workers
  <2>1. phase \in {"up", "stopping"} /\ phase' = phase
    BY <1>3, LoopsRun DEF ClaimInboxItem, RecordClaim, RecordClaimFails, StartFails
  <2>2. (NoRetry /\ TodoInv)'
    BY <1>3, <2>1
    DEF NoRetry, TodoInv, InterruptedStates, ClaimInboxItem, RecordClaim, RecordClaimFails, StartFails
  <2>3. ASSUME NEW t \in Tasks, ClaimInboxItem(t) PROVE Quiet'
    <3>1. row[t] = "none" /\ t \notin taskDir
      BY <2>3 DEF ClaimInboxItem, TaskInv
    <3> QED
      BY <2>2, <2>3, <3>1
      DEF ClaimInboxItem, DistinctWorkers, TaskInv, WorkerInv, ClaimInv, MergeInv, Supervised
  <2>4. CASE RecordClaim
    <3>1. row[ctask] = "none" /\ ctask \in taskDir /\ ctask \in Tasks
      BY <2>4 DEF RecordClaim, ClaimInv
    <3> QED
      BY <2>2, <2>4, <3>1
      DEF RecordClaim, SetRow, DistinctWorkers, TaskInv, WorkerInv, ClaimInv, MergeInv, Supervised
  <2>5. CASE RecordClaimFails
    BY <2>2, <2>5
    DEF RecordClaimFails, DistinctWorkers, TaskInv, WorkerInv, ClaimInv, MergeInv, Supervised
  <2>6. ASSUME NEW w \in Slots, StartFails(w) PROVE Quiet'
    BY <2>2, <2>6
    DEF StartFails, DistinctWorkers, TaskInv, WorkerInv, ClaimInv, MergeInv, Supervised, Idle
  <2> QED
    BY <1>3, <2>3, <2>4, <2>5, <2>6
<1> QED
  BY <1>1, <1>2, <1>3 DEF Coordinate

\* What a step of one supervisor, which stays, leaves of the others and of the rest.
LEMMA SupervisorQuiet ==
  ASSUME RunningInv, Quiet, NEW w \in Slots, Supervised(w), wpc[w] # "settle",
         NEW place \in {"agent", "exited", "finalize", "settle"},
         wpc' = [wpc EXCEPT ![w] = place],
         UNCHANGED <<inbox, taskDir, rows, runner, claimer, wtask, runningTasks, merger, outside>>,
         \A v \in Slots \ {w} : wout'[v] = wout[v],
         worktree \subseteq worktree', place = "finalize" => wtask[w] \in worktree',
         \A t \in Tasks : row[t] = "none" => result'[t] = result[t] /\ t \notin needsHuman',
         \A t \in Tasks : t # wtask[w] => integration'[t] = integration[t],
         \/ integration' = integration /\ (place = "settle" => wpc[w] = "launch" /\ wout'[w] = "error")
         \/ /\ place = "settle" /\ integration'[wtask[w]].status \in {"pending", "noop", "blocked"}
            /\ integration'[wtask[w]].status = "pending" => wtask[w] \in worktree
            /\ wout'[w] = "noop" => integration'[wtask[w]].status = "noop"
  PROVE  Quiet'
<1> USE DEF RunningInv, Quiet, TypeOK, rows, runner, claimer, merger, outside, environ
<1>1. /\ wtask[w] \in Tasks /\ row[wtask[w]] = "running" /\ wtask[w] \notin orphans
      /\ wtask[w] \in runningTasks
      /\ wpc[w] # "settle" => integration[wtask[w]].status # "pending"
  BY DEF WorkerInv
<1>2. \A v \in Slots : Supervised(v)' <=> Supervised(v)
  BY DEF Supervised, Idle
<1>3. \A v \in Slots \ {w} : Supervised(v) => wtask[v] # wtask[w]
  BY DEF DistinctWorkers
<1>4. (NoRetry /\ DistinctWorkers /\ ClaimInv /\ TodoInv)'
  BY <1>2 DEF NoRetry, DistinctWorkers, ClaimInv, TodoInv, InterruptedStates
<1>5. ASSUME NEW t \in Tasks PROVE TaskInv(t)'
  <2>1. TaskInv(t)
    OBVIOUS
  <2>2. CASE t # wtask[w] \/ integration' = integration
    BY <2>1, <2>2 DEF TaskInv
  <2>3. CASE t = wtask[w] /\ integration' # integration
    <3>1. t \notin ilist
      BY <1>1, <2>1, <2>3 DEF TaskInv
    <3> QED
      BY <1>1, <2>1, <2>3, <3>1 DEF TaskInv
  <2> QED
    BY <2>2, <2>3
<1>6. ASSUME NEW v \in Slots PROVE WorkerInv(v)'
  <2>1. WorkerInv(v)
    OBVIOUS
  <2>2. CASE v = w
    BY <1>1, <1>2, <2>1, <2>2 DEF WorkerInv
  <2>3. CASE v # w
    <3>1. wpc'[v] = wpc[v] /\ wout'[v] = wout[v]
      BY <2>3
    <3>2. Supervised(v) => integration'[wtask[v]] = integration[wtask[v]]
      BY <1>3, <2>3
    <3> QED
      BY <1>2, <2>1, <3>1, <3>2 DEF WorkerInv
  <2> QED
    BY <2>2, <2>3
<1>7. MergeInv'
  <2>1. ipc # "idle" => itask \in Tasks /\ itask # wtask[w]
    BY <1>1 DEF MergeInv
  <2> QED
    BY <2>1 DEF MergeInv
<1> QED
  BY <1>4, <1>5, <1>6, <1>7

\* A supervisor that ends.
LEMMA FreeQuiet ==
  ASSUME RunningInv, Quiet, NEW w \in Slots, Supervised(w), FreeSlot(w),
         NEW state \in {"failed", "needs_human", "done", "worker_done"},
         SetRow(wtask[w], state) \/ UNCHANGED row,
         state = "done" => wpc[w] = "settle" /\ wout[w] = "noop",
         UNCHANGED <<inbox, taskDir, integration, runner, claimer, merger, environ>>,
         \A t \in Tasks : t # wtask[w] => result'[t] = result[t],
         \A t \in Tasks : row[t] = "none" => result'[t] = result[t] /\ t \notin needsHuman',
         \/ worktree' = worktree \/ worktree' = worktree \cup {wtask[w]}
         \/ wpc[w] = "settle" /\ wout[w] = "noop" /\ worktree' = worktree \ {wtask[w]},
         orphans' = orphans \/
           (wpc[w] = "agent" /\ orphans' = orphans \cup {wtask[w]} /\ state = "failed")
  PROVE  Quiet'
<1> USE DEF RunningInv, Quiet, TypeOK, runner, claimer, merger, environ
<1>1. /\ wtask[w] \in Tasks /\ row[wtask[w]] = "running" /\ wtask[w] \notin orphans
      /\ wpc[w] # "settle" => integration[wtask[w]].status # "pending"
      /\ (wpc[w] = "settle" /\ wout[w] = "noop") => integration[wtask[w]].status = "noop"
  BY DEF WorkerInv
<1>2. \A v \in Slots : Supervised(v)' <=> v # w /\ Supervised(v)
  BY DEF FreeSlot, Supervised, Idle
<1>3. \A v \in Slots \ {w} : /\ wpc'[v] = wpc[v] /\ wtask'[v] = wtask[v] /\ wout'[v] = wout[v]
                             /\ Supervised(v) => wtask[v] # wtask[w]
  BY DEF FreeSlot, DistinctWorkers
<1>4. \A t \in Tasks \ {wtask[w]} : row'[t] = row[t] /\ (t \in orphans' <=> t \in orphans)
                                    /\ (t \in worktree' <=> t \in worktree)
  BY <1>1 DEF SetRow
<1>5. row'[wtask[w]] \in {"running", state}
  BY <1>1 DEF SetRow
<1>6. (NoRetry /\ DistinctWorkers /\ ClaimInv)'
  BY <1>1, <1>2, <1>3, <1>4 DEF NoRetry, DistinctWorkers, ClaimInv
<1>7. ASSUME NEW t \in Tasks PROVE TaskInv(t)'
  <2>1. TaskInv(t)
    OBVIOUS
  <2>2. CASE t # wtask[w]
    BY <1>4, <2>1, <2>2 DEF TaskInv
  <2>3. CASE t = wtask[w]
    BY <1>1, <1>5, <2>1, <2>3 DEF TaskInv
  <2> QED
    BY <2>2, <2>3
<1>8. ASSUME NEW v \in Slots PROVE WorkerInv(v)'
  <2>1. WorkerInv(v)
    OBVIOUS
  <2>2. CASE v # w /\ Supervised(v)
    <3>1. wtask[v] \in Tasks \ {wtask[w]} /\ wtask[v] \in runningTasks'
      BY <1>3, <2>1, <2>2 DEF FreeSlot, WorkerInv
    <3> QED
      BY <1>3, <1>4, <2>1, <2>2, <3>1 DEF WorkerInv
  <2> QED
    BY <1>2, <2>2 DEF WorkerInv
<1>9. MergeInv'
  BY <1>1, <1>4 DEF MergeInv
<1>10. TodoInv'
  <2>1. phase \in {"up", "stopping"}
    BY LoopsRun
  <2> QED
    BY <2>1 DEF TodoInv, InterruptedStates
<1> QED
  BY <1>6, <1>7, <1>8, <1>9, <1>10

LEMMA WorkQuiet == ASSUME NEW w \in Slots, RunningInv, Quiet, Work(w) PROVE Quiet'
<1> USE DEF RunningInv, Quiet, TypeOK, Supervised, Idle
<1> DEFINE Others == UNCHANGED <<inbox, taskDir, rows, runner, claimer, wtask, runningTasks, merger, outside>>
<1>1. Supervised(w) => wtask[w] \in Tasks /\ row[wtask[w]] = "running"
  BY DEF WorkerInv
<1>2. CASE LaunchWorker(w)
  <2>1. Others /\ UNCHANGED <<integration, result, needsHuman, wout>>
    BY <1>2 DEF LaunchWorker
  <2>2. /\ wpc[w] = "launch" /\ worktree' = worktree \cup {wtask[w]}
        /\ wpc' = [wpc EXCEPT ![w] = "agent"]
    BY <1>2 DEF LaunchWorker
  <2>3. \A t \in Tasks : row[t] = "none" => t \notin needsHuman
    BY DEF TaskInv
  <2> QED
    BY <1>1, <2>1, <2>2, <2>3, SupervisorQuiet
<1>3. CASE LaunchFails(w)
  <2>1. Others /\ UNCHANGED <<integration, needsHuman>>
    BY <1>3 DEF LaunchFails
  <2>2. /\ worktree' = worktree \cup {wtask[w]} /\ wpc' = [wpc EXCEPT ![w] = "settle"]
        /\ wpc[w] = "launch" /\ wout'[w] = "error" /\ \A v \in Slots \ {w} : wout'[v] = wout[v]
        /\ \A t \in Tasks \ {wtask[w]} : result'[t] = result[t]
    BY <1>3 DEF LaunchFails
  <2>3. \A t \in Tasks : row[t] = "none" => t \notin needsHuman
    BY DEF TaskInv
  <2> QED
    BY <1>1, <2>1, <2>2, <2>3, SupervisorQuiet
<1>4. ASSUME NEW code \in {"ok", "error"}, AgentExits(w, code) PROVE Quiet'
  <2>1. Others /\ UNCHANGED <<integration, worktree>>
    BY <1>4 DEF AgentExits
  <2>2. wpc[w] = "agent" /\ wpc' = [wpc EXCEPT ![w] = "exited"] /\ \A v \in Slots \ {w} : wout'[v] = wout[v]
    BY <1>4 DEF AgentExits
  <2>3. \A t \in Tasks : row[t] = "none" => t \notin needsHuman' /\ result'[t] = result[t]
    BY <1>1, <1>4, <2>2 DEF TaskInv, AgentExits, AgentWrites
  <2> QED
    BY <2>1, <2>2, <2>3, SupervisorQuiet
<1>5. CASE ReadPrior(w)
  <2>1. Others /\ UNCHANGED <<integration, worktree, result, needsHuman, wout>>
    BY <1>5 DEF ReadPrior, disk
  <2>2. wpc[w] = "exited" /\ wtask[w] \in worktree /\ wpc' = [wpc EXCEPT ![w] = "finalize"]
    BY <1>5 DEF ReadPrior
  <2>3. \A t \in Tasks : row[t] = "none" => t \notin needsHuman
    BY DEF TaskInv
  <2> QED
    BY <2>1, <2>2, <2>3, SupervisorQuiet
<1>6. CASE FinalizeWorkerBranch(w)
  <2>1. Others /\ UNCHANGED <<worktree, result, needsHuman>>
    BY <1>6 DEF FinalizeWorkerBranch
  <2>2. wpc[w] = "finalize" /\ wpc' = [wpc EXCEPT ![w] = "settle"]
    BY <1>6 DEF FinalizeWorkerBranch
  <2>3. PICK status \in {"pending", "noop"} :
          /\ integration' = [integration EXCEPT ![wtask[w]] = FinalizedIntegration(status)]
          /\ wout' = [wout EXCEPT ![w] = IF @ = "error" THEN @
                                         ELSE IF status = "noop" THEN "noop" ELSE "branch"]
    BY <1>6 DEF FinalizeWorkerBranch
  <2>4. integration'[wtask[w]].status = status
    BY <1>1, <2>2, <2>3 DEF FinalizedIntegration
  <2>5. \A t \in Tasks : row[t] = "none" => t \notin needsHuman
    BY DEF TaskInv
  <2>6. wtask[w] \in worktree
    BY <2>2 DEF WorkerInv
  <2> QED
    BY <1>1, <2>1, <2>2, <2>3, <2>4, <2>5, <2>6, SupervisorQuiet
<1>7. CASE FinalizeBranchFailed(w)
  <2>1. Others /\ UNCHANGED <<worktree, result, needsHuman>>
    BY <1>7 DEF FinalizeBranchFailed
  <2>2. /\ wpc[w] \in {"exited", "finalize"} /\ wpc' = [wpc EXCEPT ![w] = "settle"]
        /\ integration' = [integration EXCEPT ![wtask[w]] = [status |-> "blocked", round |-> 0]]
        /\ wout' = [wout EXCEPT ![w] = IF @ = "error" THEN @ ELSE "branch"]
    BY <1>7 DEF FinalizeBranchFailed
  <2>3. integration'[wtask[w]].status = "blocked"
    BY <1>1, <2>2
  <2>4. \A t \in Tasks : row[t] = "none" => t \notin needsHuman
    BY DEF TaskInv
  <2> QED
    BY <1>1, <2>1, <2>2, <2>3, <2>4, SupervisorQuiet
<1>8. CASE SettleWorker(w)
  <2>1. /\ Supervised(w) /\ wpc[w] = "settle" /\ FreeSlot(w)
        /\ SetRow(wtask[w], SettledState(w))
        /\ UNCHANGED <<inbox, taskDir, integration, needsHuman, runner, claimer, merger, outside>>
        /\ EnsureResultFiles(wtask[w], ResultFor(SettledState(w)))
    BY <1>8 DEF SettleWorker
  <2>2. /\ SettledState(w) \in {"failed", "needs_human", "done", "worker_done"}
        /\ SettledState(w) = "done" => wout[w] = "noop"
    BY DEF SettledState
  <2>3. worktree' = worktree \/ (wout[w] = "noop" /\ worktree' = worktree \ {wtask[w]})
    BY <1>8, <2>2 DEF SettleWorker, CleanupTaskWorktreeAndBranch
  <2>4. \A t \in Tasks : row[t] = "none" => t # wtask[w] /\ t \notin needsHuman
    BY <1>1, <2>1 DEF TaskInv
  <2>5. \A t \in Tasks : t # wtask[w] => result'[t] = result[t]
    BY <2>1 DEF EnsureResultFiles
  <2> QED
    BY <2>1, <2>2, <2>3, <2>4, <2>5, FreeQuiet DEF outside
<1>9. CASE SupervisorError(w) \/ UnrecoverableError(w)
  <2>1. SupervisorRaises(w) /\ Supervised(w)
    BY <1>9 DEF SupervisorError, UnrecoverableError, SupervisorRaises
  <2>2. /\ FreeSlot(w) /\ (SetRow(wtask[w], "failed") \/ UNCHANGED row)
        /\ UNCHANGED <<inbox, taskDir, integration, needsHuman, runner, claimer, merger, environ>>
        /\ result' = result \/ \E status \in ResultsWritten(w) : EnsureResultFiles(wtask[w], status)
    BY <1>9 DEF SupervisorError, UnrecoverableError, RowIsLeft
  <2>3. SettledState(w) = "done" => wout[w] = "noop"
    BY DEF SettledState
  <2>4. \/ worktree' = worktree \cup {wtask[w]} /\ wpc[w] = "launch"
        \/ worktree' = worktree
        \/ wpc[w] = "settle" /\ wout[w] = "noop" /\ worktree' = worktree \ {wtask[w]}
    BY <2>1, <2>3 DEF SupervisorRaises, CleanupTaskWorktreeAndBranch
  <2>5. orphans' = orphans \/ (wpc[w] = "agent" /\ orphans' = orphans \cup {wtask[w]})
    BY <2>1 DEF SupervisorRaises
  <2>6. \A t \in Tasks : row[t] = "none" => t # wtask[w] /\ t \notin needsHuman
    BY <1>1, <2>1 DEF TaskInv
  <2>7. \A t \in Tasks : t # wtask[w] => result'[t] = result[t]
    BY <2>2 DEF EnsureResultFiles
  <2> QED
    BY <2>1, <2>2, <2>4, <2>5, <2>6, <2>7, FreeQuiet
<1> QED
  BY <1>2, <1>3, <1>4, <1>5, <1>6, <1>7, <1>8, <1>9 DEF Work

LEMMA CancelQuiet == ASSUME NEW w \in Slots, RunningInv, Quiet, CancelWorker(w) PROVE Quiet'
<1> USE DEF RunningInv, Quiet, TypeOK, Supervised, Idle
<1>1. /\ Supervised(w) /\ FreeSlot(w)
      /\ UNCHANGED <<inbox, taskDir, integration, worktree, row, runner, claimer, merger, environ>>
  BY DEF CancelWorker, rows
<1>2. wtask[w] \in Tasks /\ row[wtask[w]] = "running"
  BY <1>1 DEF WorkerInv
<1>3. \A t \in Tasks : row[t] = "none" => t # wtask[w] /\ t \notin needsHuman
  BY <1>2 DEF TaskInv
<1>4. /\ \A t \in Tasks : t # wtask[w] => result'[t] = result[t]
      /\ \A t \in Tasks : t # wtask[w] => (t \in needsHuman' <=> t \in needsHuman)
  BY DEF CancelWorker, AgentWrites
<1>5. orphans' = orphans \/ (wpc[w] = "agent" /\ orphans' = orphans \cup {wtask[w]})
  BY DEF CancelWorker
<1> QED
  BY <1>1, <1>3, <1>4, <1>5, FreeQuiet

\* What the integrator's thread writes: a record sent back counts the round,
\* and a branch that is not merged keeps its worktree.
LEMMA ThreadReturnsQuiet ==
  ASSUME RunningInv, Quiet, NEW round \in Nat,
         NEW status \in {"merged", "noop", "needs_revision", "blocked"},
         status = "needs_revision" => round > 0, ThreadReturns(status, round),
         \/ worktree' = worktree
         \/ status \in {"merged", "noop"} /\ worktree' = worktree \ {itask}
  PROVE  Quiet'
<1> USE DEF RunningInv, Quiet, TypeOK, ThreadReturns, Supervised, rows, runner, claimer, workers,
            outside, environ
<1>1. /\ itask \in Tasks /\ row[itask] = "integrating" /\ itask \notin ilist
      /\ integration[itask].status = "pending" /\ itask \in worktree
  BY DEF MergeInv, TaskInv
<1>2. /\ integration'[itask].status = status /\ integration'[itask].round = round
      /\ \A t \in Tasks : t # itask => integration'[t] = integration[t]
  BY <1>1
<1>3. ASSUME NEW t \in Tasks PROVE TaskInv(t)'
  <2>1. TaskInv(t)
    OBVIOUS
  <2> QED
    BY <1>1, <1>2, <2>1 DEF TaskInv
<1>4. ASSUME NEW w \in Slots PROVE WorkerInv(w)'
  <2>1. WorkerInv(w) /\ (Supervised(w) => wtask[w] \in Tasks)
    OBVIOUS
  <2> QED
    BY <1>1, <1>2, <2>1 DEF WorkerInv
<1>5. (NoRetry /\ DistinctWorkers /\ ClaimInv /\ TodoInv)'
  BY DEF NoRetry, DistinctWorkers, ClaimInv, TodoInv, InterruptedStates
<1>6. MergeInv'
  BY <1>1, <1>2 DEF MergeInv
<1> QED
  BY <1>3, <1>4, <1>5, <1>6

\* The integrator lets go of its task, with its row moved on or not.
LEMMA IntegratorIdlesQuiet ==
  ASSUME RunningInv, Quiet, ipc # "idle", IntegratorIdles,
         \/ UNCHANGED row
         \/ SetRow(itask, IntegratedState) /\ ipc = "returned",
         \A t \in Tasks : row[t] = "none" => t \notin needsHuman',
         UNCHANGED <<inbox, taskDir, integration, result, worktree, runner, claimer, workers,
                     ilist, outside>>
  PROVE  Quiet'
<1> USE DEF RunningInv, Quiet, TypeOK, Supervised, runner, claimer, workers, outside, environ
<1>1. itask \in Tasks /\ row[itask] = "integrating" /\ itask \in taskDir /\ itask \notin orphans
  BY DEF MergeInv, TaskInv
<1>2. \A t \in Tasks : t # itask => row'[t] = row[t]
  BY DEF SetRow
<1>3. \/ row'[itask] = "integrating"
      \/ row'[itask] = "needs_revision" /\ integration[itask].status = "needs_revision"
      \/ row'[itask] = "needs_human"
      \/ row'[itask] = "done" /\ integration[itask].status \in {"merged", "noop"}
  BY <1>1 DEF SetRow, IntegratedState, MergeInv
<1>4. ASSUME NEW t \in Tasks PROVE TaskInv(t)'
  <2>1. TaskInv(t)
    OBVIOUS
  <2> QED
    BY <1>1, <1>2, <1>3, <2>1 DEF TaskInv
<1>5. ASSUME NEW w \in Slots PROVE WorkerInv(w)'
  <2>1. WorkerInv(w) /\ (Supervised(w) => wtask[w] \in Tasks)
    OBVIOUS
  <2> QED
    BY <1>1, <1>2, <2>1 DEF WorkerInv
<1>6. (NoRetry /\ DistinctWorkers /\ ClaimInv /\ MergeInv)'
  BY <1>1, <1>2 DEF NoRetry, DistinctWorkers, ClaimInv, MergeInv, IntegratorIdles
<1>7. TodoInv'
  BY LoopsRun DEF TodoInv, InterruptedStates
<1> QED
  BY <1>4, <1>5, <1>6, <1>7

LEMMA IntegrateQuiet ==
  ASSUME RunningInv, Quiet, ListPending \/ Integrate \/ FinishCancelled
  PROVE  Quiet'
<1> USE TasksAssumption, RoundsAssumption DEF RunningInv, Quiet, TypeOK
<1>1. ASSUME NEW t \in Tasks, StartIntegration(t) PROVE Quiet'
  <2> USE DEF Supervised, disk, runner, claimer, workers, outside, environ
  <2>1. /\ integration[t].status = "pending" /\ ipc = "idle" /\ SetRow(t, "integrating")
        /\ ipc' = "started" /\ itask' = t /\ ilist' = ilist \ {t} /\ LoopFree
        /\ UNCHANGED <<disk, runner, claimer, workers, outside>>
    BY <1>1 DEF StartIntegration, PendingIntegrations, TaskInv
  <2>2. row[t] # "none" /\ t \notin orphans
    BY <2>1 DEF TaskInv
  <2>3. \A w \in Slots : Supervised(w) => wtask[w] # t
    BY <2>1 DEF WorkerInv, LoopFree
  <2>4. (\A u \in Tasks : TaskInv(u))'
    BY <2>1, <2>2 DEF TaskInv, SetRow
  <2>5. (\A w \in Slots : WorkerInv(w))'
    BY <2>1, <2>3 DEF WorkerInv, SetRow
  <2>6. (NoRetry /\ DistinctWorkers /\ ClaimInv /\ MergeInv /\ TodoInv)'
    BY <2>1 DEF NoRetry, DistinctWorkers, ClaimInv, MergeInv, TodoInv, InterruptedStates, LoopFree,
                SetRow
  <2> QED
    BY <2>4, <2>5, <2>6
<1>2. CASE ThreadReads
  BY <1>2 DEF ThreadReads, NoRetry, DistinctWorkers, TaskInv, WorkerInv, ClaimInv, MergeInv, TodoInv,
              Supervised, InterruptedStates, disk, rows, runner, claimer, workers, outside, environ
<1>3. ASSUME NEW status \in {"merged", "noop"}, IntegrateTask(status) PROVE Quiet'
  <2>1. /\ ThreadReturns(status, iround) /\ iround \in Nat
        /\ worktree' = worktree \/ worktree' = worktree \ {itask}
    BY <1>3 DEF IntegrateTask, CleanupTaskWorktreeAndBranch
  <2> QED
    BY <2>1, ThreadReturnsQuiet
<1>4. ASSUME NEW revisionable \in BOOLEAN, ReturnForRevisionOrBlock(revisionable) PROVE Quiet'
  <2>1. CASE CanRevise(revisionable)
    <3>1. ThreadReturns("needs_revision", iround + 1) /\ worktree' = worktree
      BY <1>4, <2>1 DEF ReturnForRevisionOrBlock
    <3>2. iround + 1 \in Nat /\ iround + 1 > 0
      OBVIOUS
    <3> QED
      BY <3>1, <3>2, ThreadReturnsQuiet
  <2>2. CASE ~CanRevise(revisionable)
    <3>1. ThreadReturns("blocked", iround) /\ worktree' = worktree /\ iround \in Nat
      BY <1>4, <2>2 DEF ReturnForRevisionOrBlock
    <3> QED
      BY <3>1, ThreadReturnsQuiet
  <2> QED
    BY <2>1, <2>2
<1>5. \A t \in Tasks : row[t] = "none" => t \notin needsHuman /\ (ipc # "idle" => t # itask)
  BY DEF TaskInv, MergeInv
<1>6. CASE IntegrateTaskRaises \/ FinishCancelled
  BY <1>5, <1>6, IntegratorIdlesQuiet DEF IntegrateTaskRaises, FinishCancelled, RowIsLeft, rows, disk
<1>7. CASE FinishIntegration \/ FinishFails
  <2>1. /\ ipc = "returned" /\ IntegratorIdles
        /\ UNCHANGED row \/ SetRow(itask, IntegratedState)
        /\ needsHuman' = needsHuman \/ needsHuman' = needsHuman \cup {itask}
        /\ UNCHANGED <<inbox, taskDir, integration, result, worktree, runner, claimer, workers,
                       ilist, outside>>
    BY <1>7 DEF FinishIntegration, FinishFails, RowIsLeft, rows
  <2> QED
    BY <1>5, <2>1, IntegratorIdlesQuiet
<1>8. CASE ListPending
  BY <1>8 DEF ListPending, PendingIntegrations, NoRetry, DistinctWorkers, TaskInv, WorkerInv,
              ClaimInv, MergeInv, TodoInv, Supervised, InterruptedStates, disk, rows, runner,
              claimer, workers, outside, environ
<1> QED
  BY <1>1, <1>2, <1>3, <1>4, <1>6, <1>7, <1>8 DEF Integrate, MergeThread

\* The memory of the runner is lost; what is on the disk stays.
LEMMA MemoryIsLostQuiet ==
  ASSUME RunningInv, Quiet, MemoryIsLost, UNCHANGED <<disk, row, retrying>>,
         \A t \in orphans' : t \in orphans \/ \E w \in Slots : wpc[w] = "agent" /\ wtask[w] = t
  PROVE  Quiet'
<1> USE DEF RunningInv, Quiet, TypeOK, MemoryIsLost, IntegratorIdles, Supervised, Idle, disk
<1>1. \A t \in Tasks : TaskInv(t)'
  <2>1. \A w \in Slots : wpc[w] = "agent" =>
          row[wtask[w]] = "running" /\ integration[wtask[w]].status # "pending"
    BY DEF WorkerInv
  <2> QED
    BY <2>1 DEF TaskInv
<1> QED
  BY <1>1 DEF NoRetry, DistinctWorkers, WorkerInv, ClaimInv, MergeInv, TodoInv, InterruptedStates

LEMMA EnvironmentQuiet == RunningInv /\ Quiet /\ Environment /\ Undisturbed' => Quiet'
<1> SUFFICES ASSUME RunningInv, Quiet, Environment, Undisturbed' PROVE Quiet'
  OBVIOUS
<1> USE BoundsAssumption DEF RunningInv, Quiet, NoRetry, Undisturbed, TypeOK
<1>1. ASSUME NEW t \in Tasks, RetryChecks(t) PROVE FALSE
  BY <1>1 DEF RetryChecks
<1>2. ASSUME NEW t \in Tasks, RetryArchives(t) PROVE FALSE
  BY <1>2 DEF RetryArchives
<1>3. ASSUME NEW t \in Tasks, RetryQueues(t) PROVE FALSE
  BY <1>3 DEF RetryQueues
<1>4. ASSUME NEW t \in Tasks, OrphanExits(t) PROVE Quiet'
  BY <1>4 DEF OrphanExits, AgentWrites, DistinctWorkers, TaskInv, WorkerInv, ClaimInv, MergeInv,
              TodoInv, InterruptedStates, Supervised, rows, runner, claimer, workers, merger, environ
<1>5. ASSUME NEW t \in Tasks, RemoveTaskDir(t) PROVE FALSE
  BY <1>5 DEF RemoveTaskDir
<1>6. CASE Crash
  BY <1>6, MemoryIsLostQuiet DEF Crash, rows
<1>7. CASE LoseDatabase
  BY <1>7 DEF LoseDatabase
<1> QED
  BY <1>1, <1>2, <1>3, <1>4, <1>5, <1>6, <1>7 DEF Environment

\* A root that is undisturbed has been so all along.
LEMMA UndisturbedBefore == TypeOK /\ [Next]_vars /\ Undisturbed' => Undisturbed
<1> SUFFICES ASSUME TypeOK, [Next]_vars, Undisturbed' PROVE Undisturbed
  OBVIOUS
<1> USE DEF Undisturbed, outside, environ
<1>1. CASE Startup
  BY <1>1 DEF Startup, StartRunner, NextPass, StartupFails, ReconcileMissing, ReconcileOrphan,
              OrphanNotRecorded, ReconcileInterrupted, InterruptedIsLeft
<1>2. CASE Coordinate \/ \E w \in Slots : StartFails(w)
  BY <1>2 DEF Coordinate, ClaimTask, ClaimInboxItem, RecordClaim, RecordClaimFails, StartClaimed,
              StartFails
<1>3. ASSUME NEW w \in Slots, Work(w) \/ CancelWorker(w) PROVE Undisturbed
  BY <1>3 DEF Work, LaunchWorker, LaunchFails, AgentExits, ReadPrior, FinalizeWorkerBranch,
              FinalizeBranchFailed, SettleWorker, SupervisorError, UnrecoverableError, CancelWorker
<1>4. CASE ListPending \/ Integrate \/ FinishCancelled
  BY <1>4 DEF ListPending, Integrate, MergeThread, StartIntegration, ThreadReads, IntegrateTask,
              ThreadReturns, ReturnForRevisionOrBlock, IntegrateTaskRaises, FinishIntegration,
              FinishFails, FinishCancelled
<1>5. CASE Environment
  BY <1>5, BoundsAssumption
  DEF Environment, RetryChecks, RetryArchives, RetryQueues, OrphanExits, RemoveTaskDir, Crash,
      LoseDatabase, TypeOK
<1>6. CASE RequestStop \/ RunnerExits \/ UNCHANGED vars
  BY <1>6 DEF RequestStop, RunnerExits, vars
<1> QED
  BY <1>1, <1>2, <1>3, <1>4, <1>5, <1>6 DEF Next

LEMMA NextQuiet == RunningInv /\ QuietInv /\ [Next]_vars => QuietInv'
<1> SUFFICES ASSUME RunningInv, QuietInv, [Next]_vars, Undisturbed' PROVE Quiet'
  BY DEF QuietInv
<1>1. Quiet
  BY UndisturbedBefore DEF QuietInv, RunningInv
<1>2. CASE RunnerExits
  BY <1>1, <1>2, MemoryIsLostQuiet DEF RunnerExits, rows, outside, environ
<1>3. CASE RequestStop \/ UNCHANGED vars
  BY <1>1, <1>3 DEF RequestStop, Quiet, NoRetry, DistinctWorkers, TaskInv, WorkerInv, ClaimInv,
                    MergeInv, TodoInv, Supervised, InterruptedStates, vars, disk, rows, runner,
                    claimer, workers, merger, outside, environ
<1> QED
  BY <1>1, <1>2, <1>3, StartupQuiet, CoordinateQuiet, WorkQuiet, CancelQuiet, IntegrateQuiet,
     EnvironmentQuiet DEF Next

LEMMA QuietInvariant == Spec => [](RunningInv /\ QuietInv)
<1>1. Init => QuietInv
  BY DEF Init, NoIntegration, QuietInv, Quiet, NoRetry, DistinctWorkers, TaskInv, WorkerInv,
         ClaimInv, MergeInv, TodoInv, Supervised, Idle, InterruptedStates
<1>2. RunningInv /\ QuietInv /\ [Next]_vars => QuietInv'
  BY NextQuiet
<1> QED
  BY <1>1, <1>2, RunningInvariant, PTL DEF Spec

\* Two slots never work on the same task: a claim takes a row that is queued or
\* returned, and a row under a supervisor says running until it is given up.
THEOREM WorkersAreDistinct == Spec => []OneWorkerPerTask
<1>1. QuietInv => OneWorkerPerTask
  BY DEF QuietInv, Quiet, DistinctWorkers, OneWorkerPerTask
<1> QED
  BY <1>1, QuietInvariant, PTL

\* No branch is integrated under a worker, or under an agent that outlived its
\* runner or its supervisor: the record of such a task is not pending.
THEOREM MergesAreAlone == Spec => []NoMergeUnderAgent
<1>1. RunningInv /\ QuietInv => NoMergeUnderAgent
  <2> SUFFICES ASSUME RunningInv, Quiet, ipc # "idle"
               PROVE  WorkersOf(itask) = {} /\ itask \notin orphans
    BY DEF QuietInv, NoMergeUnderAgent
  <2>1. itask \in Tasks /\ row[itask] = "integrating"
    BY DEF RunningInv, TypeOK, Quiet, MergeInv
  <2>2. \A w \in Slots : Supervised(w) => row[wtask[w]] = "running"
    BY DEF Quiet, WorkerInv
  <2>3. itask \in orphans => row[itask] \in {"running", "failed"}
    BY <2>1 DEF Quiet, TaskInv
  <2> QED
    BY <2>1, <2>2, <2>3 DEF WorkersOf
<1> QED
  BY <1>1, QuietInvariant, PTL

\* A task reported done has nothing left to integrate.
THEOREM DoneMeansIntegrated == Spec => []DoneIsIntegrated
<1>1. QuietInv => DoneIsIntegrated
  BY DEF QuietInv, Quiet, TaskInv, DoneIsIntegrated
<1> QED
  BY <1>1, QuietInvariant, PTL

\* A task returned for revision has the branch and worktree it is to amend.
THEOREM RevisionHasBranch == Spec => []RevisionKeepsBranch
<1>1. QuietInv => RevisionKeepsBranch
  BY DEF QuietInv, Quiet, TaskInv, RevisionKeepsBranch
<1> QED
  BY <1>1, QuietInvariant, PTL

\* A settled task is left alone: only a pending branch takes it, from failed or
\* needs_human, to integrating.
THEOREM SettledIsFinal == Spec => SettledStays
<1> DEFINE Stays(t) ==
      (row[t] \in {"done", "failed", "needs_human"} /\ row'[t] # row[t]) =>
        row[t] # "done" /\ row'[t] = "integrating" /\ integration[t].status = "pending"
<1>1. ASSUME RunningInv, QuietInv, [Next]_vars, Undisturbed', NEW t \in Tasks PROVE Stays(t)
  <2>1. Quiet /\ TypeOK
    BY <1>1, UndisturbedBefore DEF QuietInv, RunningInv
  <2>2. TaskInv(t) /\ \A w \in Slots : WorkerInv(w)
    BY <2>1 DEF Quiet
  <2>3. CASE Startup
    <3> USE <2>1, <2>2 DEF TypeOK, Quiet, TaskInv, TodoInv, InterruptedStates, rows, SetRow
    <3>1. CASE StartRunner \/ NextPass \/ StartupFails \/ \E u \in Tasks : OrphanNotRecorded(u)
      BY <3>1 DEF StartRunner, NextPass, StartupFails, OrphanNotRecorded
    <3>2. ASSUME NEW u \in Tasks, ReconcileMissing(u) \/ ReconcileOrphan(u) PROVE Stays(t)
      <4>1. row[u] = "none"
        BY <3>2 DEF ReconcileMissing, ReconcileOrphan
      <4>2. \E state : row' = [row EXCEPT ![u] = state]
        BY <3>2 DEF ReconcileMissing, ReconcileOrphan
      <4> QED
        BY <4>1, <4>2
    <3>3. ASSUME NEW u \in Tasks, ReconcileInterrupted(u) \/ InterruptedIsLeft(u) PROVE Stays(t)
      <4>1. row[u] \in InterruptedStates
        BY <3>3 DEF ReconcileInterrupted, InterruptedIsLeft
      <4> QED
        BY <3>3, <4>1 DEF ReconcileInterrupted, InterruptedIsLeft, RowIsLeft
    <3> QED
      BY <2>3, <3>1, <3>2, <3>3 DEF Startup
  <2>4. CASE Coordinate \/ \E w \in Slots : StartFails(w)
    BY <2>1, <2>2, <2>4
    DEF Coordinate, ClaimTask, ClaimInboxItem, RecordClaim, RecordClaimFails, StartClaimed,
        StartFails, NextToClaim, RevisionTasks, QueuedTasks, SetRow, Quiet, ClaimInv, TypeOK, rows
  <2>5. ASSUME NEW w \in Slots, Work(w) \/ CancelWorker(w) PROVE Stays(t)
    <3>1. Supervised(w) => row[wtask[w]] = "running"
      BY <2>2 DEF WorkerInv
    <3>2. /\ Supervised(w)
          /\ UNCHANGED row \/ \E state : SetRow(wtask[w], state)
      BY <2>5 DEF Work, LaunchWorker, LaunchFails, AgentExits, ReadPrior, FinalizeWorkerBranch,
                  FinalizeBranchFailed, SettleWorker, SupervisorError, UnrecoverableError,
                  SupervisorRaises, CancelWorker, RowIsLeft, Supervised, Idle, rows
    <3> QED
      BY <2>1, <3>1, <3>2 DEF SetRow, TypeOK
  <2>6. CASE ListPending \/ Integrate \/ FinishCancelled
    <3>1. ASSUME NEW u \in Tasks, StartIntegration(u) PROVE Stays(t)
      <4>1. SetRow(u, "integrating") /\ integration[u].status = "pending"
        BY <2>1, <3>1 DEF StartIntegration, PendingIntegrations, Quiet, TaskInv
      <4> QED
        BY <2>1, <2>2, <4>1 DEF SetRow, TaskInv, TypeOK
    <3>2. CASE ListPending \/ MergeThread
      BY <3>2 DEF ListPending, MergeThread, ThreadReads, IntegrateTask, ThreadReturns,
                  ReturnForRevisionOrBlock, rows
    <3>3. CASE FinishIntegration \/ IntegrateTaskRaises \/ FinishFails \/ FinishCancelled
      <4>1. row[itask] = "integrating"
        BY <2>1, <3>3 DEF Quiet, MergeInv, FinishIntegration, IntegrateTaskRaises, FinishFails,
                          FinishCancelled
      <4>2. UNCHANGED row \/ \E state : SetRow(itask, state)
        BY <3>3 DEF FinishIntegration, IntegrateTaskRaises, FinishFails, FinishCancelled,
                    RowIsLeft, rows
      <4> QED
        BY <2>1, <4>1, <4>2 DEF SetRow, TypeOK
    <3> QED
      BY <2>6, <3>1, <3>2, <3>3 DEF Integrate
  <2>7. CASE Environment
    BY <1>1, <2>1, <2>7, BoundsAssumption
    DEF Environment, RetryChecks, RetryArchives, RetryQueues, OrphanExits, RemoveTaskDir, Crash,
        LoseDatabase, Quiet, NoRetry, Undisturbed, TypeOK, rows
  <2>8. CASE RequestStop \/ RunnerExits \/ UNCHANGED vars
    BY <2>8 DEF RequestStop, RunnerExits, vars, rows
  <2> QED
    BY <1>1, <2>3, <2>4, <2>5, <2>6, <2>7, <2>8 DEF Next
<1>2. RunningInv /\ QuietInv /\ [Next]_vars =>
        [Undisturbed' => \A t \in Tasks : Stays(t)]_vars
  BY <1>1
<1> QED
  BY <1>2, QuietInvariant, PTL DEF Spec, SettledStays

(***************************************************************************)
(* What becomes of the count of revision rounds                            *)
(***************************************************************************)
\* One supervisor at a time is between reading the record and settling.
OneFinalizes ==
  \A v, w \in Slots :
    (wpc[v] \in {"finalize", "settle"} /\ wpc[w] \in {"finalize", "settle"}) => v = w

\* What a supervisor has read is what the record says, unless the integrator has
\* decided meanwhile; the round an integration goes on from is not below it.
PriorIsRead ==
  \A w \in Slots : wpc[w] = "finalize" =>
    prior = integration[wtask[w]].round \/ (ipc = "returned" /\ itask = wtask[w])
MergesReadRound == ipc = "merging" => iround >= integration[itask].round
PriorBelowMerge ==
  \A w \in Slots : (ipc = "merging" /\ wpc[w] = "finalize" /\ wtask[w] = itask) => prior <= iround

RoundsInv == OneFinalizes /\ PriorIsRead /\ MergesReadRound /\ PriorBelowMerge

\* Without a row there has been no round: a task at work has one.
RowsAreKept ==
  /\ \A t \in Tasks : row[t] = "none" => integration[t].round = 0
  /\ \A w \in Slots : Supervised(w) => row[wtask[w]] # "none"
  /\ ipc # "idle" => row[itask] # "none"
RowsStay == damages = 0 => RowsAreKept

\* Rounds are counted up, but for a failed finalize and a lost update.
GrowingRounds ==
  \A t \in Tasks :
    \/ integration'[t].round >= integration[t].round
    \/ integration'[t].status = "blocked"
    \/ ipc = "returned" /\ itask = t /\ \E w \in Slots : Supervised(w) /\ wtask[w] = t
StepRounds ==
  /\ RoundsInv'
  /\ damages' = 0 => damages = 0 /\ RowsStay' /\ GrowingRounds

LEMMA RoundsAreNats == TypeOK => \A t \in Tasks : integration[t].round \in Nat
BY RoundsAssumption DEF TypeOK, Integration

\* The rounds that are kept, or are counted up.
LEMMA RoundsKept ==
  ASSUME TypeOK,
         \A t \in Tasks : \/ integration'[t] = integration[t]
                          \/ integration[t].round = 0 /\ integration'[t].round = 0
  PROVE  GrowingRounds
<1> SUFFICES ASSUME NEW t \in Tasks PROVE integration'[t].round >= integration[t].round
  BY DEF GrowingRounds
<1>1. integration[t].round \in Nat
  BY RoundsAreNats
<1>2. integration'[t].round = integration[t].round
  OBVIOUS
<1> QED
  BY <1>1, <1>2

\* A step that leaves the records and whoever has read one.
LEMMA NoRecordRounds ==
  ASSUME TypeOK, RoundsInv, RowsStay, UNCHANGED <<integration, prior, ipc, itask, iround>>,
         \A w \in Slots : wpc'[w] \in {"finalize", "settle"} => wpc'[w] = wpc[w] /\ wtask'[w] = wtask[w],
         damages' = 0 => damages = 0,
         damages = 0 => \A t \in Tasks : row'[t] = "none" => row[t] = "none",
         damages = 0 => \A w \in Slots : Supervised(w)' => row'[wtask'[w]] # "none"
  PROVE  StepRounds
<1>1. RoundsInv'
  BY DEF RoundsInv, OneFinalizes, PriorIsRead, MergesReadRound, PriorBelowMerge
<1>2. damages' = 0 => RowsStay'
  BY DEF RowsStay, RowsAreKept, TypeOK
<1>3. GrowingRounds
  BY RoundsKept
<1> QED
  BY <1>1, <1>2, <1>3 DEF StepRounds

\* A step that is not taken while a supervisor has read a record.
LEMMA LoopFreeRounds ==
  ASSUME TypeOK, RoundsInv, RowsStay, UNCHANGED <<integration, damages>>, LoopFree,
         \A w \in Slots : wpc'[w] \notin {"finalize", "settle"}, ipc' # "merging",
         \A t \in Tasks : row'[t] = "none" => row[t] = "none",
         damages = 0 => \A w \in Slots : Supervised(w)' => row'[wtask'[w]] # "none",
         (damages = 0 /\ ipc' # "idle") => row'[itask'] # "none"
  PROVE  StepRounds
<1>1. RoundsInv'
  BY DEF RoundsInv, OneFinalizes, PriorIsRead, MergesReadRound, PriorBelowMerge
<1>2. RowsStay'
  BY DEF RowsStay, RowsAreKept, TypeOK
<1>3. GrowingRounds
  BY RoundsKept
<1> QED
  BY <1>1, <1>2, <1>3 DEF StepRounds

LEMMA StartupRounds ==
  ASSUME RunningInv, RoundsInv, RowsStay, Startup
  PROVE  StepRounds
<1> USE DEF RunningInv, Untyped, TypeOK
<1>1. /\ NothingRuns /\ UNCHANGED <<claimer, workers, merger, outside>>
      /\ \A t \in Tasks : row'[t] = "none" => row[t] = "none"
  <2>1. phase \notin {"up", "stopping"} /\ UNCHANGED <<claimer, workers, merger, outside>>
    BY DEF Startup, StartRunner, NextPass, StartupFails, ReconcileMissing, ReconcileOrphan,
           OrphanNotRecorded, ReconcileInterrupted, InterruptedIsLeft, InterruptedStates
  <2>2. \A t \in Tasks : InferOrphanState(t) # "none"
    BY DEF InferOrphanState, ResultStatuses
  <2>3. UNCHANGED row \/ \E t \in Tasks : \E state : state # "none" /\ SetRow(t, state)
    BY <2>2 DEF Startup, StartRunner, NextPass, StartupFails, ReconcileMissing, ReconcileOrphan,
                OrphanNotRecorded, ReconcileInterrupted, InterruptedIsLeft, RowIsLeft, rows
  <2> QED
    BY <2>1, <2>3 DEF LoopsNotStarted, SetRow
<1>2. RoundsInv'
  BY <1>1 DEF NothingRuns, workers, merger, RoundsInv, OneFinalizes, PriorIsRead, MergesReadRound,
              PriorBelowMerge
<1>3. damages = 0 => \A t \in Tasks :
        integration'[t] = integration[t] \/ (integration[t].round = 0 /\ integration'[t].round = 0)
  <2>1. ASSUME NEW t \in Tasks, OrphanNotRecorded(t), damages = 0
        PROVE  /\ \A u \in Tasks : u # t => integration'[u] = integration[u]
               /\ integration[t].round = 0
               /\ integration'[t] = integration[t] \/ integration'[t].round = 0
    BY <2>1 DEF OrphanNotRecorded, ForgetFolder, NoIntegration, OrphansHaveNoRow, RowsStay, RowsAreKept
  <2>2. (\A t \in Tasks : ~OrphanNotRecorded(t)) => UNCHANGED integration
    BY DEF Startup, StartRunner, NextPass, StartupFails, ReconcileMissing, ReconcileOrphan,
           ReconcileInterrupted, InterruptedIsLeft, disk
  <2> QED
    BY <2>1, <2>2
<1>4. damages' = damages
  BY <1>1 DEF outside, environ
<1>5. RowsStay'
  BY <1>1, <1>3, <1>4 DEF RowsStay, RowsAreKept, NothingRuns, workers, merger, Supervised, Idle
<1>6. damages = 0 => GrowingRounds
  BY <1>3, RoundsKept
<1> QED
  BY <1>2, <1>4, <1>5, <1>6 DEF StepRounds

LEMMA CoordinateRounds ==
  ASSUME RunningInv, RoundsInv, RowsStay, Coordinate \/ \E w \in Slots : StartFails(w)
  PROVE  StepRounds
<1> USE DEF RunningInv, TypeOK, Supervised, Idle
<1>1. /\ UNCHANGED <<merger, outside, prior>> /\ integration' = integration
      /\ \A t \in Tasks : row'[t] = "none" => row[t] = "none"
  <2>1. /\ UNCHANGED <<merger, outside, integration>>
        /\ UNCHANGED row \/ \E t \in Tasks : \E state : state # "none" /\ SetRow(t, state)
    BY DEF Coordinate, ClaimTask, ClaimInboxItem, RecordClaim, RecordClaimFails, StartClaimed,
           StartFails, rows, disk
  <2>2. UNCHANGED prior
    BY DEF Coordinate, ClaimTask, ClaimInboxItem, RecordClaim, RecordClaimFails, StartClaimed,
           StartFails, OccupySlot, workers
  <2> QED
    BY <2>1, <2>2 DEF SetRow
<1>2. ASSUME NEW w \in Slots, NEW t \in Tasks, OccupySlot(w, t), SetRow(t, "running")
      PROVE  /\ \A v \in Slots : wpc'[v] \in {"finalize", "settle"} =>
                  wpc'[v] = wpc[v] /\ wtask'[v] = wtask[v]
             /\ damages = 0 => \A v \in Slots : Supervised(v)' => row'[wtask'[v]] # "none"
  BY <1>2 DEF OccupySlot, SetRow, RowsStay, RowsAreKept
<1>3. /\ \A v \in Slots : wpc'[v] \in {"finalize", "settle"} =>
           wpc'[v] = wpc[v] /\ wtask'[v] = wtask[v]
      /\ damages = 0 => \A v \in Slots : Supervised(v)' => row'[wtask'[v]] # "none"
  <2>1. ASSUME NEW t \in Tasks, NEW w \in Slots, ClaimTask(t, w) \/ (t = ctask /\ StartClaimed(w))
        PROVE  OccupySlot(w, t) /\ SetRow(t, "running")
    BY <2>1 DEF ClaimTask, StartClaimed
  <2>2. ASSUME \/ \E t \in Tasks : ClaimInboxItem(t)
               \/ RecordClaim \/ RecordClaimFails \/ \E w \in Slots : StartFails(w)
        PROVE  /\ \A v \in Slots : wpc'[v] \notin Idle => wpc'[v] = wpc[v] /\ wtask'[v] = wtask[v]
               /\ \A t \in Tasks : row'[t] = "none" => row[t] = "none"
    BY <1>1, <2>2 DEF ClaimInboxItem, RecordClaim, RecordClaimFails, StartFails, workers
  <2>3. \A w \in Slots : StartClaimed(w) => ctask \in Tasks
    BY DEF StartClaimed
  <2> QED
    BY <1>2, <2>1, <2>2, <2>3 DEF Coordinate, RowsStay, RowsAreKept
<1> QED
  BY <1>1, <1>3, NoRecordRounds DEF merger, outside, environ

\* A supervisor that writes the record.
LEMMA FinalizeRounds ==
  ASSUME RunningInv, RoundsInv, RowsStay, NEW w \in Slots, NEW status \in IntegrationStatuses,
         NEW round \in 0..MaxRevisionRounds, wpc[w] = "finalize" \/ (wpc[w] = "exited" /\ LoopFree),
         integration' = [integration EXCEPT ![wtask[w]] = [status |-> status, round |-> round]],
         wpc' = [wpc EXCEPT ![w] = "settle"], prior' = 0,
         \/ status = "blocked" /\ round = 0
         \/ wpc[w] = "finalize" /\ round = prior,
         UNCHANGED <<wtask, rows, merger, damages>>
  PROVE  StepRounds
<1> USE RoundsAssumption DEF RunningInv, TypeOK, Supervised, Idle
<1>1. wtask[w] \in Tasks /\ Supervised(w) /\ UNCHANGED <<row, ipc, itask, iround, istatus, ilist>>
  BY DEF rows, merger
<1>2. \A v \in Slots : wpc'[v] # "finalize"
  BY DEF RoundsInv, OneFinalizes, LoopFree
<1>3. /\ integration'[wtask[w]].round = round /\ integration'[wtask[w]].status = status
      /\ \A t \in Tasks : t # wtask[w] => integration'[t] = integration[t]
  BY <1>1
<1>4. MergesReadRound'
  <2>1. (ipc = "merging" /\ itask = wtask[w]) => round <= iround
    BY <1>1 DEF RoundsInv, PriorBelowMerge
  <2> QED
    BY <1>1, <1>3, <2>1 DEF MergesReadRound, RoundsInv
<1>5. RoundsInv'
  <2>1. OneFinalizes'
    BY DEF RoundsInv, OneFinalizes, LoopFree
  <2> QED
    BY <1>2, <1>4, <2>1 DEF RoundsInv, PriorIsRead, PriorBelowMerge
<1>6. damages' = 0 => RowsStay'
  BY <1>1, <1>3 DEF RowsStay, RowsAreKept
<1>7. GrowingRounds
  <2> SUFFICES ASSUME NEW t \in Tasks
               PROVE  \/ integration'[t].round >= integration[t].round
                      \/ integration'[t].status = "blocked"
                      \/ ipc = "returned" /\ itask = t /\ t = wtask[w]
    BY <1>1 DEF GrowingRounds
  <2>1. integration[t].round \in Nat
    BY RoundsAreNats
  <2>2. CASE t # wtask[w]
    BY <1>3, <2>1, <2>2
  <2>3. CASE t = wtask[w] /\ round = prior /\ wpc[w] = "finalize"
    BY <1>3, <2>1, <2>3 DEF RoundsInv, PriorIsRead
  <2> QED
    BY <1>3, <2>2, <2>3
<1> QED
  BY <1>5, <1>6, <1>7 DEF StepRounds

LEMMA FreeRounds ==
  ASSUME RunningInv, RoundsInv, RowsStay, NEW w \in Slots, Supervised(w), FreeSlot(w),
         RowIsLeft(wtask[w]) \/ UNCHANGED row \/ \E state \in TASK_STATES : SetRow(wtask[w], state),
         UNCHANGED <<integration, merger, damages>>
  PROVE  StepRounds
<1> USE DEF RunningInv, TypeOK
<1>1. UNCHANGED <<integration, prior, ipc, itask, iround, damages>>
  BY DEF FreeSlot, merger
<1>2. \A v \in Slots : wpc'[v] \in {"finalize", "settle"} => wpc'[v] = wpc[v] /\ wtask'[v] = wtask[v]
  BY DEF FreeSlot
<1>3. \A t \in Tasks : row'[t] = "none" => row[t] = "none"
  BY DEF SetRow, RowIsLeft, TASK_STATES
<1>4. damages = 0 => \A v \in Slots : Supervised(v)' => row'[wtask'[v]] # "none"
  BY <1>3 DEF FreeSlot, Supervised, Idle, RowsStay, RowsAreKept
<1> QED
  BY <1>1, <1>2, <1>3, <1>4, NoRecordRounds

LEMMA WorkRounds ==
  ASSUME RunningInv, RoundsInv, RowsStay, NEW w \in Slots, Work(w) \/ CancelWorker(w)
  PROVE  StepRounds
<1> USE DEF RunningInv, TypeOK, Supervised, Idle
<1>1. CASE LaunchWorker(w) \/ \E code \in {"ok", "error"} : AgentExits(w, code)
  <2>1. /\ UNCHANGED <<integration, prior, row, wtask, merger, damages>> /\ Supervised(w)
        /\ \E place \in {"agent", "exited"} : wpc' = [wpc EXCEPT ![w] = place]
    BY <1>1 DEF LaunchWorker, AgentExits, rows, outside, environ
  <2> QED
    BY <2>1, NoRecordRounds DEF merger, RowsStay, RowsAreKept
<1>2. CASE LaunchFails(w)
  <2>1. /\ UNCHANGED <<integration, prior, row, wtask, merger, damages>> /\ wpc[w] = "launch"
        /\ wpc' = [wpc EXCEPT ![w] = "settle"] /\ LoopFree
    BY <1>2 DEF LaunchFails, rows, outside, environ
  <2>2. RoundsInv'
    BY <2>1 DEF RoundsInv, OneFinalizes, PriorIsRead, MergesReadRound, PriorBelowMerge, LoopFree,
                merger
  <2>3. RowsStay' /\ GrowingRounds
    BY <2>1, RoundsKept DEF RowsStay, RowsAreKept, merger
  <2> QED
    BY <2>1, <2>2, <2>3 DEF StepRounds
<1>3. CASE ReadPrior(w)
  <2>1. /\ UNCHANGED <<integration, row, wtask, merger, damages>> /\ wpc[w] = "exited"
        /\ wpc' = [wpc EXCEPT ![w] = "finalize"] /\ LoopFree
        /\ prior' = integration[wtask[w]].round
    BY <1>3 DEF ReadPrior, disk, rows, outside, environ
  <2>2. \A v \in Slots : wpc'[v] \in {"finalize", "settle"} => v = w
    BY <2>1 DEF LoopFree
  <2>3. RoundsInv'
    BY <2>1, <2>2 DEF RoundsInv, OneFinalizes, PriorIsRead, MergesReadRound, PriorBelowMerge, merger
  <2>4. RowsStay' /\ GrowingRounds
    BY <2>1, RoundsKept DEF RowsStay, RowsAreKept, merger
  <2> QED
    BY <2>1, <2>3, <2>4 DEF StepRounds
<1>4. CASE FinalizeWorkerBranch(w)
  <2>1. \E status \in {"pending", "noop"} :
          integration' = [integration EXCEPT ![wtask[w]] = [status |-> status, round |-> prior]]
    BY <1>4 DEF FinalizeWorkerBranch, FinalizedIntegration
  <2>2. /\ UNCHANGED <<rows, wtask, merger, damages>> /\ wpc[w] = "finalize"
        /\ wpc' = [wpc EXCEPT ![w] = "settle"] /\ prior' = 0
    BY <1>4 DEF FinalizeWorkerBranch, outside, environ
  <2> QED
    BY <2>1, <2>2, FinalizeRounds DEF IntegrationStatuses
<1>5. CASE FinalizeBranchFailed(w)
  <2>1. /\ UNCHANGED <<rows, wtask, merger, damages>>
        /\ wpc[w] = "finalize" \/ (wpc[w] = "exited" /\ LoopFree)
        /\ wpc' = [wpc EXCEPT ![w] = "settle"] /\ prior' = 0
        /\ integration' = [integration EXCEPT ![wtask[w]] = [status |-> "blocked", round |-> 0]]
        /\ "blocked" \in IntegrationStatuses /\ 0 \in 0..MaxRevisionRounds
    BY <1>5, RoundsAssumption DEF FinalizeBranchFailed, IntegrationStatuses, outside, environ
  <2> QED
    BY <2>1, FinalizeRounds
<1>6. CASE SettleWorker(w) \/ SupervisorError(w) \/ UnrecoverableError(w) \/ CancelWorker(w)
  <2>1. /\ Supervised(w) /\ FreeSlot(w) /\ UNCHANGED <<integration, merger, damages>>
        /\ RowIsLeft(wtask[w]) \/ UNCHANGED row \/ \E state \in TASK_STATES : SetRow(wtask[w], state)
    BY <1>6, SettledTypes
    DEF SettleWorker, SupervisorError, UnrecoverableError, SupervisorRaises, CancelWorker,
        rows, outside, environ, TASK_STATES
  <2> QED
    BY <2>1, FreeRounds
<1> QED
  BY <1>1, <1>2, <1>3, <1>4, <1>5, <1>6 DEF Work

\* What the integrator's thread writes does not go back behind what it has read.
LEMMA ThreadReturnsRounds ==
  ASSUME RunningInv, RoundsInv, RowsStay, NEW status \in IntegrationStatuses,
         NEW round \in 0..MaxRevisionRounds, round >= iround, ThreadReturns(status, round)
  PROVE  StepRounds
<1> USE RoundsAssumption DEF RunningInv, TypeOK, ThreadReturns, rows, workers, outside, environ
<1>1. itask \in Tasks /\ integration[itask].round <= round
  BY RoundsAreNats DEF RoundsInv, MergesReadRound
<1>2. /\ integration'[itask].round = round
      /\ \A t \in Tasks : t # itask => integration'[t] = integration[t]
  BY <1>1
<1>3. RoundsInv'
  BY <1>1, <1>2 DEF RoundsInv, OneFinalizes, PriorIsRead, MergesReadRound, PriorBelowMerge,
                    Supervised, Idle
<1>4. RowsStay'
  BY <1>1, <1>2 DEF RowsStay, RowsAreKept, Supervised, Idle
<1>5. GrowingRounds
  <2> SUFFICES ASSUME NEW t \in Tasks PROVE integration'[t].round >= integration[t].round
    BY DEF GrowingRounds
  <2>1. integration[t].round \in Nat
    BY RoundsAreNats
  <2> QED
    BY <1>1, <1>2, <2>1
<1> QED
  BY <1>3, <1>4, <1>5 DEF StepRounds

LEMMA IntegrateRounds ==
  ASSUME RunningInv, RoundsInv, RowsStay, ListPending \/ Integrate \/ FinishCancelled
  PROVE  StepRounds
<1> USE DEF RunningInv, TypeOK
<1>1. CASE \/ \E t \in Tasks : StartIntegration(t)
           \/ FinishIntegration \/ IntegrateTaskRaises \/ FinishFails \/ FinishCancelled
  <2>1. /\ LoopFree /\ UNCHANGED <<integration, workers, damages>> /\ ipc' # "merging"
        /\ \/ ipc' = "idle"
           \/ \E t \in Tasks : itask' = t /\ SetRow(t, "integrating")
        /\ UNCHANGED row \/ \E t \in Tasks : RowIsLeft(t) \/ \E state \in TASK_STATES : SetRow(t, state)
    <3>1. FinishIntegration => itask \in Tasks /\ IntegratedState \in TASK_STATES
      BY DEF FinishIntegration, IntegratedState, TASK_STATES
    <3>2. IntegrateTaskRaises \/ FinishFails \/ FinishCancelled => itask \in Tasks
      BY DEF IntegrateTaskRaises, FinishFails, FinishCancelled
    <3> QED
      BY <1>1, <3>1, <3>2
      DEF StartIntegration, FinishIntegration, IntegrateTaskRaises, FinishFails, FinishCancelled,
          IntegratorIdles, TASK_STATES, disk, rows, outside, environ
  <2>2. \A t \in Tasks : row'[t] = "none" => row[t] = "none"
    BY <2>1 DEF SetRow, RowIsLeft, TASK_STATES
  <2>3. \A w \in Slots : wpc'[w] \notin {"finalize", "settle"}
    BY <2>1 DEF LoopFree, workers
  <2>4. damages = 0 => \A w \in Slots : Supervised(w)' => row'[wtask'[w]] # "none"
    BY <2>1, <2>2 DEF workers, RowsStay, RowsAreKept, Supervised, Idle
  <2>5. (damages = 0 /\ ipc' # "idle") => row'[itask'] # "none"
    BY <2>1 DEF SetRow
  <2> QED
    BY <2>1, <2>2, <2>3, <2>4, <2>5, LoopFreeRounds
<1>2. CASE ListPending
  <2>1. UNCHANGED <<integration, rows, workers, ipc, itask, iround, damages>>
    BY <1>2 DEF ListPending, disk, outside, environ
  <2> QED
    BY <2>1, NoRecordRounds DEF rows, workers, RowsStay, RowsAreKept, Supervised, Idle
<1>3. CASE ThreadReads
  <2>1. /\ UNCHANGED <<integration, rows, workers, itask, damages>> /\ ipc = "started"
        /\ ipc' = "merging" /\ iround' = integration[itask].round
    BY <1>3 DEF ThreadReads, disk, outside, environ
  <2>2. RoundsInv'
    BY <2>1, RoundsAreNats
    DEF workers, RoundsInv, OneFinalizes, PriorIsRead, MergesReadRound, PriorBelowMerge
  <2>3. RowsStay' /\ GrowingRounds
    BY <2>1, RoundsKept DEF rows, workers, RowsStay, RowsAreKept, Supervised, Idle
  <2> QED
    BY <2>1, <2>2, <2>3 DEF StepRounds
<1>4. CASE MergeThread /\ ~ThreadReads
  <2>1. \/ \E status \in {"merged", "noop"} : ThreadReturns(status, iround)
        \/ ThreadReturns("blocked", iround)
        \/ iround < MaxRevisionRounds /\ ThreadReturns("needs_revision", iround + 1)
    BY <1>4 DEF MergeThread, IntegrateTask, ReturnForRevisionOrBlock, CanRevise
  <2>2. /\ iround \in 0..MaxRevisionRounds /\ iround >= iround
        /\ iround < MaxRevisionRounds => iround + 1 \in 0..MaxRevisionRounds
        /\ iround + 1 >= iround
    BY RoundsAssumption
  <2>3. {"merged", "noop", "blocked", "needs_revision"} \subseteq IntegrationStatuses
    BY DEF IntegrationStatuses
  <2> QED
    BY <2>1, <2>2, <2>3, ThreadReturnsRounds
<1> QED
  BY <1>1, <1>2, <1>3, <1>4 DEF Integrate

LEMMA EnvironmentRounds ==
  ASSUME RunningInv, RoundsInv, RowsStay, Environment \/ RunnerExits \/ RequestStop
  PROVE  StepRounds
<1> USE BoundsAssumption DEF RunningInv, TypeOK
<1>1. CASE \/ \E t \in Tasks : RetryChecks(t) \/ RetryArchives(t) \/ RetryQueues(t) \/ OrphanExits(t)
           \/ RequestStop
  <2>1. /\ UNCHANGED <<integration, workers, merger, damages>>
        /\ UNCHANGED row \/ \E t \in Tasks : SetRow(t, "queued")
    BY <1>1 DEF RetryChecks, RetryArchives, RetryQueues, OrphanExits, RequestStop, disk, rows,
                outside, environ
  <2>2. \A t \in Tasks : row'[t] = "none" => row[t] = "none"
    BY <2>1 DEF SetRow
  <2> QED
    BY <2>1, <2>2, NoRecordRounds DEF workers, merger, RowsStay, RowsAreKept, Supervised, Idle
<1>2. CASE Crash \/ RunnerExits
  <2>1. MemoryIsLost /\ UNCHANGED <<integration, row, damages>>
    BY <1>2 DEF Crash, RunnerExits, disk, rows, outside, environ
  <2>2. RoundsInv'
    BY <2>1 DEF MemoryIsLost, IntegratorIdles, RoundsInv, OneFinalizes, PriorIsRead,
                MergesReadRound, PriorBelowMerge
  <2>3. RowsStay' /\ GrowingRounds
    BY <2>1, RoundsKept
    DEF MemoryIsLost, IntegratorIdles, RowsStay, RowsAreKept, Supervised, Idle
  <2> QED
    BY <2>1, <2>2, <2>3 DEF StepRounds
<1>3. CASE LoseDatabase \/ \E t \in Tasks : RemoveTaskDir(t)
  <2>1. /\ damages' = damages + 1 /\ damages \in Nat /\ UNCHANGED <<workers, merger>>
        /\ phase = "down"
    BY <1>3 DEF LoseDatabase, RemoveTaskDir
  <2>2. NothingRuns
    BY <2>1 DEF Untyped, LoopsNotStarted
  <2>3. RoundsInv'
    BY <2>1, <2>2 DEF workers, merger, NothingRuns, RoundsInv, OneFinalizes, PriorIsRead,
                      MergesReadRound, PriorBelowMerge
  <2> QED
    BY <2>1, <2>3 DEF StepRounds
<1> QED
  BY <1>1, <1>2, <1>3 DEF Environment

LEMMA NextRounds ==
  RunningInv /\ RoundsInv /\ RowsStay /\ [Next]_vars => RoundsInv' /\ RowsStay' /\ StepRounds
<1> SUFFICES ASSUME RunningInv, RoundsInv, RowsStay, [Next]_vars PROVE StepRounds
  BY DEF StepRounds, RowsStay
<1>1. CASE UNCHANGED vars
  BY <1>1, NoRecordRounds
  DEF vars, disk, rows, workers, merger, outside, environ, RunningInv, RowsStay, RowsAreKept,
      Supervised, Idle
<1> QED
  BY <1>1, StartupRounds, CoordinateRounds, WorkRounds, IntegrateRounds, EnvironmentRounds DEF Next

LEMMA RoundsInvariant == Spec => [](RoundsInv /\ RowsStay)
<1>1. Init => RoundsInv /\ RowsStay
  BY DEF Init, NoIntegration, RoundsInv, OneFinalizes, PriorIsRead, MergesReadRound,
         PriorBelowMerge, RowsStay, RowsAreKept, Supervised, Idle
<1>2. RunningInv /\ RoundsInv /\ RowsStay /\ [Next]_vars => RoundsInv' /\ RowsStay'
  BY NextRounds
<1> QED
  BY <1>1, <1>2, RunningInvariant, PTL DEF Spec

\* Revision rounds are only counted up, failed writes and crashes included: the
\* integrator writes back the round it read, or one more, and a worker the round
\* it read, which only the integrator of a branch that was pending when its task
\* was retried can have passed.
THEOREM RoundsGrow == Spec => RoundsOnlyGrow
<1> DEFINE Grow == damages' = 0 => \A t \in Tasks :
             \/ integration'[t].round >= integration[t].round
             \/ integration'[t].status = "blocked"
             \/ retries > 0 /\ ipc = "returned" /\ itask = t
<1>1. ASSUME RunningInv, QuietInv, RoundsInv, RowsStay, [Next]_vars PROVE Grow
  <2>1. damages' = 0 => damages = 0 /\ GrowingRounds
    BY <1>1, NextRounds DEF StepRounds
  <2>2. \A t \in Tasks : (ipc = "returned" /\ itask = t /\ \E w \in Slots : Supervised(w) /\ wtask[w] = t)
          => ~Undisturbed
    BY <1>1 DEF QuietInv, Quiet, MergeInv, WorkerInv
  <2>3. retries \in Nat
    BY <1>1, BoundsAssumption DEF RunningInv, TypeOK
  <2> QED
    BY <2>1, <2>2, <2>3 DEF GrowingRounds, Undisturbed
<1>2. RunningInv /\ QuietInv /\ RoundsInv /\ RowsStay /\ [Next]_vars => [Grow]_vars
  BY <1>1
<1> QED
  BY <1>2, RoundsInvariant, QuietInvariant, PTL DEF Spec, RoundsOnlyGrow
=============================================================================
