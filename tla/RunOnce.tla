------------------------------ MODULE RunOnce ------------------------------
(***************************************************************************)
(* A root that is run by the daemon or by run-once, one after the other.   *)
(*                                                                         *)
(* run_once works with the parts of the daemon in another order: it starts *)
(* workers until nothing can be claimed, waits for all of them, and only   *)
(* then integrates what is pending.  It has no integrator beside the       *)
(* workers, and no handler for a signal: it is interrupted by Ctrl-C or by *)
(* an exception, and then asyncio.run cancels the workers that are left.   *)
(***************************************************************************)
EXTENDS AlluviumDaemon

VARIABLE batch   \* where run_once is, "none" when it is not the runner

onceVars == <<vars, batch>>

Batches == {"none", "drain", "wait", "integrate", "ended", "aborted"}

OnceInit == Init /\ batch = "none"

(***************************************************************************)
(* run_once                                                                *)
(***************************************************************************)
StartDaemonOrBatch == StartRunner /\ batch' \in {"none", "drain"}

\* start_available_workers returns: no slot is free, or nothing is left to
\* claim except items of the inbox that are not stable yet.
DrainEnds ==
  /\ batch = "drain" /\ phase = "up" /\ cpc = "idle"
  /\ \/ \A w \in Slots : wpc[w] # "free"
     \/ RevisionTasks \cup QueuedTasks = {}
  /\ batch' = "wait"
  /\ UNCHANGED vars

\* Another look for work, and then what is pending is listed.
LookForWork ==
  \/ NextToClaim # {} /\ batch' = "drain" /\ UNCHANGED vars
  \/ RevisionTasks \cup QueuedTasks = {} /\ batch' = "integrate" /\ ListPending

\* Mutant: the running workers are not waited for.
LookAtOnce == batch = "wait" /\ LoopFree /\ LookForWork

\* The wait is for running_tasks, the names of the tasks at work, to be empty.
LookAgain == batch = "wait" /\ LoopFree /\ runningTasks = {} /\ LookForWork

\* integrate_ready_done_tasks(limit=None) takes what was listed.  Its
\* exceptions end the batch.
IntegrateAll ==
  /\ batch = "integrate"
  /\ \/ ilist # {} /\ (\E t \in Tasks : StartIntegration(t)) /\ batch' = batch
     \/ FinishIntegration /\ batch' = batch
     \/ (IntegrateTaskRaises \/ FinishFails) /\ batch' = "aborted"

\* Mutant: the loop goes on until nothing is waiting for a revision either.
EndWhenNothingIsReturned ==
  /\ batch = "integrate" /\ ipc = "idle" /\ ilist = {} /\ RevisionTasks = {}
  /\ RequestStop
  /\ batch' = "ended"

BatchEnds ==
  /\ batch = "integrate" /\ ipc = "idle" /\ ilist = {}
  /\ RequestStop
  /\ batch' = "ended"

\* Ctrl-C, or an exception.
Interrupt ==
  /\ batch \in {"drain", "wait", "integrate", "aborted"}
  /\ RequestStop
  /\ batch' = "aborted"

\* What asyncio.run does with the coroutines that are left: it cancels them,
\* without a period of grace, and waits for the thread.
CancelWorkers ==
  /\ batch \in {"ended", "aborted"} /\ phase = "stopping"
  /\ \E w \in Slots :
       \/ CancelWorker(w)
       \/ wpc[w] \in {"agent", "exited"} /\ (SupervisorError(w) \/ UnrecoverableError(w))
  /\ batch' = batch

CancelIntegration ==
  /\ batch = "aborted" /\ phase = "stopping"
  /\ FinishCancelled \/ IntegrateTaskRaises
  /\ batch' = batch

BatchExits ==
  /\ batch \in {"ended", "aborted"}
  /\ RunnerExits
  /\ batch' = "none"

(***************************************************************************)
(* The specification                                                       *)
(***************************************************************************)
\* shutdown_workers runs after the integrator's loop has returned.
RunDaemon ==
  /\ batch = "none" /\ batch' = batch
  /\ \/ Coordinate \/ (\E w \in Slots : StartFails(w))
     \/ \E w \in Slots : Work(w)
     \/ Integrate
     \/ RequestStop
     \/ ipc = "idle" /\ \E w \in Slots : CancelWorker(w)
     \/ RunnerExits

\* The supervisors have the loop when run_once waits: for them, or for the
\* thread of the integrator.
WorkersRun == batch \in {"none", "wait"} \/ (batch = "integrate" /\ ipc # "idle")

RunBatch ==
  \/ batch = "drain" /\ Coordinate /\ batch' = batch
  \/ batch = "drain" /\ (\E w \in Slots : StartFails(w)) /\ batch' = "aborted"
  \/ batch # "none" /\ WorkersRun /\ (\E w \in Slots : Work(w)) /\ batch' = batch
  \/ DrainEnds \/ LookAgain \/ IntegrateAll \/ BatchEnds
  \/ Interrupt \/ CancelWorkers \/ CancelIntegration \/ BatchExits

\* The agents and the thread do not wait for the loop.
Beside == MergeThread \/ \E w \in Slots, code \in {"ok", "error"} : AgentExits(w, code)

OnceNext ==
  \/ StartDaemonOrBatch
  \/ phase # "down" /\ Startup /\ batch' = IF phase' = "down" THEN "none" ELSE batch
  \/ RunDaemon
  \/ RunBatch
  \/ batch # "none" /\ Beside /\ batch' = batch
  \/ Environment /\ batch' = IF phase' = "down" THEN "none" ELSE batch

OnceSpec == OnceInit /\ [][OnceNext]_onceVars

(***************************************************************************)
(* Fairness.  asyncio runs every coroutine that is ready, so a coroutine   *)
(* whose step is enabled again and again takes it (SF: the loop is busy in *)
(* between).  Claims are FIFO within a state (ORDER BY updated_at).  An    *)
(* agent ends because of timeout_seconds.  A daemon that is down is        *)
(* started again by its supervisor (Restart=always), run_once by a timer   *)
(* or by hand; it may be interrupted any number of times, not for ever.    *)
(***************************************************************************)
Supervise(w) ==
  \/ LaunchWorker(w) \/ ReadPrior(w) \/ FinalizeWorkerBranch(w) \/ FinalizeBranchFailed(w)
  \/ SettleWorker(w)

FairOnceSpec ==
  /\ OnceSpec
  /\ WF_onceVars(OnceNext /\ Startup)
  /\ \A t \in Tasks : SF_onceVars(/\ batch \in {"none", "drain"} /\ batch' = batch
                                  /\ \/ ClaimInboxItem(t)
                                     \/ \E w \in Slots : ClaimTask(t, w))
  /\ WF_onceVars(/\ batch \in {"none", "drain"} /\ batch' = batch
                 /\ RecordClaim \/ \E w \in Slots : StartClaimed(w))
  /\ \A w \in Slots :
       /\ SF_onceVars(WorkersRun /\ Supervise(w) /\ batch' = batch)
       /\ WF_onceVars((\E code \in {"ok", "error"} : AgentExits(w, code)) /\ batch' = batch)
  /\ SF_onceVars(/\ batch = "none" \/ (batch = "integrate" /\ (ilist # {} \/ ipc # "idle"))
                 /\ batch' = batch
                 /\ FinishIntegration \/ \E t \in Tasks : StartIntegration(t))
  /\ WF_onceVars(MergeThread /\ batch' = batch)
  /\ WF_onceVars(batch = "none" /\ RunnerExits /\ batch' = batch)
  /\ WF_onceVars(DrainEnds) /\ WF_onceVars(LookAgain) /\ WF_onceVars(BatchEnds)
  /\ WF_onceVars(/\ batch \in {"ended", "aborted"}
                 /\ Interrupt \/ CancelWorkers \/ CancelIntegration \/ BatchExits)
  /\ <>[][batch = "aborted" \/ ~Interrupt]_onceVars

(***************************************************************************)
(* Properties                                                              *)
(***************************************************************************)
\* run_once returns with nothing half done: no task queued, none running or
\* integrating except where a row could not be written, no branch waiting, no
\* worker left.  Tasks that were sent back wait for the next run.
BatchLeavesNothing ==
  (batch = "ended" /\ Undisturbed /\ MoveUnrevisionableToNeedsHuman) =>
    /\ \A t \in Tasks :
         /\ row[t] # "queued"
         /\ row[t] \in InterruptedStates => t \in unwritten
         /\ WorkersOf(t) = {}
    /\ PendingIntegrations = {}

\* run_once returns, however often agents fail and branches are sent back:
\* there is no way from its integration to its workers.
BatchTerminates == batch # "none" ~> batch = "none"
=============================================================================
