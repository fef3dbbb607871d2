--------------------------- MODULE AlluviumDaemon ---------------------------
(***************************************************************************)
(* The task life cycle of one Alluvium root: the inbox, the task folders,  *)
(* the SQLite row of each task, its .system/integration.json, the worker   *)
(* supervisors, the integrator, start-up reconciliation, and the CLI's     *)
(* `retry`, which runs in a process of its own beside the runner.          *)
(*                                                                         *)
(* The runner is an asyncio program.  A coroutine keeps the event loop     *)
(* until it awaits something that is not ready, so a step of a coroutine   *)
(* needs LoopFree: nobody is in the middle of a section without a          *)
(* suspension point.  Such a section is cut in two steps only where a      *)
(* crash or another process can be seen in between.  Not bound to the      *)
(* loop: the agent processes, the thread that runs integrate_task, the     *)
(* CLI, the user, and a crash.                                             *)
(*                                                                         *)
(* git is outside the repository: which branch has a diff, whether a merge *)
(* conflicts and whether the tests pass are choices made here.             *)
(***************************************************************************)
EXTENDS Naturals, FiniteSets

CONSTANTS
  Tasks,                          \* task ids; their order is that of the folder names
  NoTask,                         \* no task: value of an idle slot
  Slots,                          \* worker slots, safety.max_workers of them
  MaxRevisionRounds,              \* integration.max_revision_rounds
  ReturnBlockedForRevision,       \* integration.return_blocked_for_revision
  MoveUnrevisionableToNeedsHuman, \* integration.move_unrevisionable_to_needs_human
  CleanupAfterMerge,              \* integration.cleanup_after_merge
  AgentResults,                   \* what agents report in result.json
  FromAnyState,                   \* may the user pass --from-any-state to retry?
  Faults,                         \* which commands and writes may fail, see FaultKinds
  MaxRetries, MaxCrashes, MaxDamages   \* bounds on what the environment does

\* "write": an update of the database or a write to a task folder raises.
FaultKinds == {"launch", "worktree", "signal", "finalize", "integrate", "write", "cleanup"}

ASSUME TasksAssumption == Tasks \subseteq Nat /\ NoTask \notin Tasks
ASSUME RoundsAssumption == MaxRevisionRounds \in Nat
ASSUME ResultsAssumption == AgentResults \subseteq {"succeeded", "failed", "needs_human"}
ASSUME FlagsAssumption ==
  /\ {ReturnBlockedForRevision, MoveUnrevisionableToNeedsHuman,
      CleanupAfterMerge, FromAnyState} \subseteq BOOLEAN
  /\ Faults \subseteq FaultKinds
ASSUME BoundsAssumption == {MaxRetries, MaxCrashes, MaxDamages} \subseteq Nat

VARIABLES
  \* Durable state.
  inbox,        \* items of inbox/ not yet claimed, named by the id they will get
  taskDir,      \* tasks whose folder tasks/<id> exists
  row,          \* state column of the task's SQLite row, "none" without a row
  integration,  \* .system/integration.json: status and revision_round
  result,       \* status in .agent/result.json
  needsHuman,   \* tasks whose .agent/needs_human.md exists
  worktree,     \* tasks whose branch and worktree exist
  \* Memory of the runner process.
  phase, todo,  \* where run() is, and what a start-up pass has listed
  cpc, ctask,   \* start_available_workers in the middle of an inbox claim
  wpc, wtask, wout,            \* run_one_worker per slot: place, task, outcome
  prior,                       \* the round finalize_worker_branch has read
  runningTasks,                \* running_tasks: a set of names
  ipc, itask, iround, istatus, \* integrate_ready_done_tasks and its thread
  ilist,                       \* what run_once has listed to be integrated
  \* Other processes.
  orphans,      \* tasks with an agent that outlived its supervisor
  retrying,     \* how far a `retry` of each task is
  retries, crashes, damages,   \* what the environment has done so far
  \* Auxiliary.
  unwritten     \* tasks whose row this runner could not write

disk     == <<inbox, taskDir, integration, result, needsHuman, worktree>>
rows     == <<row, unwritten>>
runner   == <<phase, todo>>
claimer  == <<cpc, ctask>>
workers  == <<wpc, wtask, wout, prior, runningTasks>>
merger   == <<ipc, itask, iround, istatus, ilist>>
environ  == <<retrying, retries, crashes, damages>>
outside  == <<orphans, environ>>
vars     == <<disk, rows, runner, claimer, workers, merger, outside>>

(***************************************************************************)
(* Types                                                                   *)
(***************************************************************************)
TASK_STATES == {"queued", "running", "worker_done", "integrating", "done",
                "needs_revision", "needs_human", "failed", "dead_letter",
                "archived", "lost"}
IntegrationStatuses == {"absent", "pending", "noop", "merged",
                        "needs_revision", "blocked"}
ResultStatuses == {"succeeded", "failed", "needs_human"}
Integration == [status : IntegrationStatuses, round : 0..MaxRevisionRounds]
Phases == {"down", "missing", "orphans", "running", "integrating", "up", "stopping"}
NoIntegration == [status |-> "absent", round |-> 0]

\* A slot without a supervisor: it is free, or the supervisor that was to
\* release it has never been started.
Idle == {"free", "leaked"}
Supervised(w) == wpc[w] \notin Idle

\* The variables hold values of their types; in particular no task is ever
\* returned for revision more often than max_revision_rounds records.
TypeOK ==
  /\ inbox \in SUBSET Tasks
  /\ taskDir \in SUBSET Tasks
  /\ row \in [Tasks -> TASK_STATES \cup {"none"}]
  /\ integration \in [Tasks -> Integration]
  /\ result \in [Tasks -> ResultStatuses \cup {"absent"}]
  /\ needsHuman \in SUBSET Tasks
  /\ worktree \in SUBSET Tasks
  /\ phase \in Phases
  /\ todo \in SUBSET Tasks
  /\ cpc \in {"idle", "claimed", "queued"}
  /\ ctask \in Tasks \cup {NoTask}
  /\ cpc # "idle" => ctask \in Tasks
  /\ wpc \in [Slots -> Idle \cup {"launch", "agent", "exited", "finalize", "settle"}]
  /\ wtask \in [Slots -> Tasks \cup {NoTask}]
  /\ \A w \in Slots : Supervised(w) => wtask[w] \in Tasks
  /\ wout \in [Slots -> {"none", "ok", "error", "noop", "branch"}]
  /\ prior \in 0..MaxRevisionRounds
  /\ runningTasks \in SUBSET Tasks
  /\ ipc \in {"idle", "started", "merging", "returned"}
  /\ itask \in Tasks \cup {NoTask}
  /\ ipc # "idle" => itask \in Tasks
  /\ iround \in 0..MaxRevisionRounds
  /\ istatus \in IntegrationStatuses
  /\ ilist \in SUBSET Tasks
  /\ orphans \in SUBSET Tasks
  /\ retrying \in [Tasks -> {"no", "checked", "archived"}]
  /\ retries \in 0..MaxRetries
  /\ crashes \in 0..MaxCrashes
  /\ damages \in 0..MaxDamages
  /\ unwritten \in SUBSET Tasks

(***************************************************************************)
(* Helpers                                                                 *)
(***************************************************************************)
\* No coroutine is inside a section without a suspension point.
LoopFree ==
  /\ phase \in {"up", "stopping"}
  /\ cpc = "idle"
  /\ \A w \in Slots : wpc[w] \notin {"finalize", "settle"}

WorkersOf(t) == {w \in Slots : Supervised(w) /\ wtask[w] = t}

SetRow(t, state) ==
  /\ row' = [row EXCEPT ![t] = state]
  /\ unwritten' = unwritten \ {t}

\* The row was to be written and is not.
RowIsLeft(t) ==
  /\ row' = row
  /\ unwritten' = unwritten \cup {t}

\* ensure_result_files: only a result the agent did not write is filled in.
EnsureResultFiles(t, status) ==
  result' = [result EXCEPT ![t] = IF @ = "absent" THEN status ELSE @]

\* cleanup_task_worktree_and_branch; whether git succeeds is not looked at.
CleanupTaskWorktreeAndBranch(t) ==
  \/ CleanupAfterMerge /\ worktree' = worktree \ {t}
  \/ (~CleanupAfterMerge \/ "cleanup" \in Faults) /\ worktree' = worktree

\* An agent leaves in .agent/ whatever it likes: a result, a call for help,
\* both, or nothing.
AgentWrites(t) ==
  /\ \E status \in AgentResults \cup {result[t]} :
        result' = [result EXCEPT ![t] = status]
  /\ \/ needsHuman' = needsHuman
     \/ "needs_human" \in AgentResults /\ needsHuman' = needsHuman \cup {t}

\* The folder of the task is gone, with all it holds.
ForgetFolder(t) ==
  /\ taskDir' = taskDir \ {t}
  /\ integration' = [integration EXCEPT ![t] = NoIntegration]
  /\ result' = [result EXCEPT ![t] = "absent"]
  /\ needsHuman' = needsHuman \ {t}

FreeSlot(w) ==
  /\ wpc' = [wpc EXCEPT ![w] = "free"]
  /\ wtask' = [wtask EXCEPT ![w] = NoTask]
  /\ wout' = [wout EXCEPT ![w] = "none"]
  /\ runningTasks' = runningTasks \ {wtask[w]}
  /\ UNCHANGED prior

OccupySlot(w, t) ==
  /\ wpc[w] = "free"
  /\ wpc' = [wpc EXCEPT ![w] = "launch"]
  /\ wtask' = [wtask EXCEPT ![w] = t]
  /\ wout' = [wout EXCEPT ![w] = "none"]
  /\ runningTasks' = runningTasks \cup {t}
  /\ UNCHANGED prior

Init ==
  /\ inbox = Tasks
  /\ taskDir = {} /\ needsHuman = {} /\ worktree = {}
  /\ row = [t \in Tasks |-> "none"]
  /\ integration = [t \in Tasks |-> NoIntegration]
  /\ result = [t \in Tasks |-> "absent"]
  /\ phase = "down" /\ todo = {}
  /\ cpc = "idle" /\ ctask = NoTask
  /\ wpc = [w \in Slots |-> "free"]
  /\ wtask = [w \in Slots |-> NoTask]
  /\ wout = [w \in Slots |-> "none"]
  /\ prior = 0 /\ runningTasks = {}
  /\ ipc = "idle" /\ itask = NoTask /\ iround = 0 /\ istatus = "absent" /\ ilist = {}
  /\ orphans = {} /\ retrying = [t \in Tasks |-> "no"]
  /\ retries = 0 /\ crashes = 0 /\ damages = 0
  /\ unwritten = {}

(***************************************************************************)
(* Start-up: reconcile_on_startup runs to its end before the loops start,  *)
(* in passes over what each of them has listed.  The CLI and the agents    *)
(* left behind go on beside it.                                            *)
(***************************************************************************)
InterruptedStates == {"running", "integrating"}

\* Mutant: work that was in flight is left to the last pass.
ToReconcileButRunning(pass) ==
  IF pass = "missing"
    THEN {t \in Tasks \ taskDir : row[t] \notin {"none", "lost", "archived", "running"}}
  ELSE IF pass = "orphans" THEN {t \in taskDir : row[t] = "none"}
  ELSE {t \in taskDir : row[t] = pass /\ pass \in InterruptedStates}

\* Mutant: one of the two interrupted states is forgotten.
ToReconcileOnlyRunning(pass) ==
  IF pass = "missing"
    THEN {t \in Tasks \ taskDir : row[t] \notin {"none", "lost", "archived"}}
  ELSE IF pass = "orphans" THEN {t \in taskDir : row[t] = "none"}
  ELSE {t \in taskDir : row[t] = pass /\ pass = "running"}

\* The rows without a folder, the folders without a row, and what was in
\* flight when the previous runner ended.
ToReconcile(pass) ==
  IF pass = "missing"
    THEN {t \in Tasks \ taskDir : row[t] \notin {"none", "lost", "archived"}}
  ELSE IF pass = "orphans" THEN {t \in taskDir : row[t] = "none"}
  ELSE {t \in taskDir : row[t] = pass /\ pass \in InterruptedStates}

EnterPass(pass) == phase' = pass /\ todo' = ToReconcile(pass)

StartRunner ==
  /\ phase = "down"
  /\ EnterPass("missing")
  /\ row' = row /\ unwritten' = {}
  /\ UNCHANGED <<disk, claimer, workers, merger, outside>>

NextPass ==
  /\ todo = {}
  /\ \/ phase = "missing" /\ EnterPass("orphans")
     \/ phase = "orphans" /\ EnterPass("running")
     \/ phase = "running" /\ EnterPass("integrating")
     \/ phase = "integrating" /\ EnterPass("up")
  /\ UNCHANGED <<disk, rows, claimer, workers, merger, outside>>

\* A row whose folder is gone is marked lost.
ReconcileMissing(t) ==
  /\ phase = "missing" /\ t \in todo
  /\ todo' = todo \ {t}
  /\ SetRow(t, "lost")
  /\ UNCHANGED <<disk, phase, claimer, workers, merger, outside>>

\* The state given to a folder without a row.  The code looks for
\* integration.json under .agent/, where nothing writes it, so only the
\* human's file and the agent's result decide.
InferOrphanState(t) ==
  IF t \in needsHuman THEN "needs_human"
  ELSE [absent |-> "queued", succeeded |-> "done",
        failed |-> "failed", needs_human |-> "needs_human"][result[t]]

ReconcileOrphan(t) ==
  /\ phase = "orphans" /\ t \in todo
  /\ todo' = todo \ {t}
  /\ SetRow(t, InferOrphanState(t))
  /\ UNCHANGED <<disk, phase, claimer, workers, merger, outside>>

\* The row cannot be written: the folder is put into quarantine, or is left
\* where it is if that fails, too.
OrphanNotRecorded(t) ==
  /\ "write" \in Faults
  /\ phase = "orphans" /\ t \in todo
  /\ todo' = todo \ {t}
  /\ ForgetFolder(t) \/ UNCHANGED <<taskDir, integration, result, needsHuman>>
  /\ UNCHANGED <<inbox, worktree, rows, phase, claimer, workers, merger, outside>>

\* Work in flight when the previous runner ended is failed ...
ReconcileInterrupted(t) ==
  /\ phase \in InterruptedStates /\ t \in todo
  /\ todo' = todo \ {t}
  /\ EnsureResultFiles(t, "failed")
  /\ SetRow(t, "failed")
  /\ UNCHANGED <<inbox, taskDir, integration, needsHuman, worktree, phase,
                 claimer, workers, merger, outside>>

\* ... or left for manual inspection, as a last resort.
InterruptedIsLeft(t) ==
  /\ "write" \in Faults
  /\ phase \in InterruptedStates /\ t \in todo
  /\ todo' = todo \ {t}
  /\ result' = result \/ EnsureResultFiles(t, "failed")
  /\ RowIsLeft(t)
  /\ UNCHANGED <<inbox, taskDir, integration, needsHuman, worktree, phase,
                 claimer, workers, merger, outside>>

\* The first pass handles no exception: the runner does not start.
StartupFails ==
  /\ "write" \in Faults
  /\ phase = "missing" /\ todo # {}
  /\ phase' = "down" /\ todo' = {}
  /\ UNCHANGED <<disk, rows, claimer, workers, merger, outside>>

(***************************************************************************)
(* Coordinator: start_available_workers.  It never suspends: the semaphore *)
(* is only acquired when it is not locked.                                 *)
(***************************************************************************)
RevisionTasks == {t \in taskDir : row[t] = "needs_revision"}
\* Mutant: a running task is taken for a queued one.
UnfinishedTasks == {t \in taskDir : row[t] \in {"queued", "running"}}

QueuedTasks == {t \in taskDir : row[t] = "queued"}

\* Revisions go before queued tasks, and those before the inbox.  Which of
\* several the code takes (the oldest) is a choice here.
NextToClaim ==
  IF RevisionTasks # {} THEN RevisionTasks
  ELSE IF QueuedTasks # {} THEN QueuedTasks ELSE inbox

\* claim_revision_task and the start of the worker.
ClaimTask(t, w) ==
  /\ phase = "up" /\ LoopFree
  /\ t \in NextToClaim \ inbox
  /\ OccupySlot(w, t)
  /\ SetRow(t, "running")
  /\ UNCHANGED <<disk, runner, claimer, merger, outside>>

\* claim_inbox_item: the folder is there before the row is.
ClaimInboxItem(t) ==
  /\ phase = "up" /\ LoopFree
  /\ \E w \in Slots : wpc[w] = "free"
  /\ t \in NextToClaim \cap inbox
  /\ inbox' = inbox \ {t}
  /\ taskDir' = taskDir \cup {t}
  /\ cpc' = "claimed" /\ ctask' = t
  /\ UNCHANGED <<integration, result, needsHuman, worktree, rows,
                 runner, workers, merger, outside>>

RecordClaim ==
  /\ cpc = "claimed"
  /\ SetRow(ctask, "queued")
  /\ cpc' = "queued"
  /\ UNCHANGED <<disk, runner, ctask, workers, merger, outside>>

\* The row cannot be written.  A claimed folder is left without one, until
\* the next start ...
RecordClaimFails ==
  /\ "write" \in Faults
  /\ cpc = "claimed"
  /\ cpc' = "idle" /\ ctask' = NoTask
  /\ UNCHANGED <<disk, rows, runner, workers, merger, outside>>

StartClaimed(w) ==
  /\ cpc = "queued"
  /\ OccupySlot(w, ctask)
  /\ SetRow(ctask, "running")
  /\ cpc' = "idle" /\ ctask' = NoTask
  /\ UNCHANGED <<disk, runner, merger, outside>>

\* ... and a slot acquired for a worker that is not started is never released.
StartFails(w) ==
  /\ "write" \in Faults
  /\ \/ phase = "up" /\ LoopFree /\ NextToClaim \ inbox # {}
     \/ cpc = "queued"
  /\ wpc[w] = "free"
  /\ wpc' = [wpc EXCEPT ![w] = "leaked"]
  /\ cpc' = "idle" /\ ctask' = NoTask
  /\ UNCHANGED <<disk, rows, runner, wtask, wout, prior, runningTasks, merger, outside>>

(***************************************************************************)
(* Workers: run_one_worker and launch_worker.                              *)
(***************************************************************************)
\* create_worktree keeps an existing branch and worktree, and the agent starts.
LaunchWorker(w) ==
  /\ LoopFree /\ wpc[w] = "launch"
  /\ worktree' = worktree \cup {wtask[w]}
  /\ wpc' = [wpc EXCEPT ![w] = "agent"]
  /\ UNCHANGED <<inbox, taskDir, integration, result, needsHuman, rows, runner, claimer,
                 wtask, wout, prior, runningTasks, merger, outside>>

\* The agent's command does not exist: exit code 127 and a result of its own.
LaunchFails(w) ==
  /\ "launch" \in Faults
  /\ LoopFree /\ wpc[w] = "launch"
  /\ worktree' = worktree \cup {wtask[w]}
  /\ result' = [result EXCEPT ![wtask[w]] = "failed"]
  /\ wpc' = [wpc EXCEPT ![w] = "settle"]
  /\ wout' = [wout EXCEPT ![w] = "error"]
  /\ UNCHANGED <<inbox, taskDir, integration, needsHuman, rows, runner, claimer,
                 wtask, prior, runningTasks, merger, outside>>

\* The agent exits by itself, or is killed after timeout_seconds ("error").
AgentExits(w, code) ==
  /\ wpc[w] = "agent"
  /\ AgentWrites(wtask[w])
  /\ wpc' = [wpc EXCEPT ![w] = "exited"]
  /\ wout' = [wout EXCEPT ![w] = code]
  /\ UNCHANGED <<inbox, taskDir, integration, worktree, rows, runner, claimer,
                 wtask, prior, runningTasks, merger, outside>>

\* The supervisor resumes and looks at the branch, whatever the exit code: it
\* reads the revision round of the record ...
ReadPrior(w) ==
  /\ LoopFree /\ wpc[w] = "exited"
  /\ wtask[w] \in worktree
  /\ prior' = integration[wtask[w]].round
  /\ wpc' = [wpc EXCEPT ![w] = "finalize"]
  /\ UNCHANGED <<disk, rows, runner, claimer, wtask, wout, runningTasks, merger, outside>>

\* Mutant: the revision round is not carried over.
FinalizedFromScratch(status) == [status |-> status, round |-> 0]

FinalizedIntegration(status) == [status |-> status, round |-> prior]

\* ... and writes a new record with the round it has read.  The thread of the
\* integrator may have written to the record in between.
FinalizeWorkerBranch(w) ==
  /\ wpc[w] = "finalize"
  /\ \E status \in {"pending", "noop"} :
       /\ integration' = [integration EXCEPT ![wtask[w]] = FinalizedIntegration(status)]
       /\ wout' = [wout EXCEPT ![w] =
                     IF @ = "error" THEN @
                     ELSE IF status = "noop" THEN "noop" ELSE "branch"]
  /\ wpc' = [wpc EXCEPT ![w] = "settle"]
  /\ prior' = 0
  /\ UNCHANGED <<inbox, taskDir, result, needsHuman, worktree, rows, runner, claimer,
                 wtask, runningTasks, merger, outside>>

\* It raises: always when the worktree is gone.  The record that
\* launch_worker writes instead has no revision_round.
FinalizeBranchFailed(w) ==
  /\ \/ wpc[w] = "exited" /\ LoopFree /\ wtask[w] \notin worktree
     \/ wpc[w] = "exited" /\ LoopFree /\ "finalize" \in Faults
     \/ wpc[w] = "finalize" /\ "finalize" \in Faults
  /\ integration' = [integration EXCEPT ![wtask[w]] = [status |-> "blocked", round |-> 0]]
  /\ wout' = [wout EXCEPT ![w] = IF @ = "error" THEN @ ELSE "branch"]
  /\ wpc' = [wpc EXCEPT ![w] = "settle"]
  /\ prior' = 0
  /\ UNCHANGED <<inbox, taskDir, result, needsHuman, worktree, rows, runner, claimer,
                 wtask, runningTasks, merger, outside>>

\* Mutants: a changed branch is taken for an empty one, or the reverse.
SettledAsDone(w) ==
  IF wout[w] = "error" THEN "failed"
  ELSE IF wtask[w] \in needsHuman THEN "needs_human" ELSE "done"
SettledAsWorkerDone(w) ==
  IF wout[w] = "error" THEN "failed"
  ELSE IF wtask[w] \in needsHuman THEN "needs_human" ELSE "worker_done"

\* The state a finished run leads to, in the order the code asks.
SettledState(w) ==
  IF wout[w] = "error" THEN "failed"
  ELSE IF wtask[w] \in needsHuman THEN "needs_human"
  ELSE IF wout[w] = "noop" THEN "done" ELSE "worker_done"

ResultFor(state) ==
  IF state \in {"failed", "needs_human"} THEN state ELSE "succeeded"

\* The end of run_one_worker.
SettleWorker(w) ==
  LET t == wtask[w] IN
  /\ wpc[w] = "settle"
  /\ EnsureResultFiles(t, ResultFor(SettledState(w)))
  /\ IF SettledState(w) = "done" THEN CleanupTaskWorktreeAndBranch(t)
                                 ELSE worktree' = worktree
  /\ SetRow(t, SettledState(w))
  /\ FreeSlot(w)
  /\ UNCHANGED <<inbox, taskDir, integration, needsHuman, runner, claimer, merger, outside>>

\* What can raise in run_one_worker: create_worktree; a write before or after
\* the agent's run; proc.terminate(), when the agent ends just before it is
\* signalled; a write while the agent runs, which then goes on without its
\* supervisor; and a write at the end, when the result may be there already
\* and an empty branch may be gone.
SupervisorRaises(w) ==
  \/ /\ LoopFree /\ wpc[w] = "launch" /\ "worktree" \in Faults
     /\ UNCHANGED <<worktree, orphans>>
  \/ /\ LoopFree /\ wpc[w] = "launch" /\ "write" \in Faults
     /\ worktree' = worktree \cup {wtask[w]}
     /\ UNCHANGED orphans
  \/ /\ LoopFree /\ wpc[w] = "agent" /\ "write" \in Faults
     /\ orphans' = orphans \cup {wtask[w]}
     /\ UNCHANGED worktree
  \/ /\ LoopFree /\ wpc[w] = "exited" /\ {"signal", "write"} \cap Faults # {}
     /\ UNCHANGED <<worktree, orphans>>
  \/ /\ wpc[w] = "settle" /\ "write" \in Faults
     /\ \/ worktree' = worktree
        \/ SettledState(w) = "done" /\ CleanupTaskWorktreeAndBranch(wtask[w])
     /\ UNCHANGED orphans

ResultsWritten(w) ==
  {"failed"} \cup (IF wpc[w] = "settle" THEN {ResultFor(SettledState(w))} ELSE {})

\* The supervisor fails the task ...
SupervisorError(w) ==
  /\ SupervisorRaises(w)
  /\ \E status \in ResultsWritten(w) : EnsureResultFiles(wtask[w], status)
  /\ SetRow(wtask[w], "failed")
  /\ FreeSlot(w)
  /\ UNCHANGED <<inbox, taskDir, integration, needsHuman, runner, claimer, merger, environ>>

\* ... or cannot do that either: "unrecoverable error", and the row stays.
UnrecoverableError(w) ==
  /\ "write" \in Faults
  /\ SupervisorRaises(w)
  /\ \/ result' = result
     \/ \E status \in ResultsWritten(w) : EnsureResultFiles(wtask[w], status)
  /\ RowIsLeft(wtask[w])
  /\ FreeSlot(w)
  /\ UNCHANGED <<inbox, taskDir, integration, needsHuman, runner, claimer, merger, environ>>

(***************************************************************************)
(* Integrator: integrate_ready_done_tasks and integrate_task.              *)
(***************************************************************************)
\* Mutants: a branch that was sent back, or blocked, is listed again.
PendingOrReturned ==
  {t \in taskDir : integration[t].status \in {"pending", "needs_revision"}}
PendingOrBlocked ==
  {t \in taskDir : integration[t].status \in {"pending", "blocked"}}

\* list_pending_integrations asks integration.json, not the row.
PendingIntegrations == {t \in taskDir : integration[t].status = "pending"}

\* run_once lists what is pending once, and takes all of it.
ListPending ==
  /\ phase = "up" /\ LoopFree
  /\ ipc = "idle"
  /\ ilist' = PendingIntegrations
  /\ UNCHANGED <<disk, rows, runner, claimer, workers, ipc, itask, iround, istatus, outside>>

\* The first task in folder order, of that list or of what is pending now; its
\* row goes to integrating.  A listed task is not looked at again.
StartIntegration(t) ==
  /\ phase = "up" /\ LoopFree
  /\ ipc = "idle"
  /\ LET listed == IF ilist = {} THEN PendingIntegrations ELSE ilist IN
       t \in listed /\ \A u \in listed : t <= u
  /\ ilist' = ilist \ {t}
  /\ SetRow(t, "integrating")
  /\ ipc' = "started" /\ itask' = t /\ iround' = 0 /\ istatus' = "absent"
  /\ UNCHANGED <<disk, runner, claimer, workers, outside>>

\* From here a thread beside the loop: it reads integration.json ...
ThreadReads ==
  /\ ipc = "started"
  /\ ipc' = "merging" /\ iround' = integration[itask].round
  /\ UNCHANGED <<disk, rows, runner, claimer, workers, itask, istatus, ilist, outside>>

\* ... and ends with the given record in it.
ThreadReturns(status, round) ==
  /\ ipc = "merging"
  /\ integration' = [integration EXCEPT ![itask] = [status |-> status, round |-> round]]
  /\ ipc' = "returned" /\ istatus' = status
  /\ UNCHANGED <<inbox, taskDir, result, needsHuman, rows, runner, claimer, workers,
                 itask, iround, ilist, outside>>

\* The branch is squashed on the base branch, or turns out to add nothing.
IntegrateTask(status) ==
  /\ itask \in worktree
  /\ ThreadReturns(status, iround)
  /\ CleanupTaskWorktreeAndBranch(itask)

\* Mutant: one round too many.
CanReviseOnceMore(revisionable) ==
  revisionable /\ ReturnBlockedForRevision /\ iround <= MaxRevisionRounds

CanRevise(revisionable) ==
  revisionable /\ ReturnBlockedForRevision /\ iround < MaxRevisionRounds

\* Mutant: the branch is cleaned up as after a merge.
ReturnAndCleanUp(revisionable) ==
  /\ IF CanRevise(revisionable) THEN ThreadReturns("needs_revision", iround + 1)
                                ELSE ThreadReturns("blocked", iround)
  /\ CleanupTaskWorktreeAndBranch(itask)

\* A conflict, failed tests or an advanced base may be revised; a dirty
\* repository or a failed commit or fast-forward may not.
ReturnForRevisionOrBlock(revisionable) ==
  /\ IF CanRevise(revisionable) THEN ThreadReturns("needs_revision", iround + 1)
                                ELSE ThreadReturns("blocked", iround)
  /\ worktree' = worktree

IntegratorIdles ==
  /\ ipc' = "idle" /\ itask' = NoTask /\ iround' = 0 /\ istatus' = "absent"

\* integrate_task raises before it has decided, or the event before it cannot
\* be written: row and record stay as they are, and unless a worker has written
\* the record meanwhile the task is listed again.
IntegrateTaskRaises ==
  /\ {"integrate", "write"} \cap Faults # {}
  /\ LoopFree /\ ipc \in {"started", "merging"}
  /\ IF integration[itask].status = "pending" THEN UNCHANGED rows ELSE RowIsLeft(itask)
  /\ IntegratorIdles
  /\ UNCHANGED <<disk, runner, claimer, workers, ilist, outside>>

IntegratedState ==
  IF istatus = "needs_revision" THEN "needs_revision"
  ELSE IF istatus = "blocked" THEN "needs_human" ELSE "done"

\* The coroutine resumes after to_thread and moves the row on.
FinishIntegration ==
  /\ LoopFree /\ ipc = "returned"
  /\ IF istatus = "blocked" /\ ~MoveUnrevisionableToNeedsHuman
       THEN UNCHANGED rows ELSE SetRow(itask, IntegratedState)
  /\ needsHuman' = IF istatus = "blocked" /\ MoveUnrevisionableToNeedsHuman
                   THEN needsHuman \cup {itask} ELSE needsHuman
  /\ IntegratorIdles
  /\ UNCHANGED <<inbox, taskDir, integration, result, worktree,
                 runner, claimer, workers, ilist, outside>>

\* A write raises once the record is decided: the row is not moved on, and the
\* record is not pending any more.
FinishFails ==
  /\ "write" \in Faults
  /\ LoopFree /\ ipc = "returned"
  /\ RowIsLeft(itask)
  /\ \/ needsHuman' = needsHuman
     \/ /\ istatus = "blocked" /\ MoveUnrevisionableToNeedsHuman
        /\ needsHuman' = needsHuman \cup {itask}
  /\ IntegratorIdles
  /\ UNCHANGED <<inbox, taskDir, integration, result, worktree,
                 runner, claimer, workers, ilist, outside>>

\* The coroutine is cancelled while it waits for the thread.  The thread goes
\* on, and nobody takes what it returns.
FinishCancelled ==
  /\ phase = "stopping" /\ LoopFree /\ ipc \in {"started", "returned"}
  /\ RowIsLeft(itask)
  /\ IntegratorIdles
  /\ UNCHANGED <<disk, runner, claimer, workers, ilist, outside>>

(***************************************************************************)
(* Shutdown: SIGTERM, then shutdown_workers after the loops have returned. *)
(***************************************************************************)
RequestStop ==
  /\ phase = "up" /\ LoopFree
  /\ phase' = "stopping"
  /\ UNCHANGED <<disk, rows, todo, claimer, workers, merger, outside>>

\* The grace period is over: the supervisor is cancelled and its agent is
\* terminated.  Nothing is written to the row.  Cancelled in the 20 seconds
\* it gives an agent after a timeout, it does not kill it: an agent that
\* ignores SIGTERM goes on.
CancelWorker(w) ==
  /\ phase = "stopping" /\ LoopFree
  /\ \/ /\ wpc[w] \in {"launch", "exited"}
        /\ UNCHANGED <<result, needsHuman, orphans>>
     \/ /\ wpc[w] = "agent"
        /\ AgentWrites(wtask[w])
        /\ orphans' \in {orphans, orphans \cup {wtask[w]}}
  /\ FreeSlot(w)
  /\ UNCHANGED <<inbox, taskDir, integration, worktree, rows, runner, claimer,
                 merger, environ>>

\* The memory of the process is gone.
MemoryIsLost ==
  /\ phase' = "down" /\ todo' = {}
  /\ wpc' = [w \in Slots |-> "free"]
  /\ wtask' = [w \in Slots |-> NoTask]
  /\ wout' = [w \in Slots |-> "none"]
  /\ prior' = 0 /\ runningTasks' = {}
  /\ cpc' = "idle" /\ ctask' = NoTask
  /\ IntegratorIdles /\ ilist' = {}

RunnerExits ==
  /\ phase = "stopping" /\ LoopFree
  /\ ipc = "idle"
  /\ \A w \in Slots : ~Supervised(w)
  /\ MemoryIsLost
  /\ UNCHANGED <<disk, rows, outside>>

(***************************************************************************)
(* The CLI, the agents left behind, and the environment.                   *)
(***************************************************************************)
Retryable == {"failed", "needs_revision", "needs_human", "lost", "done", "worker_done"}

\* cmd_retry reads the row and checks its state ...
RetryChecks(t) ==
  /\ retries < MaxRetries
  /\ retrying[t] = "no" /\ t \in taskDir
  /\ row[t] \in Retryable \/ (FromAnyState /\ row[t] # "none")
  /\ retrying' = [retrying EXCEPT ![t] = "checked"]
  /\ retries' = retries + 1
  /\ UNCHANGED <<disk, rows, runner, claimer, workers, merger, orphans, crashes, damages>>

\* ... archives what the last attempt left for its agent ...
RetryArchives(t) ==
  /\ retrying[t] = "checked"
  /\ retrying' = [retrying EXCEPT ![t] = "archived"]
  /\ result' = [result EXCEPT ![t] = "absent"]
  /\ needsHuman' = needsHuman \ {t}
  /\ UNCHANGED <<inbox, taskDir, integration, worktree, rows, runner, claimer,
                 workers, merger, orphans, retries, crashes, damages>>

\* ... and queues the task, without looking at its row again.
\* integration.json stays where it is.
RetryQueues(t) ==
  /\ retrying[t] = "archived"
  /\ retrying' = [retrying EXCEPT ![t] = "no"]
  /\ IF row[t] = "none" THEN UNCHANGED rows ELSE SetRow(t, "queued")
  /\ UNCHANGED <<disk, runner, claimer, workers, merger, orphans, retries, crashes, damages>>

\* An agent that survived its runner or its supervisor ends at last.
OrphanExits(t) ==
  /\ t \in orphans
  /\ orphans' = orphans \ {t}
  /\ IF t \in taskDir THEN AgentWrites(t) ELSE UNCHANGED <<result, needsHuman>>
  /\ UNCHANGED <<inbox, taskDir, integration, worktree, rows, runner, claimer,
                 workers, merger, environ>>

\* The runner is killed at any point.  Agents run in sessions of their own
\* and go on.
Crash ==
  /\ phase # "down" /\ crashes < MaxCrashes
  /\ crashes' = crashes + 1
  /\ orphans' = orphans \cup {wtask[w] : w \in {v \in Slots : wpc[v] = "agent"}}
  /\ MemoryIsLost
  /\ UNCHANGED <<disk, rows, retrying, retries, damages>>

\* While the runner is down a task folder is removed with all it holds ...
RemoveTaskDir(t) ==
  /\ phase = "down" /\ damages < MaxDamages
  /\ t \in taskDir
  /\ damages' = damages + 1
  /\ ForgetFolder(t)
  /\ UNCHANGED <<inbox, worktree, rows, runner, claimer, workers, merger,
                 orphans, retrying, retries, crashes>>

\* ... or the database is lost with every row.
LoseDatabase ==
  /\ phase = "down" /\ damages < MaxDamages
  /\ damages' = damages + 1
  /\ row' = [t \in Tasks |-> "none"]
  /\ UNCHANGED <<disk, unwritten, runner, claimer, workers, merger,
                 orphans, retrying, retries, crashes>>

(***************************************************************************)
(* The specification                                                       *)
(***************************************************************************)
Startup ==
  \/ StartRunner
  \/ NextPass
  \/ StartupFails
  \/ \E t \in Tasks : ReconcileMissing(t)
  \/ \E t \in Tasks : ReconcileOrphan(t)
  \/ \E t \in Tasks : OrphanNotRecorded(t)
  \/ \E t \in Tasks : ReconcileInterrupted(t)
  \/ \E t \in Tasks : InterruptedIsLeft(t)

Coordinate ==
  \/ \E t \in Tasks, w \in Slots : ClaimTask(t, w)
  \/ \E t \in Tasks : ClaimInboxItem(t)
  \/ RecordClaim
  \/ RecordClaimFails
  \/ \E w \in Slots : StartClaimed(w)

Work(w) ==
  \/ LaunchWorker(w)
  \/ LaunchFails(w)
  \/ \E code \in {"ok", "error"} : AgentExits(w, code)
  \/ ReadPrior(w)
  \/ FinalizeWorkerBranch(w)
  \/ FinalizeBranchFailed(w)
  \/ SettleWorker(w)
  \/ SupervisorError(w)
  \/ UnrecoverableError(w)

MergeThread ==
  \/ ThreadReads
  \/ \E status \in {"merged", "noop"} : IntegrateTask(status)
  \/ \E revisionable \in BOOLEAN : ReturnForRevisionOrBlock(revisionable)

Integrate ==
  \/ \E t \in Tasks : StartIntegration(t)
  \/ MergeThread
  \/ FinishIntegration
  \/ IntegrateTaskRaises
  \/ FinishFails

Environment ==
  \/ \E t \in Tasks : RetryChecks(t)
  \/ \E t \in Tasks : RetryArchives(t)
  \/ \E t \in Tasks : RetryQueues(t)
  \/ \E t \in Tasks : OrphanExits(t)
  \/ \E t \in Tasks : RemoveTaskDir(t)
  \/ Crash
  \/ LoseDatabase

\* Not every step is taken by the daemon and by run_once; see RunOnce.
Next ==
  \/ Startup
  \/ Coordinate
  \/ \E w \in Slots : StartFails(w)
  \/ \E w \in Slots : Work(w)
  \/ \E w \in Slots : CancelWorker(w)
  \/ ListPending
  \/ Integrate
  \/ FinishCancelled
  \/ RequestStop
  \/ RunnerExits
  \/ Environment

Spec == Init /\ [][Next]_vars

(***************************************************************************)
(* Properties the code has                                                 *)
(***************************************************************************)
\* Nobody has used `retry`, and no folder or database has been lost.
Undisturbed == retries = 0 /\ damages = 0

\* While the runner is up, a row that says running is backed by a worker
\* supervisor in this process, whatever crashes, shutdowns, retries and damage
\* came before: the only task left running by nobody is one whose row the
\* runner tried to write last and could not.
RunningHasWorker ==
  phase = "up" => \A t \in Tasks :
    row[t] = "running" => WorkersOf(t) # {} \/ t \in unwritten

\* While the runner is up, a row that says integrating is being integrated,
\* or is due for another attempt, or is about to be overwritten by its worker,
\* or is one that the runner could not write.
IntegratingIsPending ==
  (phase = "up" /\ MoveUnrevisionableToNeedsHuman) =>
    \A t \in Tasks : row[t] = "integrating" =>
      \/ ipc # "idle" /\ itask = t
      \/ integration[t].status = "pending"
      \/ WorkersOf(t) # {}
      \/ t \in unwritten

\* Two slots never work on the same task.
OneWorkerPerTask ==
  Undisturbed => \A v, w \in Slots :
    (Supervised(v) /\ Supervised(w) /\ wtask[v] = wtask[w]) => v = w

\* A branch is not integrated, and its worktree not removed, under a worker
\* or under an agent that a crash left behind.
NoMergeUnderAgent ==
  (Undisturbed /\ ipc # "idle") => WorkersOf(itask) = {} /\ itask \notin orphans

\* A task reported done has its branch merged or found empty: nothing of it
\* is still waiting.
DoneIsIntegrated ==
  Undisturbed => \A t \in Tasks :
    row[t] = "done" => integration[t].status \in {"noop", "merged"}

\* A task returned for revision still has the branch and the worktree it is
\* to amend, and its record says which round this is.
RevisionKeepsBranch ==
  Undisturbed => \A t \in Tasks :
    row[t] = "needs_revision" =>
      /\ integration[t].status = "needs_revision" /\ integration[t].round > 0
      /\ t \in worktree

\* A settled task leaves its state only to have a pending branch integrated,
\* and a done task never does.
SettledStays ==
  [][Undisturbed' => \A t \in Tasks :
       (row[t] \in {"done", "failed", "needs_human"} /\ row'[t] # row[t]) =>
         row[t] # "done" /\ row'[t] = "integrating"
         /\ integration[t].status = "pending"]_vars

\* How far a task is, by its row and the integrator's record.  A branch that
\* is pending is still to be decided on, whatever the row says.
Stage(t) ==
  IF ~Undisturbed THEN "withdrawn"
  ELSE IF row[t] \in {"none", "queued"} THEN "new"
  ELSE IF integration[t].status = "pending" THEN "delivered"
  ELSE IF row[t] = "running" /\ integration[t].status \in {"absent", "needs_revision"}
    THEN "working"
  ELSE IF row[t] \in {"integrating", "needs_revision"}
          /\ integration[t].status = "needs_revision"
    THEN "returned"
  ELSE "ended"

Promise == INSTANCE TaskLifecycle WITH
  stage <- [t \in Tasks |-> Stage(t)],
  round <- [t \in Tasks |-> IF Stage(t) \in {"ended", "withdrawn"} THEN 0
                            ELSE integration[t].round]

\* Rows, records, supervisors, integrator and restarts together implement the
\* life cycle of a task: an agent works on it at most max_revision_rounds + 1
\* times, each time it is decided once, and what has ended is not taken up again.
LifecycleIsKept == Promise!Spec

\* Revision rounds are only counted up, through workers, crashes and failed
\* writes, which is what bounds the number of times the integrator can send a
\* task back.  The record of a failed finalize, which is not integrated,
\* forgets the count.  And after a `retry` of a task whose branch is still
\* pending its new worker can put back the count it read before the integrator
\* decided: nothing else can lose an update.
RoundsOnlyGrow ==
  [][damages' = 0 => \A t \in Tasks :
       \/ integration'[t].round >= integration[t].round
       \/ integration'[t].status = "blocked"
       \/ retries > 0 /\ ipc = "returned" /\ itask = t]_vars

\* Every item dropped in the inbox ends as done, failed or needs_human for
\* good, through crashes, restarts and revisions.
EventuallySettled ==
  \A t \in Tasks : t \in inbox ~> [](row[t] \in {"done", "failed", "needs_human"})

(***************************************************************************)
(* What the documentation says and the code does not do                    *)
(***************************************************************************)
\* README.md "What gets created": one Git worktree per active task.
AgentHasWorktree ==
  \A w \in Slots : wpc[w] = "agent" => wtask[w] \in worktree
=============================================================================
