# A formal model of Alluvium

Alluvium is a local runner for coding agents. Items dropped in `inbox/` become task
folders; agents work on them in Git worktrees; their branches are squashed one by one
onto a base branch. One asyncio process does all of this, with the state of each task
spread over a SQLite row, files in the task folder, a Git branch and the memory of that
process. This directory specifies in TLA+ how these are kept in step, checks the
specifications with TLC on small instances, and proves the main results with TLAPS for
every value of the constants.

Line references are to `src/alluvium/` unless they name another file.

## 1. The system

### Components, their state and their operations

| Component | State | Operations | Modelled in |
|---|---|---|---|
| Coordinator (`daemon.py` `start_available_workers`) | worker slots (a semaphore) | claims tasks sent back, queued tasks, then inbox items, while a slot is free | `AlluviumDaemon` |
| Worker supervisor (`daemon.py` `run_one_worker`, `shutdown_workers`, `worker.py`) | one coroutine per slot; `result.json`, `needs_human.md`, the worktree | make a worktree, start the agent, wait, signal and kill it, record the branch, settle the row, release the slot | `AlluviumDaemon` (what a run leaves behind), `WorkerSupervisor` (processes, signals, slots) |
| Integrator (`daemon.py` `integrator_loop`, `gitops.py` `integrate_task`) | `.system/integration.json` (status, revision round), the base branch, an integration worktree | take one pending branch per tick, merge, test, commit, fast-forward, or send back | `AlluviumDaemon` (scheduling and outcomes), `Integration` (the Git commands) |
| Start-up reconciliation (`daemon.py:201-311`) | rows and folders | half-claimed folders are quarantined, rows without folder are lost, folders without row get one, running and integrating rows fail | `AlluviumDaemon`, `InboxClaim` |
| State index (`store.py`) | one row per task | upsert, mark state, list by state | `row` in `AlluviumDaemon` |
| `retry` (`cli.py` `cmd_retry`) | none of its own | check the state, archive the attempt, set the row to queued | `AlluviumDaemon` |
| Single-runner lock and pid file (`daemon.py:17-61, 130-142`, `cli.py:86-184`) | `daemon.lock`, the pid file | acquire, release, `stop-daemon`, `daemon` | `DaemonLock`, `SingleRunner` |
| `run-once`, `integrate-once` (`daemon.py`, `cli.py`) | none of their own | one batch of workers, then all pending integrations | `RunOnce`; locking in `DaemonLock`, the second integrator in `Integration` |
| Inbox claim (`fsqueue.py` `claim_inbox_item`) | `inbox/`, `tasks/.claiming-*`, `tasks/<id>` | moves the entries one by one, completes the folder, publishes it, inserts the row; cleans up if a step fails | `InboxClaim`; two steps in `AlluviumDaemon` |
| Config, prompts, built-in agent, utilities | | | not modelled |

### How they interact

* Coordinator, supervisors and integrator are coroutines of one event loop. A section
  without a suspension point runs alone. The Git commands of `integrate_task` run in a
  thread (`asyncio.to_thread`, `daemon.py:423`), and agents in processes and sessions of
  their own (`worker.py:70`).
* They meet through data, not messages: the row says who may claim a task,
  `integration.json` says whether its branch is to be merged, and each of worker and
  integrator writes both.
* The CLI runs in other processes. `retry` writes rows and files beside the runner;
  `integrate-once` is a second integrator and takes no lock; `daemon`, `serve` and
  `run-once` compete for `daemon.lock`.
* Producers write in `inbox/` while the coordinator claims from it.
* Agents are arbitrary programs. They write what they like under `.agent/`, and commit
  what they like on their branch.

### What is hard about it

* Steps of the coroutines, the integration thread, agents, CLI commands and people who
  commit on the base branch interleave, and much is read before an await or in another
  process and used after it.
* A crash may fall anywhere, leaves agents running, and leaves rows, records, folders,
  branches and lock files that the next start has to make sense of.
* A task goes round between worker and integrator, and what bounds that is a number kept
  in a file that both write.
* `PROJECT.json` lists each such place under "hazards", with the properties that cover it
  or the reason none does.

### What makes each component correct

* Coordinator and supervisors: no task is in two slots; no row says running with nobody
  at work; a claim is never lost.
* Integrator: never under an agent at work; row and record end up in agreement; a task
  sent back has the branch it is to amend; rounds are bounded; only tested trees reach the
  base branch, nobody's work is reverted, and merged means merged.
* Reconciliation: whatever the crash left, no task is left in flight for ever.
* Lock: one runner at a time, a dead runner's lock is taken over, and files left behind
  mislead nobody.
* Inbox claim: what is published is never lost and never claimed by half, and a task folder
  gets its row.
* Supervisors: a run ends whatever its agent does, not before its agent, and gives its slot
  back once.
* `run-once`: it returns, and leaves nothing half done.
* Overall: every inbox item is settled as done, failed or needs_human.

## 2. The modules

### AlluviumDaemon: the life cycle of tasks

Durable state is a variable per file or table: `inbox`, `taskDir`, `row` (the SQLite
state column), `integration` (status and `revision_round`), `result` (`result.json`),
`needsHuman`, `worktree` (branch and worktree). The runner's memory is its `phase` in
`run()`, the program counters of the claim (`cpc`), of each slot (`wpc`) and of the
integrator (`ipc`), with their local variables, the set `runningTasks`, and the lists that a
start-up pass (`todo`) and a batch (`ilist`) work through. A crash clears the memory and
nothing else. `unwritten` is a history variable: the tasks whose row this runner was last to
write and could not.

| Actions | Code |
|---|---|
| `StartRunner`, `NextPass`, `ReconcileMissing`, `ReconcileOrphan`, `OrphanNotRecorded`, `ReconcileInterrupted`, `InterruptedIsLeft`, `StartupFails` | `run`, and `reconcile_on_startup` row by row, with its handlers (`daemon.py:261-267`, `309-311`) |
| `ClaimTask`, `ClaimInboxItem`, `RecordClaim`, `RecordClaimFails`, `StartClaimed`, `StartFails` | `start_available_workers`, `claim_inbox_item` |
| `LaunchWorker`, `LaunchFails`, `AgentExits`, `ReadPrior`, `FinalizeWorkerBranch`, `FinalizeBranchFailed`, `SettleWorker` | `run_one_worker`, `launch_worker`, `finalize_worker_branch` |
| `SupervisorError`, `UnrecoverableError` | the handlers of `run_one_worker`: the task is failed, or that fails too (`daemon.py:400-401`) |
| `ListPending`, `StartIntegration`, `ThreadReads`, `IntegrateTask`, `ReturnForRevisionOrBlock`, `FinishIntegration` | `integrate_ready_done_tasks`, `integrate_task` |
| `IntegrateTaskRaises`, `FinishFails`, `FinishCancelled` | an exception before or after the record is decided (`daemon.py:411`), and a cancellation |
| `RequestStop`, `CancelWorker`, `RunnerExits` | the signal handler and `shutdown_workers` |
| `RetryChecks`, `RetryArchives`, `RetryQueues` | `cmd_retry`, cut where another process can be seen in between |
| `OrphanExits`, `Crash`, `RemoveTaskDir`, `LoseDatabase` | agents left behind, and what happens to a machine |

`LoopFree` is asyncio's rule: nobody takes a step while a coroutine is in a section without
an await. Such a section is split only where a crash, another process or the thread of
`integrate_task` can look in, as between the read and the write of `revision_round` in
`finalize_worker_branch`. Every write to the database or to a task folder may fail (the fault
"write"), the writes of the error handlers included. Git
is outside the repository, so which branch has a diff, conflicts or fails its tests is a
choice.

### TaskLifecycle: what is promised of a task

An abstract specification: a task is new, being worked on, delivered, returned or ended, and
has been sent back so many times. An agent works on it at most `MaxRevisionRounds + 1` times,
what it delivers is decided once each time, and a task that has ended is not taken up again.
`Stage` in `AlluviumDaemon` reads the stage off the row and the record together (a pending
branch counts as delivered whatever the row says), and `LifecycleIsKept` states that the
daemon implements the specification. Once somebody has used `retry`, or files were lost, all
tasks are `withdrawn` and nothing more is promised.

### RunOnce: daemon and run-once in turn

`RunOnce` extends `AlluviumDaemon` by `batch`, the place of `run_once` when that is the runner:
it starts workers until nothing can be claimed (`drain`), waits for all of them (`wait`), looks
again, and then integrates what was pending when it listed it (`integrate`). What it waits for is
that `running_tasks`, a set of names, is empty. It is interrupted by Ctrl-C or by an
exception, and asyncio.run then cancels the workers without a period of grace. The actions are
those of `AlluviumDaemon` under other guards, so the runs on `RunOnce` check the daemon and
`run-once` together, and the invariants of the one are those of the other.

| Actions | Code |
|---|---|
| `StartDaemonOrBatch` | `serve` or `run-once` |
| `DrainEnds`, `LookAgain`, `IntegrateAll`, `BatchEnds`, `BatchExits` | `daemon.py:467-490` |
| `Interrupt`, `CancelWorkers`, `CancelIntegration` | the exception in `run_once`, and what asyncio.run cancels then (`worker.py:105-119`, `daemon.py:423`) |

### InboxClaim: from inbox to task folder

Items are bare files, folders renamed into `inbox/` when complete (`create_inbox_task`, and what
`README.md:231-250` prefers), or folders filled in place (`example-task`). Each entry has one
place: inbox, staging, a task, the quarantine, or gone. `StageItem` to `RecordClaim` are
`claim_inbox_item` one file operation at a time, `MoveFails`, `PrepareFails` and `CleanUp` its
handler, and `ReconcileClaimingDirs` and `ReconcileOrphan` the two passes of the start-up that deal with
what an earlier claim left. `todo` are the folders without a row that the second of them has still to
look at; one that can neither be recorded nor set aside stays where it is. Nothing of the runner moves during a claim, for it does not
suspend, but producers do, and SIGTERM is only noticed when the coordinator sleeps.

### WorkerSupervisor: agents, signals and slots

An agent is a main process, which the supervisor waits for, and perhaps a helper that it has
started; either may ignore SIGTERM. `Timeout`, `KillAfterTimeout`, `Cancelled`, `KillAfterCancel`
are `worker.py:88-119`, with what happens when the agent is reaped just before it is signalled
(`Signal`); `EndRun` is the `finally` of `run_one_worker`. `GraceEnds` and `EndRunner` are
`shutdown_workers` and the end of `run`; `LeaveRunOnce` is the other order of `run_once`, which
gives the lock back first. `StartFails` is the start that loses a slot, `WriteFails` the supervisor
that cannot write `process.json` or an event while its agent runs, and leaves it. A supervisor
that was created has always entered its `try` before it is cancelled: its first step is in the
queue of the event loop ahead of the callback that ends `asyncio.run`. (A second Ctrl-C, which
stops the loop where it is, ends the process and the semaphore with it.)

### DaemonLock and SingleRunner: who runs the root

`DaemonLock` has every file operation of `DaemonLock.acquire` and `release`, of the pid file
and of the CLI commands that go by it as a step of its own. A process stands for a pid.
`lockFile` is the creator of the file at the path and `written` the creators whose pid has
been written to it: between `os.open(O_EXCL)` and the write the file is empty. `ReusePid`
gives the pid of a dead process to another program, which a `stop-daemon` that has read the
pid may terminate. `SingleRunner` is what the lock
promises (a process enters only when nobody runs); `LockKeepsPromise` states that
`DaemonLock` implements it, a process running from the end of `acquire` to the end of
`release`, until two starts overlap. `overlapped` is a history variable that says whether they
have: the code's protocol is only sound without (`two_runners`).

### Integration: integrate_task against Git

The base branch is a sequence of commits, a tree a set of files, a branch (`work`) its fork
point, its tree and the number of its runs. A squash merge is the three-way merge `Merge` by
file. Each integrator has a program counter and a `job`: what it has read so far
(`base_head`, the commit its worktree starts at, the branch it merged). The actions from
`ListPending` to `CleanUp` follow `integrate_task` (`gitops.py:238-381`) one Git command at a
time; `StartRun`, `AgentCommits` and `FinishRun` are the worker's use of Git;
`OutsideCommit` is anybody's commit on the base branch, and `Crash` the death of an
integrator or a Git command that raises.

`AlluviumDaemon` is the coarse view of the same integrator: its `IntegrateTask` and
`ReturnForRevisionOrBlock` are the outcomes that `Integration` reaches step by step.

## 3. What TLC checks

All runs finish within the bounds below; the violation runs stop at the disagreement.

### Runs that pass

| Run | Instance | Question |
|---|---|---|
| `quiet` | 2 tasks, 2 slots, daemon and `run-once`, commands, writes and error handlers may fail, 1 crash, 1 revision round | Do workers, integrator and reconciliation keep row, record, branch and slots consistent, and is that the life cycle of `TaskLifecycle`? |
| `disturbed` | 1 task, 2 slots, every fault, 1 retry from any state, 1 crash, 1 loss of a folder or the database | What still holds then: no running row without a worker and no stranded integrating row but one that could not be written, and rounds go back only where a `retry` of a pending task makes two writers |
| `liveness` | 2 tasks, 1 slot, no faults, 1 crash, any number of stops, interrupts and restarts | Does every item get settled when tasks compete for slot and integrator, and does `run-once` return? |
| `inbox` | an atomic folder of 2 entries, a folder filled in place, a bare file; 1 failing operation, 1 crash or stop | Until an operation fails: is what is published claimed whole, or kept, and is no folder left without a row? In any case: is nothing left by half? |
| `supervisor` | 3 runs, 2 slots, daemon or `run-once`, 1 failing start | Do runs and runner end whatever agents do, not before the agents, and do slots add up? |
| `lock` | 3 processes (one `run-once`), 1 CLI command, 1 reused pid | Refinement of `SingleRunner` and take-over of stale locks until two starts overlap; pid file, left-over files and release in any case |
| `history` | 1 task with 2 runs, retried at any time, 2 integrators, 1 crash, 1 outside commit | Is everything merged tested as merged, and is others' work kept? |
| `merging` | 2 tasks with 2 runs each, the runner's integrator, 1 outside commit | Do record and base branch agree, and is every pending branch decided? |

### Runs that show a disagreement

| Run | The documentation | The code |
|---|---|---|
| `lost_worktree` | "one Git worktree per active task" (`README.md:73`) | `retry` leaves `integration.json` pending: the integrator merges the earlier attempt and removes the worktree under the new agent. |
| `files_lost` | "A dropped folder keeps its contents" (`README.md:89`), "Producer files are always moved under `input/`" (`README.md:103`) | An entry added while its folder is claimed makes `item.rmdir()` fail, and the handler deletes the entries already moved. |
| `two_runners` | "single-runner lock ... sufficient for a local runner" (`daemon.py:18-24`) | Overlapping starts take each other's new lock for stale: it is empty for a moment, and it is unlinked by path. |
| `two_integrators` | "Integration into `repo/main` is serialized" (`README.md:118`) | `integrate-once` takes no lock; one integrator merges a run, the other sends the same run back. |

Further disagreements seen while modelling, for which no run is kept. The models do what the
code does in each case.

* A failed or needs_human task is integrated: `list_pending_integrations` reads the record,
  which `finalize_worker_branch` sets to pending whatever the exit code was, where
  `README.md:111` leads to integrating from worker_done only. `SettledStays` states what
  is left: a settled row is taken up only for a pending branch, and a done one never.
* A row may say running or integrating with nobody at work and none to come: when the error
  handler of a supervisor fails as well (`daemon.py:400-401`), when a write fails after the
  integrator has decided the record (`daemon.py:424-440`, caught at 411), and when start-up cannot
  fail the task (`daemon.py:309-311`). Only the next start looks at such a row, and it fails the
  task, also one whose branch was merged; Ctrl-C during a merge by `run-once` does the same.
  `unwritten` names these rows, and `RunningHasWorker` and `BatchLeavesNothing` except no others.
* After a `retry` of a task whose branch is still pending, the thread of `integrate_task` may write
  the record between the read and the write of `revision_round` in the new worker's
  `finalize_worker_branch` (`gitops.py:148-167`), which puts the old round back: a task can be sent
  back more often than `max_revision_rounds`. `RoundsOnlyGrow` shows that there is no other way.
* A slot acquired for a worker whose row cannot be written is lost until the next start
  (`daemon.py:346-347`); with all of them lost the runner goes on and claims nothing.
* The event that a supervisor writes when its agent has timed out, or when it is cancelled, may
  fail (`worker.py:91`, `106`): the agent is then never signalled, and goes on beside the next run.
* After a crash, a retry starts a second agent in the worktree of one that survived
  (`README.md:5` says "isolated").
* `infer_orphan_state` looks for `integration.json` under `.agent/`, where nothing writes
  it, so a rebuilt row ignores a record that says needs_revision.
* `stop-daemon` may remove the pid file of a runner that started after it read the old
  pid (`cli.py:153-156`).
* `create_worktree` keeps the first `base_commit.txt` for ever: a retried run that goes back
  to that commit's tree is recorded as a noop and its commits are dropped.
* A cancellation that falls in the 20 seconds an agent is given after a timeout skips the
  SIGKILL (`worker.py:97`; `README.md:312`: "Worker subprocesses receive SIGTERM and then SIGKILL
  if they do not exit"). `CancelWorker` lets such an agent go on, and so does `Cancelled` in
  `WorkerSupervisor`, where the run ends as "dropped".
* The kill after a timeout or a cancellation is only reached while the main process lives: a
  helper that outlives it is never signalled again, as the supervisor waits for the main
  process alone.
* When `finalize_worker_branch` raises after a successful run, the record says blocked and the
  row worker_done; no loop looks at either again, where `README.md:111` leads on to integrating.
* A runner killed between two renames of a claim leaves some entries in the quarantine, and the
  next run claims the others as a task of their own.
* A claim that fails for ever, say on a full disk, is tried again without an await
  (`daemon.py:343-345`): supervisors, integrator and SIGTERM are not served any more
  (`README.md:312` "wakes sleeping loops").
* `run-once` gives its lock back before asyncio.run cancels its workers (`daemon.py:490`), so
  after Ctrl-C the next runner may find agents at work.
* A `result.json` of an agent that is not JSON makes `infer_orphan_state` raise outside its
  `try` (`daemon.py:257`), and with it every start, once the row is lost.

### Bounds, and why they are enough

* Two tasks and two slots are the least with which tasks compete for a slot and one is
  integrated while another runs. With retries and losses one task meets itself in two slots,
  so `disturbed` has one task and two slots.
* In `quiet` and `liveness` agents leave neither `result.json`, which nothing reads unless a row is
  lost, nor `needs_human.md`, so that a task needs a human there only when its branch is blocked.
  `disturbed`, where rows are lost, has every result and the file. Exit codes are free in all runs.
* `quiet` leaves out that git cannot remove a worktree ("cleanup"), which none of its properties
  looks at; `disturbed` has it.
* Two entries are the least of which one can be moved and the other not. One item of each kind
  meets each of the others in the claim loop. One failure and one crash or stop fall at any step.
* Three runs on two slots: two compete, and the third comes after a slot was released.
* `MaxRevisionRounds = 1` lets a task be sent back once and refused the second time.
* `MaxCrashes`, `MaxRetries`, `MaxDamages`, `MaxOutside`, `MaxReused` count what the
  environment does. One crash can fall at any point of an uncrashed run, and in `liveness` also in
  the recovery from a stop or an interrupt, which are not counted. One retry races the runner; two that race each other are
  left to the proofs. The
  code counts none of these, and what the theorems of section 4 cover holds for any number.
* `MaxRuns = 2` gives a second run on a branch sent back, on a branch merged before, and on
  one being integrated.
* Three processes are the least for a third start to come between two others; one file is
  enough to tell a tree from another, to conflict, and to be reverted. The theorems on
  `Integration` hold for any number of each.
* Slots, and the tasks, files and integrators of `Integration`, are interchangeable, and the
  safety runs use that symmetry. The tasks of `AlluviumDaemon` are not: the integrator takes
  them in order. Liveness runs use no symmetry.
* `RunningHasWorker` and `IntegratingIsPending` are checked in `disturbed` only, where they are
  hardest to keep. Both are proved for any number of tasks.
* `CHECK_DEADLOCK FALSE` is in the configurations of `DaemonLock` (every process has ended),
  of `WorkerSupervisor` (the runner has ended) and of `Integration` (nothing is pending and the bounds are used up).

### Fairness

* A coroutine that is ready runs (asyncio). Since the loop may be in another coroutine's
  section in between, its step is strongly fair: `Supervise`, the claims, the integrator.
* Claims are strongly fair per task: tasks of a state are taken in the order of
  `updated_at`, and revisions, which go first, are bounded.
* An agent ends, because of `timeout_seconds`. The integration thread returns. A runner that
  is down starts again (`Restart=always`, `README.md:292`), so start-up is weakly fair.
* `run_once` goes on, and a timer or a user starts it again when it has ended. It may be
  interrupted any number of times but not for ever: a batch that is always interrupted before
  its integration never integrates. The daemon needs no such assumption, its integrator runs
  beside the workers, so it may be stopped and restarted without end.
* Each condition is on the steps that the runner of the moment, daemon or batch, may take; a
  batch in its integration owes nothing to a task that waits for a revision.
* Faults, crashes, retries and stop requests are never fair.
* In `InboxClaim` the runner goes on and is started again, and an item that stays has its turn
  (items are sorted by age), so `StageItem` is strongly fair. Producers are under no fairness.
* In `WorkerSupervisor` every wait ends: timeout, 20 seconds, grace period. Agents are not
  assumed to exit, and only what SIGKILL does is certain.
* In `DaemonLock` a process that is starting or leaving goes on, unless it is killed. In
  `Integration` an integrator is called again and again by its loop, and its Git commands
  end. Agents are under no fairness there.

Liveness is checked without command failures: an `integrate_task` that raises each time is
tried for ever, which the code does not prevent.

## 4. What is proved

TLAPS proves these for every value of the constants under the ASSUMEs of the modules:
tasks are numbers (their order is that of the folders) or any set, the no-value is not
among the values, and bounds are natural numbers. Only the workers of `WorkerSupervisor` are
assumed to be finitely many, to be counted.

### AlluviumDaemonProofs

* `TypeCorrect`: types; no record counts more than `max_revision_rounds`.
* `NothingRunsAlone`: `RunningHasWorker`. `RunningInv` adds that before the loops start
  nothing is in memory (`LoopsNotStarted`), and where the start-up is with a running row
  (`RunningListed`): the first pass sees to those without a folder, the third has each of the
  others on its list until it has failed it, or could not write it (`unwritten`).
* `WorkersAreDistinct`, `MergesAreAlone`, `DoneMeansIntegrated`, `RevisionHasBranch` and,
  from them, `SettledIsFinal` are about a root that no `retry` and no loss has touched. They
  share `QuietInv`: in each state of the row it says what the record, the worktree, the slots
  and the integrator can be. None of the five is inductive alone: that workers are distinct
  needs that a row in a slot says running, which needs that no integration of the same task is
  under way, which needs that a task in a slot before its finalize has no pending record.
  `TodoInv` says of a start-up pass that what it has listed is still so when its turn comes.
  `UndisturbedBefore` carries the hypothesis back over a step.
* `RoundsGrow`: `RoundsInv` says that one supervisor at a time is between reading and settling
  (`OneFinalizes`), that what it has read is what the record says unless the integrator has decided
  meanwhile (`PriorIsRead`), and that the round an integration goes on from is not below the record's
  nor below what a worker has read (`MergesReadRound`, `PriorBelowMerge`). A task at work has a row
  (`RowsStay`), so its folder is not set aside.

### TaskLifecycleProofs

* `NothingIsStranded`: `IntegratingIsPending`, on any root. `IntegratingListed` says of the start-up
  and integrating rows what `RunningListed` says of running ones. Later the row is the
  integrator's until that has written the next state, or could not, or has left the record
  pending; only a worker that a `retry` started may have written the record in between, and it
  writes the row in the end.
* `LifecycleHolds`: `LifecycleIsKept`, the refinement of `TaskLifecycle`. `LifecycleInv` is
  `RunningInv` and `QuietInv` with two facts about freshness: an agent works on a task whose
  record is absent or says needs_revision (`RunsAreFresh`), and the thread carries the round
  of the record (`MergesThisRound`). The mapping is `stages` and `shownRounds`. What a step may do to one
  task is `Moves` (it begins, is delivered, is returned, ends, or is kept), and `OneMoves` turns a
  step that moves one task and keeps the others into a step of the abstract specification. Stops,
  crashes, start-up and `retry`'s checks keep every task; a `retry` that writes and a loss
  withdraw all of them.

### DaemonLockProofs

* `LockExcludes`, `HolderIsRecorded`, `LockImplementsSingleRunner`: until two starts overlap,
  with any number of processes, kills and reused pids. `LockInv` adds that at most one process is
  in `acquire` and what it has seen there: a pid that is checked is the runner's if there is one,
  and a file is unlinked or written only when nobody runs. Without the condition they are false
  (`two_runners`).
* `LockTypes`, `StopFindsRunner`, `StaleLockIsDead`: however starts overlap. A lock file left
  behind is that of a process that was killed, because its creator removes it unless somebody
  else has.
* `RefusalHasReason`: nobody reads its own pid in the lock file (`SawAnother`), and until starts
  overlap the second attempt finds no file (`SecondAttempt`), so a refusal is always that of a
  first attempt that has read a live pid.

### RunOnceProofs

* `BatchRunsNothingAlone`, `BatchDoneMeansIntegrated`, `BatchKeepsLifecycle`: the theorems of
  `AlluviumDaemonProofs` and `TaskLifecycleProofs` hold of a root that `run-once` runs as well, of
  which these three are stated. They rest on the lemma `BatchIsDaemon`, which says nothing of the
  code: `RunOnce` is written with the actions of the daemon.
* `BatchIsComplete`: `BatchLeavesNothing`. `BatchInv` follows the batch from its second look, which
  finds `running_tasks` empty and nothing to claim, so that no supervisor is left (`NobodyWorks`:
  the names in the set are those of the supervised tasks as long as no task is in two slots),
  through the integration, which starts nobody, queues nothing (what it sends back is
  needs_revision) and takes all that was pending when it was listed (`PendingIsListed`), to its end
  (`NothingPending`). That no row says running then is `RunningHasWorker`, and that none says
  integrating is `IntegratingIsPending`, both but for rows that could not be written.

### InboxClaimProofs

* `TypeCorrect`, `CarefulItemsAreKept`, `TaskFoldersAreWhole`, `NoClaimIsHalfDone`: any items with any
  entries, any failing operations, stops and crashes. `InboxInv` says where an entry can be,
  given its item (`EntryInv`), when there is a staging folder and whose (`StagingInv`), that
  the listing a claim works through and the inbox agree as long as the item is published
  carefully (`MovingInv`, `ProgressInv`), and which folders have rows (`RowInv`). `MovingInv` is
  what carries the proof: the clean-up deletes a staging folder with what is in it, and
  it is reached without a failed operation only if the folder could not be removed because
  entries had come that were not listed, which the producer's care excludes.

### WorkerSupervisorProofs

* `EndedHasExited`, `LockCovers`, with the exception of runs that end as "dropped": `AgentInv` adds that SIGKILL leaves nothing of an agent, that
  no supervisor is cancelled twice, and that nobody is cancelled before the end of the runner,
  on which the two waits of the cancellation rely.
* `SlotsAreKept`, `SupervisorTypes`: each step changes free slots, active runs and failed starts by
  amounts that add up to nothing (`SumIsKept`).

### IntegrationProofs

* `TypeCorrect`, `MainTested`, `OthersKept`, for any number of unsynchronised integrators,
  outside commits and crashes. `IInv` adds to `MainIsTested` that branches fork from commits
  that exist and, for each integrator by its place, that what it has read is a commit of the
  base branch and that what it is about to commit has been tested. `NextGrows` says that the
  base branch only grows, so what a job knows of it stays true under the others' steps
  (`JobStays`). The check in the code that carries the proof is `--ff-only`; the comparison
  with `base_head` before it could be left out.

### MergeHistoryProofs

These are about a serial root (`Serial`): one integrator, which is what the daemon's lock and
its one integrator loop give, and no `retry` of a task that is pending or in its hands. Two
integrators break `MergedIsNotReturned` (`two_integrators`), and either part of the hypothesis is
needed for `MergedIsInMain` too: an integrator that squashed an earlier run records as merged
what a `retry`, or a revision that another integrator asked for, has meanwhile replaced. Any number of tasks, runs, rounds and
outside commits, reverts among them.

* `MergedIsOnMain`: whoever dies. Tasks on an integrator's list are pending and nobody works on
  them (`PendingRests`, `HandInv`), so the run that is recorded as merged is the run that was
  put on the base branch.
* `RunsAreMergedOnce`, `MergedRunsAreNotReturned`: when no integrator dies. `HistoryInv` adds that a
  pending run is not on the base branch but for the moment between fast-forward and record
  (`PendingIsNew`), and that no commit is of a run to come (`RunsKnown`). The hypothesis is needed:
  after a death at that moment the run is still pending, and the next attempt merges it once more
  if somebody has reverted it, or sends it back or blocks it for a reason of its own, such as an
  unclean base worktree.

### Only model-checked

* Liveness (`EventuallySettled`, `BatchTerminates`, `EventuallyClaimed`, `StopIsHeeded`, `RunnerEnds`,
  `RunsEnd`, `LockIsGivenBack`, `EventuallyDecided`): out of the prover's reach.
  Each depends on a fairness condition, and its argument on ENABLED. Every other property of
  the runs that pass is proved.
* Hypotheses of the theorems are kept as weak as the runs show them to be true: `~overlapped` in
  the lock, `Undisturbed` in the life cycle and the batch, `Serial` in the merge history.

## 5. What the models leave out

* `AlluviumDaemon` assumes one runner at a time, which is what `DaemonLock` is about, unique
  task ids, and `integration.enabled`. Folders and the database are lost only while the
  runner is down. Which of several claimable tasks is the oldest is a choice.
* In `DaemonLock` the CLI's look at a pid and the removal of the file are one step: a dead
  process stays dead, so only the pid file can change in between, and that can as well
  happen before the look.
* A failing `mark_task_state` in the first pass of the reconciliation, where nothing catches it, ends
  the start (`StartupFails`); the failure of anything before it (folders, `init_store`, git, the pid
  file) does as well and is left out, since it changes none of the state modelled. So is a
  `result.json` that is not JSON (section 3).
* In `InboxClaim` the clean-up of the runner itself does not fail: `rmtree(ignore_errors=True)` of a
  staging folder (`fsqueue.py:84`) and the move of half a claim to the quarantine
  (`daemon.py:221-229`), after either of which the entries would stay in staging until the
  next start.
* `AlluviumDaemon` takes the claim of an item as `InboxClaim` shows it to end: a folder with a row,
  or a folder without one after a crash or a failed insert. `InboxClaim` in turn leaves out the worker slots and what
  becomes of a task. Clocks are left out: when an item is stable is up to its producer.
* `WorkerSupervisor` leaves out the task's files; `AlluviumDaemon` has the same supervisors as
  atomic outcomes.
* In `Integration` the order of an integrator's list is a choice, and `cleanup_after_merge` is
  on, which is the default.
* `reload` replaces settings, which are constants here. Config parsing, prompts, the built-in agent and the helpers of `util.py` keep no
  state that the above depends on. The event table of `store.py` is not used.

## 6. Plan

Done: the life cycle with its abstract specification, `run-once`, the inbox claim, the
supervisors, the lock with its refinement, integration against Git, and proofs of every
safety and action property that a passing run checks. What would say more:

1. A mapping of `InboxClaim` to the claim of `AlluviumDaemon`, in place of the remark in section 5.
2. The same for `Integration` and the outcomes of `IntegrateTask`.
