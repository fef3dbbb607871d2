---------------------------- MODULE Integration -----------------------------
(***************************************************************************)
(* integrate_task step by step, against the Git repository it works on.    *)
(*                                                                         *)
(* The base branch is a sequence of commits that only grows, so its length *)
(* names its head; a tree is the set of files present (a change adds or    *)
(* removes files).  Integrators are the runner's thread and `integrate-once`, *)
(* which takes no lock; each works through a list it made before.  Between *)
(* two git commands of one integrator the others go on, people commit on   *)
(* the base branch, and the process may die.  Conflicts, test results and  *)
(* uncommitted edits in the base repository are choices made here.         *)
(***************************************************************************)
EXTENDS Naturals, Sequences, FiniteSets

CONSTANTS
  Tasks, NoTask,
  Integrators,        \* processes that run integrate_ready_done_tasks
  Files,              \* files of the repository
  MaxRevisionRounds,  \* integration.max_revision_rounds
  RetryAnyTime,       \* are tasks retried while pending or integrated?
  MaxRuns,            \* bound on worker runs per task, by revision or retry
  MaxOutside,         \* bound on commits that others make on the base branch
  MaxCrashes          \* bound on integrators that die

ASSUME TasksAssumption == NoTask \notin Tasks
ASSUME BoundsAssumption ==
  /\ RetryAnyTime \in BOOLEAN
  /\ {MaxRevisionRounds, MaxRuns, MaxOutside, MaxCrashes} \subseteq Nat

VARIABLES
  main,        \* the base branch: commits with their tree and author
  branch,      \* tasks whose branch exists
  work,        \* per task: its branch and how many runs it has seen, see Works
  baseCommit,  \* .system/repo/base_commit.txt, 0 without one
  running,     \* tasks whose worker is at work
  status, round,             \* .system/integration.json
  ipc, ilist,  \* per integrator: place, and tasks still to do
  job,         \* per integrator: the task at hand and what it read
  tested,      \* what passed the tests: a tree, and the commit it was put on
  outside, crashes           \* what the environment has done

branches == <<branch, work, baseCommit, running>>
records  == <<main, branches, status, round>>
counts   == <<outside, crashes>>
vars     == <<records, ipc, ilist, job, tested, counts>>

Trees    == SUBSET Files
Statuses == {"absent", "pending", "noop", "merged", "needs_revision", "blocked"}
Works    == [fork : Nat, tree : Trees, run : Nat]  \* fork: a commit
Commits  == [tree : Trees, by : Tasks \cup {NoTask}, run : Nat]
\* A job: the round read, base_head, the worktree's base, and the branch merged.
Jobs     == [task : Tasks \cup {NoTask}, round : 0..MaxRevisionRounds,
             head : Nat, at : Nat, src : Works]
Places   == {"idle", "next", "diff", "clean", "head", "add", "squash", "tests",
             "commit", "check", "ff", "record", "cleanup"}

TypeOK ==
  /\ main \in Seq(Commits) /\ Len(main) > 0
  /\ branch \in SUBSET Tasks
  /\ work \in [Tasks -> Works]
  /\ baseCommit \in [Tasks -> Nat]
  /\ running \in SUBSET Tasks
  /\ status \in [Tasks -> Statuses]
  /\ round \in [Tasks -> 0..MaxRevisionRounds]
  /\ ipc \in [Integrators -> Places]
  /\ ilist \in [Integrators -> SUBSET Tasks]
  /\ job \in [Integrators -> Jobs]
  /\ \A i \in Integrators : ipc[i] \notin {"idle", "next"} => job[i].task \in Tasks
  /\ tested \in SUBSET [on : Nat, tree : Trees]
  /\ outside \in Nat
  /\ crashes \in Nat

NoWork == [fork |-> 0, tree |-> {}, run |-> 0]
NoJob  == [task |-> NoTask, round |-> 0, head |-> 0, at |-> 0, src |-> NoWork]

Init ==
  /\ main = <<[tree |-> {}, by |-> NoTask, run |-> 0]>>
  /\ branch = {}
  /\ work = [t \in Tasks |-> NoWork]
  /\ baseCommit = [t \in Tasks |-> 0]
  /\ running = {}
  /\ status = [t \in Tasks |-> "absent"]
  /\ round = [t \in Tasks |-> 0]
  /\ ipc = [i \in Integrators |-> "idle"]
  /\ ilist = [i \in Integrators |-> {}]
  /\ job = [i \in Integrators |-> NoJob]
  /\ tested = {}
  /\ outside = 0 /\ crashes = 0

(***************************************************************************)
(* Git                                                                     *)
(***************************************************************************)
BaseHead == Len(main)
TreeOf(n) == main[n].tree

\* What a three-way merge of ours and theirs makes, where it does not conflict.
Merge(base, ours, theirs) == (ours \cup (theirs \ base)) \ (base \ theirs)

\* Mutant: the branch's tree is taken as it is.
BranchTree(w, at) == w.tree

\* What git merge --squash stages in a worktree that starts at the given commit.
Squashed(w, at) == Merge(TreeOf(w.fork), TreeOf(at), w.tree)

(***************************************************************************)
(* Workers: create_worktree, the agent's commits, finalize_worker_branch   *)
(***************************************************************************)
\* The base commit of an earlier run is kept, also for a new branch.
BaseFor(t) == IF baseCommit[t] = 0 THEN BaseHead ELSE baseCommit[t]

\* create_worktree: an old branch stays as it is, a new one starts at the head.
StartRun(t) ==
  /\ t \notin running /\ work[t].run < MaxRuns
  /\ \/ RetryAnyTime
     \/ status[t] # "pending" /\ \A i \in Integrators : job[i].task # t
  /\ running' = running \cup {t}
  /\ branch' = branch \cup {t}
  /\ work' = IF t \in branch THEN work
             ELSE [work EXCEPT ![t].fork = BaseHead, ![t].tree = TreeOf(BaseHead)]
  /\ baseCommit' = [baseCommit EXCEPT ![t] = BaseFor(t)]
  /\ UNCHANGED <<main, status, round, ipc, ilist, job, tested, counts>>

\* The agent commits, or brings its branch up to date with the base branch.
AgentCommits(t) ==
  /\ t \in running /\ t \in branch
  /\ \E fork \in {work[t].fork, BaseHead}, tree \in Trees :
       work' = [work EXCEPT ![t].fork = fork, ![t].tree = tree]
  /\ UNCHANGED <<main, branch, baseCommit, running, status, round,
                 ipc, ilist, job, tested, counts>>

\* finalize_worker_branch, and the clean-up of an empty branch, which a failed
\* run does without.  On a branch that is gone it raises, and launch_worker
\* writes a record without a round.
FinishRun(t) ==
  LET hasChanges == work[t].tree # TreeOf(baseCommit[t]) IN
  /\ t \in running
  /\ running' = running \ {t}
  /\ work' = [work EXCEPT ![t].run = @ + 1]
  /\ \/ /\ t \in branch /\ hasChanges
        /\ status' = [status EXCEPT ![t] = "pending"]
        /\ UNCHANGED <<round, branch>>
     \/ /\ t \in branch /\ ~hasChanges
        /\ status' = [status EXCEPT ![t] = "noop"]
        /\ branch' \in {branch, branch \ {t}}
        /\ round' = round
     \/ /\ t \notin branch
        /\ status' = [status EXCEPT ![t] = "blocked"]
        /\ round' = [round EXCEPT ![t] = 0]
        /\ branch' = branch
  /\ UNCHANGED <<main, baseCommit, ipc, ilist, job, tested, counts>>

(***************************************************************************)
(* The integrator: integrate_ready_done_tasks and integrate_task           *)
(***************************************************************************)
GoTo(i, place) == ipc' = [ipc EXCEPT ![i] = place]

\* The job is over; what it read is forgotten.
EndJob(i) == GoTo(i, "next") /\ job' = [job EXCEPT ![i] = NoJob]

SetRecord(t, s, r) ==
  /\ status' = [status EXCEPT ![t] = s]
  /\ round' = [round EXCEPT ![t] = r]

\* list_pending_integrations, once per call of integrate_ready_done_tasks,
\* which does one of them (the daemon) or all.
ListPending(i) ==
  LET pending == {t \in Tasks : status[t] = "pending"} IN
  /\ ipc[i] = "idle"
  /\ \E list \in {pending} \cup {{t} : t \in pending} :
       list # {} /\ ilist' = [ilist EXCEPT ![i] = list]
  /\ GoTo(i, "next")
  /\ UNCHANGED <<records, job, tested, counts>>

\* The next task of the list, whatever its record says by now.
NextTask(i) ==
  /\ ipc[i] = "next"
  /\ \E t \in ilist[i] :
       /\ ilist' = [ilist EXCEPT ![i] = @ \ {t}]
       /\ job' = [job EXCEPT ![i].task = t, ![i].round = round[t]]
  /\ GoTo(i, "diff")
  /\ UNCHANGED <<records, tested, counts>>

ListDone(i) ==
  /\ ipc[i] = "next" /\ ilist[i] = {}
  /\ GoTo(i, "idle")
  /\ UNCHANGED <<records, ilist, job, tested, counts>>

\* Mutants: one round too many; the verdict is not saved.
ReturnOnceMore(i, revisionable) ==
  /\ IF revisionable /\ job[i].round <= MaxRevisionRounds
     THEN SetRecord(job[i].task, "needs_revision", job[i].round + 1)
     ELSE SetRecord(job[i].task, "blocked", job[i].round)
  /\ EndJob(i)
  /\ UNCHANGED <<main, branches>>
ReturnWithoutRecord(i, revisionable) == EndJob(i) /\ UNCHANGED records

\* _return_for_revision_or_block.
ReturnForRevisionOrBlock(i, revisionable) ==
  /\ IF revisionable /\ job[i].round < MaxRevisionRounds
     THEN SetRecord(job[i].task, "needs_revision", job[i].round + 1)
     ELSE SetRecord(job[i].task, "blocked", job[i].round)
  /\ EndJob(i)
  /\ UNCHANGED <<main, branches>>

\* Nothing to integrate, or all of it done: recorded, then cleaned up.
RecordEnd(i, s) ==
  /\ SetRecord(job[i].task, s, job[i].round)
  /\ GoTo(i, "cleanup")
  /\ UNCHANGED <<main, branches, job>>

Proceed(i, place) == GoTo(i, place) /\ UNCHANGED records

\* git diff of base_commit and branch; on a branch that is gone it fails,
\* which counts as a difference.
CheckDiff(i) ==
  LET t == job[i].task IN
  /\ ipc[i] = "diff"
  /\ IF t \in branch /\ work[t].tree = TreeOf(baseCommit[t])
     THEN RecordEnd(i, "noop") ELSE Proceed(i, "clean") /\ job' = job
  /\ UNCHANGED <<ilist, tested, counts>>

\* main_is_clean.
CheckClean(i) ==
  /\ ipc[i] = "clean"
  /\ \/ Proceed(i, "head") /\ job' = job
     \/ ReturnForRevisionOrBlock(i, FALSE)
  /\ UNCHANGED <<ilist, tested, counts>>

ReadHead(i) ==
  /\ ipc[i] = "head"
  /\ job' = [job EXCEPT ![i].head = BaseHead]
  /\ Proceed(i, "add")
  /\ UNCHANGED <<ilist, tested, counts>>

\* git worktree add: from the head as it is now.
AddWorktree(i) ==
  /\ ipc[i] = "add"
  /\ job' = [job EXCEPT ![i].at = BaseHead]
  /\ Proceed(i, "squash")
  /\ UNCHANGED <<ilist, tested, counts>>

\* git merge --squash fails without the branch, and may conflict where the
\* base has changed since the fork.
SquashMerge(i) ==
  LET t == job[i].task IN
  /\ ipc[i] = "squash"
  /\ \/ /\ t \in branch
        /\ job' = [job EXCEPT ![i].src = work[t]]
        /\ Proceed(i, "tests")
     \/ /\ t \notin branch \/ TreeOf(work[t].fork) # TreeOf(job[i].at)
        /\ ReturnForRevisionOrBlock(i, TRUE)
  /\ UNCHANGED <<ilist, tested, counts>>

\* The tree in the integration worktree.
Staged(i) == Squashed(job[i].src, job[i].at)

RunTests(i) ==
  /\ ipc[i] = "tests"
  /\ \/ /\ tested' = tested \cup {[on |-> job[i].at, tree |-> Staged(i)]}
        /\ Proceed(i, "commit") /\ job' = job
     \/ /\ tested' = tested
        /\ ReturnForRevisionOrBlock(i, TRUE)
  /\ UNCHANGED <<ilist, counts>>

\* git commit: with nothing staged it fails, which is a noop unless the tests
\* left files behind; it may also fail with changes staged.
CommitSquashed(i) ==
  LET empty == Staged(i) = TreeOf(job[i].at) IN
  /\ ipc[i] = "commit"
  /\ \/ ~empty /\ Proceed(i, "check") /\ job' = job
     \/ empty /\ RecordEnd(i, "noop")
     \/ ReturnForRevisionOrBlock(i, FALSE)
  /\ UNCHANGED <<ilist, tested, counts>>

CheckHead(i) ==
  /\ ipc[i] = "check"
  /\ IF BaseHead # job[i].head THEN ReturnForRevisionOrBlock(i, TRUE)
                               ELSE Proceed(i, "ff") /\ job' = job
  /\ UNCHANGED <<ilist, tested, counts>>

CommitOf(i) ==
  [tree |-> Staged(i), by |-> job[i].task, run |-> job[i].src.run]

\* Mutants: the base branch is reset to the commit, wherever it is by now; the
\* exit code is not looked at.
ForceBase(i) ==
  /\ ipc[i] = "ff"
  /\ \/ /\ main' = Append(main, CommitOf(i))
        /\ GoTo(i, "record")
        /\ UNCHANGED <<branches, status, round, job>>
     \/ ReturnForRevisionOrBlock(i, FALSE)
  /\ UNCHANGED <<ilist, tested, counts>>
FastForwardUnchecked(i) ==
  /\ ipc[i] = "ff"
  /\ \/ main' = main
     \/ BaseHead = job[i].at /\ main' = Append(main, CommitOf(i))
  /\ GoTo(i, "record")
  /\ UNCHANGED <<branches, status, round, job, ilist, tested, counts>>

\* git merge --ff-only: only if the base is where the worktree started, and if
\* no uncommitted file is in the way.
FastForward(i) ==
  /\ ipc[i] = "ff"
  /\ \/ /\ BaseHead = job[i].at
        /\ main' = Append(main, CommitOf(i))
        /\ GoTo(i, "record")
        /\ UNCHANGED <<branches, status, round, job>>
     \/ ReturnForRevisionOrBlock(i, FALSE)
  /\ UNCHANGED <<ilist, tested, counts>>

\* Mutant: returns before it saves the record.
LeavePending(i) ==
  /\ ipc[i] = "record"
  /\ EndJob(i)
  /\ UNCHANGED <<records, ilist, tested, counts>>

RecordMerged(i) ==
  /\ ipc[i] = "record"
  /\ RecordEnd(i, "merged")
  /\ UNCHANGED <<ilist, tested, counts>>

\* cleanup_task_worktree_and_branch, with cleanup_after_merge on.
CleanUp(i) ==
  /\ ipc[i] = "cleanup"
  /\ branch' = branch \ {job[i].task}
  /\ EndJob(i)
  /\ UNCHANGED <<main, work, baseCommit, running, status, round,
                 ilist, tested, counts>>

(***************************************************************************)
(* The environment                                                         *)
(***************************************************************************)
\* Somebody commits on the base branch.
OutsideCommit ==
  /\ outside < MaxOutside
  /\ \E tree \in Trees \ {TreeOf(BaseHead)} :
       main' = Append(main, [tree |-> tree, by |-> NoTask, run |-> 0])
  /\ outside' = outside + 1
  /\ UNCHANGED <<branches, status, round, ipc, ilist, job, tested, crashes>>

\* The process dies, or a git command with check=True raises.
Crash(i) ==
  /\ ipc[i] # "idle" /\ crashes < MaxCrashes
  /\ GoTo(i, "idle")
  /\ ilist' = [ilist EXCEPT ![i] = {}]
  /\ job' = [job EXCEPT ![i] = NoJob]
  /\ crashes' = crashes + 1
  /\ UNCHANGED <<records, tested, outside>>

Integrate(i) ==
  \/ ListPending(i) \/ NextTask(i) \/ ListDone(i)
  \/ CheckDiff(i) \/ CheckClean(i) \/ ReadHead(i) \/ AddWorktree(i) \/ SquashMerge(i)
  \/ RunTests(i) \/ CommitSquashed(i) \/ CheckHead(i) \/ FastForward(i)
  \/ RecordMerged(i) \/ CleanUp(i)

Next ==
  \/ \E t \in Tasks : StartRun(t) \/ AgentCommits(t) \/ FinishRun(t)
  \/ \E i \in Integrators : Integrate(i) \/ Crash(i)
  \/ OutsideCommit

Spec == Init /\ [][Next]_vars
FairSpec == Spec /\ \A i \in Integrators : WF_vars(Integrate(i))

(***************************************************************************)
(* Properties                                                              *)
(***************************************************************************)
\* The commit of the task's last run.
InMain(t) == \E n \in 1..Len(main) : main[n].by = t /\ main[n].run = work[t].run

\* Every commit an integrator puts on the base branch passed the tests on
\* exactly that tree and on top of exactly that parent, whatever other
\* integrators and people do meanwhile.
MainIsTested ==
  \A n \in 1..Len(main) : main[n].by # NoTask =>
    [on |-> n - 1, tree |-> main[n].tree] \in tested

\* Integrating a task changes only files its branch changed: nobody else's
\* work is reverted.
OthersWorkIsKept ==
  [][\A i \in Integrators : (ipc[i] = "ff" /\ ipc'[i] = "record") =>
       LET w == job[i].src IN
       \A f \in Files : (f \in w.tree <=> f \in TreeOf(w.fork)) =>
         (f \in TreeOf(BaseHead) <=> f \in main'[Len(main')].tree)]_vars

\* A record that says merged is backed by a commit of that run.
MergedIsInMain == \A t \in Tasks : status[t] = "merged" => InMain(t)

\* No run of a task is put on the base branch twice.  This needs an integrator
\* that records what it merged: one that dies before, and a revert of the
\* commit, bring the run in again.
MergedOnce ==
  \A m, n \in 1..Len(main) :
    /\ main[m].by # NoTask
    /\ main[m].by = main[n].by /\ main[m].run = main[n].run
    => m = n

\* A pending branch is decided, if integrators do not die for ever.
EventuallyDecided == \A t \in Tasks : status[t] = "pending" ~> status[t] # "pending"

\* gitops.py "Serially integrate a done task branch", README.md "Integration
\* into repo/main is serialized": a run that is on the base branch is not sent
\* back, nor reported blocked.
MergedIsNotReturned ==
  \A t \in Tasks : status[t] \in {"needs_revision", "blocked"} => ~InMain(t)
=============================================================================
