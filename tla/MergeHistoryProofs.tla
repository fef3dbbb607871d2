------------------------- MODULE MergeHistoryProofs -------------------------
(***************************************************************************)
(* What integration.json says and what the base branch holds agree, when   *)
(* one integrator works on a task at a time and nobody retries a task that *)
(* is with it: any number of tasks, runs, rounds and outside commits.      *)
(***************************************************************************)
EXTENDS IntegrationProofs

\* A single process integrates, and a task is not run again while it is
\* pending or being integrated.
Serial == (\A i, k \in Integrators : i = k) /\ ~RetryAnyTime

(***************************************************************************)
(* The invariant, whoever dies: the tasks an integrator has in hand are    *)
(* pending and nobody works on them, so the run it merges is the last one. *)
(***************************************************************************)
PendingRests == \A t \in Tasks : status[t] = "pending" => t \notin running

HandInv(i) ==
  /\ \A t \in ilist[i] : status[t] = "pending"
  /\ ipc[i] \in {"idle", "next"} => job[i].task = NoTask
  /\ ipc[i] \notin {"idle", "next"} => job[i].task \notin running \cup ilist[i]
  /\ ipc[i] \notin {"idle", "next", "cleanup"} => status[job[i].task] = "pending"
  /\ ipc[i] \in SrcPlaces \cup {"record"} => job[i].src.run = work[job[i].task].run
  /\ ipc[i] = "record" => InMain(job[i].task)

MergedInv == PendingRests /\ (\A i \in Integrators : HandInv(i)) /\ MergedIsInMain

(***************************************************************************)
(* The invariant when nobody dies: a pending run is not on the base branch *)
(* yet, but for the moment between the fast-forward and the record.        *)
(***************************************************************************)
RunsKnown ==
  \A n \in 1..Len(main) : main[n].by # NoTask => main[n].run <= work[main[n].by].run
PendingIsNew ==
  \A t \in Tasks : (InMain(t) /\ status[t] = "pending") =>
    \E i \in Integrators : ipc[i] = "record" /\ job[i].task = t

HistoryInv == RunsKnown /\ PendingIsNew /\ MergedOnce /\ MergedIsNotReturned

\* A commit that is there stays.
LEMMA InMainStays ==
  ASSUME TypeOK, MainGrows, main' \in Seq(Commits), NEW t \in Tasks,
         work'[t].run = work[t].run, InMain(t)
  PROVE  InMain(t)'
<1>1. PICK n \in 1..Len(main) : main[n].by = t /\ main[n].run = work[t].run
  BY DEF InMain
<1>2. n \in 1..Len(main') /\ main'[n] = main[n]
  BY <1>1 DEF MainGrows, TypeOK
<1> QED
  BY <1>1, <1>2 DEF InMain

\* What the steps of workers and others do to the hand of an integrator.
LEMMA HandStays ==
  ASSUME TypeOK, MainGrows, main' \in Seq(Commits), NEW i \in Integrators, HandInv(i),
         ipc'[i] = ipc[i], ilist'[i] = ilist[i], job'[i] = job[i],
         \A t \in ilist[i] \cup {job[i].task} : t \in Tasks =>
           /\ status'[t] = status[t]
           /\ work'[t].run = work[t].run
           /\ t \in running' => t \in running
  PROVE  HandInv(i)'
<1>1. ilist[i] \subseteq Tasks /\ (ipc[i] \notin {"idle", "next"} => job[i].task \in Tasks)
  BY DEF TypeOK
<1>2. ASSUME ipc[i] = "record" PROVE InMain(job[i].task)'
  <2>1. PICK t \in Tasks : t = job[i].task
    BY <1>1, <1>2
  <2>2. InMain(t)'
    BY <1>2, <2>1, InMainStays DEF HandInv
  <2> QED
    BY <2>1, <2>2
<1> QED
  BY <1>1, <1>2 DEF HandInv, SrcPlaces

LEMMA StartRunMerged ==
  ASSUME TypeOK, ~RetryAnyTime, MainGrows, main' \in Seq(Commits), MergedInv,
         NEW t \in Tasks, StartRun(t)
  PROVE  MergedInv'
<1>1. /\ status[t] # "pending" /\ \A i \in Integrators : job[i].task # t
      /\ UNCHANGED <<main, status, ipc, ilist, job>> /\ running' = running \cup {t}
  BY DEF StartRun
<1>2. \A u \in Tasks : work'[u].run = work[u].run
  BY DEF StartRun, TypeOK, Works
<1>3. ASSUME NEW i \in Integrators PROVE HandInv(i)'
  BY <1>1, <1>2, HandStays DEF MergedInv, HandInv
<1>4. MergedIsInMain'
  BY <1>1, <1>2, InMainStays DEF MergedInv, MergedIsInMain
<1> QED
  BY <1>1, <1>3, <1>4 DEF MergedInv, PendingRests

LEMMA AgentCommitsMerged ==
  ASSUME TypeOK, MainGrows, main' \in Seq(Commits), MergedInv, NEW t \in Tasks, AgentCommits(t)
  PROVE  MergedInv'
<1>1. UNCHANGED <<main, running, status, ipc, ilist, job>>
  BY DEF AgentCommits
<1>2. \A u \in Tasks : work'[u].run = work[u].run
  BY DEF AgentCommits, TypeOK, Works
<1>3. ASSUME NEW i \in Integrators PROVE HandInv(i)'
  BY <1>1, <1>2, HandStays DEF MergedInv
<1>4. MergedIsInMain'
  BY <1>1, <1>2, InMainStays DEF MergedInv, MergedIsInMain
<1> QED
  BY <1>1, <1>3, <1>4 DEF MergedInv, PendingRests

LEMMA FinishRunMerged ==
  ASSUME TypeOK, MainGrows, main' \in Seq(Commits), MergedInv, NEW t \in Tasks, FinishRun(t)
  PROVE  MergedInv'
<1>1. /\ t \in running /\ running' = running \ {t}
      /\ UNCHANGED <<main, ipc, ilist, job>>
      /\ status'[t] \in {"pending", "noop", "blocked"}
      /\ \A u \in Tasks \ {t} : status'[u] = status[u] /\ work'[u] = work[u]
  BY DEF FinishRun, TypeOK
<1>2. ASSUME NEW i \in Integrators PROVE HandInv(i)'
  <2>1. t \notin ilist[i] /\ job[i].task # t
    BY <1>1, TasksAssumption DEF MergedInv, PendingRests, HandInv
  <2> QED
    BY <1>1, <2>1, HandStays DEF MergedInv, TypeOK
<1>3. MergedIsInMain'
  BY <1>1, InMainStays DEF MergedInv, MergedIsInMain
<1> QED
  BY <1>1, <1>2, <1>3 DEF MergedInv, PendingRests

\* A step of the integrator that leaves the records alone.
LEMMA QuietStep ==
  ASSUME TypeOK, Serial, MergedInv, NEW i \in Integrators,
         UNCHANGED <<main, work, running, status>>, HandInv(i)'
  PROVE  MergedInv'
<1>1. \A k \in Integrators : HandInv(k)'
  BY DEF Serial
<1>2. \A t \in Tasks : InMain(t)' = InMain(t)
  BY DEF InMain
<1> QED
  BY <1>1, <1>2 DEF MergedInv, PendingRests, MergedIsInMain

\* A verdict is recorded: the task at hand is no longer pending, and it is in
\* no list.
LEMMA VerdictStep ==
  ASSUME TypeOK, Serial, MergedInv, NEW i \in Integrators,
         UNCHANGED <<main, work, running, ilist>>, ipc[i] \notin {"idle", "next"},
         NEW s \in {"noop", "merged", "needs_revision", "blocked"},
         NEW r, SetRecord(job[i].task, s, r), s = "merged" => InMain(job[i].task),
         \/ GoTo(i, "cleanup") /\ job' = job
         \/ EndJob(i)
  PROVE  MergedInv'
<1>1. PICK t \in Tasks : t = job[i].task
  BY DEF TypeOK
<1>2. status'[t] = s /\ \A u \in Tasks \ {t} : status'[u] = status[u]
  BY <1>1 DEF SetRecord, TypeOK
<1>3. HandInv(i) /\ t \notin running \cup ilist[i]
  BY <1>1 DEF MergedInv, HandInv
<1>4. HandInv(i)'
  BY <1>1, <1>2, <1>3 DEF HandInv, GoTo, EndJob, NoJob, SrcPlaces, TypeOK
<1>5. \A k \in Integrators : HandInv(k)'
  BY <1>4 DEF Serial
<1>6. \A u \in Tasks : InMain(u)' = InMain(u)
  BY DEF InMain
<1>7. MergedIsInMain'
  BY <1>1, <1>2, <1>6 DEF MergedInv, MergedIsInMain
<1> QED
  BY <1>2, <1>3, <1>5, <1>7 DEF MergedInv, PendingRests

LEMMA ReturnStep ==
  ASSUME TypeOK, Serial, MergedInv, NEW i \in Integrators, NEW b \in BOOLEAN,
         ipc[i] \notin {"idle", "next"}, ReturnForRevisionOrBlock(i, b), ilist' = ilist
  PROVE  MergedInv'
<1>1. UNCHANGED <<main, work, running, ilist>> /\ EndJob(i)
  BY DEF ReturnForRevisionOrBlock, branches
<1>2. PICK s \in {"needs_revision", "blocked"}, r \in {job[i].round, job[i].round + 1} :
        SetRecord(job[i].task, s, r)
  BY DEF ReturnForRevisionOrBlock
<1> QED
  BY <1>1, <1>2, VerdictStep

\* A job goes on, with what it has read.
LEMMA ProceedStep ==
  ASSUME TypeOK, Serial, MergedInv, NEW i \in Integrators,
         NEW place \in Places \ {"idle", "next", "cleanup", "record"}, Proceed(i, place),
         ipc[i] \notin {"idle", "next", "cleanup"},
         ilist' = ilist, job'[i].task = job[i].task,
         place \in SrcPlaces => job'[i].src.run = work[job[i].task].run
  PROVE  MergedInv'
<1>1. UNCHANGED <<main, work, running, status>> /\ ipc'[i] = place
  BY DEF Proceed, records, branches, GoTo, TypeOK
<1>2. HandInv(i)'
  BY <1>1 DEF MergedInv, HandInv
<1> QED
  BY <1>1, <1>2, QuietStep

\* The fast-forward puts the last run of the task at hand on the base branch.
LEMMA FastForwardStep ==
  ASSUME TypeOK, Serial, MainGrows, main' \in Seq(Commits), MergedInv, NEW i \in Integrators,
         ipc[i] = "ff", main' = Append(main, CommitOf(i)), GoTo(i, "record"),
         UNCHANGED <<branches, status, job, ilist>>
  PROVE  MergedInv'
<1>1. PICK t \in Tasks : t = job[i].task
  BY DEF TypeOK
<1>2. UNCHANGED <<work, running, status>> /\ ipc'[i] = "record"
  BY DEF branches, GoTo, TypeOK
<1>3. InMain(t)'
  <2>1. CommitOf(i).by = t /\ CommitOf(i).run = work[t].run
    BY <1>1 DEF CommitOf, MergedInv, HandInv, SrcPlaces
  <2>2. Len(main') \in 1..Len(main') /\ main'[Len(main')] = CommitOf(i)
    BY DEF TypeOK
  <2> QED
    BY <1>2, <2>1, <2>2 DEF InMain
<1>4. HandInv(i)'
  BY <1>1, <1>2, <1>3 DEF MergedInv, HandInv, SrcPlaces
<1>5. \A k \in Integrators : HandInv(k)'
  BY <1>4 DEF Serial
<1>6. MergedIsInMain'
  BY <1>2, InMainStays DEF MergedInv, MergedIsInMain
<1> QED
  BY <1>2, <1>5, <1>6 DEF MergedInv, PendingRests

LEMMA RecordEndStep ==
  ASSUME TypeOK, Serial, MergedInv, NEW i \in Integrators, NEW s \in {"noop", "merged"},
         ipc[i] \notin {"idle", "next"}, RecordEnd(i, s), ilist' = ilist,
         s = "merged" => InMain(job[i].task)
  PROVE  MergedInv'
<1>1. /\ UNCHANGED <<main, work, running, ilist>>
      /\ SetRecord(job[i].task, s, job[i].round)
      /\ GoTo(i, "cleanup") /\ job' = job
  BY DEF RecordEnd, branches
<1> QED
  BY <1>1, VerdictStep

LEMMA IntegrateMerged ==
  ASSUME TypeOK, Serial, MainGrows, main' \in Seq(Commits), MergedInv, NEW i \in Integrators,
         Integrate(i)
  PROVE  MergedInv'
<1>0. HandInv(i) /\ PendingRests
  BY DEF MergedInv
<1>1. CASE ListPending(i)
  <2>1. /\ UNCHANGED <<main, work, running, status>> /\ job' = job
        /\ ipc[i] = "idle" /\ ipc'[i] = "next"
        /\ \A t \in ilist'[i] : status[t] = "pending"
    BY <1>1 DEF ListPending, GoTo, records, branches, TypeOK
  <2>2. HandInv(i)'
    BY <1>0, <2>1 DEF HandInv, SrcPlaces
  <2> QED
    BY <2>1, <2>2, QuietStep
<1>2. CASE NextTask(i)
  <2>1. PICK t \in ilist[i] : /\ ilist' = [ilist EXCEPT ![i] = @ \ {t}]
                              /\ job' = [job EXCEPT ![i].task = t, ![i].round = round[t]]
    BY <1>2 DEF NextTask
  <2>2. /\ UNCHANGED <<main, work, running, status>> /\ ipc'[i] = "diff"
        /\ ilist'[i] = ilist[i] \ {t} /\ job'[i].task = t /\ t \in Tasks
    BY <1>2, <2>1 DEF NextTask, GoTo, records, branches, TypeOK, Jobs
  <2>3. HandInv(i)'
    BY <1>0, <2>1, <2>2 DEF HandInv, PendingRests, SrcPlaces
  <2> QED
    BY <2>2, <2>3, QuietStep
<1>3. CASE ListDone(i)
  <2>1. /\ UNCHANGED <<main, work, running, status>> /\ job' = job /\ ilist' = ilist
        /\ ipc[i] = "next" /\ ipc'[i] = "idle"
    BY <1>3 DEF ListDone, GoTo, records, branches, TypeOK
  <2>2. HandInv(i)'
    BY <1>0, <2>1 DEF HandInv, SrcPlaces
  <2> QED
    BY <2>1, <2>2, QuietStep
<1>4. CASE CheckDiff(i)
  BY <1>4, RecordEndStep, ProceedStep DEF CheckDiff, Places, SrcPlaces
<1>5. CASE CheckClean(i)
  BY <1>5, ReturnStep, ProceedStep DEF CheckClean, Places, SrcPlaces
<1>6. CASE ReadHead(i)
  <2>1. job'[i].task = job[i].task
    BY <1>6 DEF ReadHead, TypeOK, Jobs
  <2> QED
    BY <1>6, <2>1, ProceedStep DEF ReadHead, Places, SrcPlaces
<1>7. CASE AddWorktree(i)
  <2>1. job'[i].task = job[i].task
    BY <1>7 DEF AddWorktree, TypeOK, Jobs
  <2> QED
    BY <1>7, <2>1, ProceedStep DEF AddWorktree, Places, SrcPlaces
<1>8. CASE SquashMerge(i)
  <2>1. CASE job' = [job EXCEPT ![i].src = work[job[i].task]] /\ Proceed(i, "tests")
    <3>1. job'[i].task = job[i].task /\ job'[i].src = work[job[i].task]
      BY <2>1 DEF TypeOK, Jobs
    <3> QED
      BY <1>8, <2>1, <3>1, ProceedStep DEF SquashMerge, Places
  <2> QED
    BY <1>8, <2>1, ReturnStep DEF SquashMerge
<1>9. CASE RunTests(i)
  BY <1>0, <1>9, ReturnStep, ProceedStep DEF RunTests, Places, HandInv, SrcPlaces
<1>10. CASE CommitSquashed(i)
  BY <1>0, <1>10, RecordEndStep, ReturnStep, ProceedStep
  DEF CommitSquashed, Places, HandInv, SrcPlaces
<1>11. CASE CheckHead(i)
  BY <1>0, <1>11, ReturnStep, ProceedStep DEF CheckHead, Places, HandInv, SrcPlaces
<1>12. CASE FastForward(i)
  BY <1>12, ReturnStep, FastForwardStep DEF FastForward
<1>13. CASE RecordMerged(i)
  BY <1>0, <1>13, RecordEndStep DEF RecordMerged, HandInv
<1>14. CASE CleanUp(i)
  <2>1. HandInv(i)'
    BY <1>0, <1>14 DEF CleanUp, EndJob, GoTo, NoJob, HandInv, SrcPlaces, TypeOK
  <2> QED
    BY <1>14, <2>1, QuietStep DEF CleanUp
<1> QED
  BY <1>1, <1>2, <1>3, <1>4, <1>5, <1>6, <1>7, <1>8, <1>9, <1>10, <1>11, <1>12, <1>13, <1>14
  DEF Integrate

\* Somebody else commits, or nobody does anything.
LEMMA OthersMerged ==
  ASSUME TypeOK, MainGrows, main' \in Seq(Commits), MergedInv,
         UNCHANGED <<work, running, status, ipc, ilist, job>>
  PROVE  MergedInv'
<1>1. ASSUME NEW i \in Integrators PROVE HandInv(i)'
  BY HandStays DEF MergedInv
<1>2. MergedIsInMain'
  BY InMainStays DEF MergedInv, MergedIsInMain
<1> QED
  BY <1>1, <1>2 DEF MergedInv, PendingRests

LEMMA CrashMerged ==
  ASSUME TypeOK, Serial, MergedInv, NEW i \in Integrators, Crash(i)
  PROVE  MergedInv'
<1>1. HandInv(i)'
  BY DEF Crash, GoTo, NoJob, HandInv, SrcPlaces, TypeOK
<1> QED
  BY <1>1, QuietStep DEF Crash, records, branches

LEMMA NextMerged == Serial /\ IInv /\ MergedInv /\ [Next]_vars => MergedInv'
<1> SUFFICES ASSUME Serial, IInv, MergedInv, [Next]_vars PROVE MergedInv'
  OBVIOUS
<1>0. TypeOK /\ main' \in Seq(Commits) /\ MainGrows
  BY NextGrows DEF IInv
<1>1. CASE OutsideCommit \/ UNCHANGED vars
  BY <1>0, <1>1, OthersMerged DEF OutsideCommit, vars, records, branches
<1> QED
  BY <1>0, <1>1, StartRunMerged, AgentCommitsMerged, FinishRunMerged, IntegrateMerged,
     CrashMerged DEF Next, Serial

LEMMA MergedInvariant == Serial => (Spec => []MergedInv)
<1> SUFFICES ASSUME Serial PROVE Spec => []MergedInv
  OBVIOUS
<1>1. Init => MergedInv
  BY DEF Init, MergedInv, PendingRests, HandInv, SrcPlaces, NoJob, MergedIsInMain
<1>2. IInv /\ MergedInv /\ [Next]_vars => MergedInv'
  BY NextMerged
<1> QED
  BY <1>1, <1>2, IInvHolds, PTL DEF Spec

\* A record that says merged is backed by a commit of the task's last run,
\* also when the integrator dies at any point and is started again.
THEOREM MergedIsOnMain == Serial => (Spec => []MergedIsInMain)
<1> SUFFICES ASSUME Serial PROVE Spec => []MergedIsInMain
  OBVIOUS
<1>1. MergedInv => MergedIsInMain
  BY DEF MergedInv
<1> QED
  BY <1>1, MergedInvariant, PTL

(***************************************************************************)
(* When nobody dies between the fast-forward and the record                *)
(***************************************************************************)
LEMMA SameHistory ==
  ASSUME TypeOK, HistoryInv, main' = main, \A t \in Tasks : work'[t].run = work[t].run
  PROVE  /\ RunsKnown' /\ MergedOnce'
         /\ \A t \in Tasks : InMain(t)' <=> InMain(t)
<1>1. \A n \in 1..Len(main) : main[n].by # NoTask => main[n].by \in Tasks
  BY CommitType DEF Commits
<1> QED
  BY <1>1 DEF HistoryInv, RunsKnown, MergedOnce, InMain

\* A step of the worker or of the integrator that touches no record.
LEMMA QuietHistory ==
  ASSUME TypeOK, HistoryInv, UNCHANGED <<main, status>>,
         \A t \in Tasks : work'[t].run = work[t].run,
         \A i \in Integrators :
           ipc[i] # "record" \/ (ipc'[i] = ipc[i] /\ job'[i] = job[i])
  PROVE  HistoryInv'
BY SameHistory DEF HistoryInv, PendingIsNew, MergedIsNotReturned

\* A new run is not on the base branch.
LEMMA FinishRunHistory ==
  ASSUME TypeOK, HistoryInv, NEW t \in Tasks, FinishRun(t)
  PROVE  HistoryInv'
<1>1. /\ main' = main /\ ipc' = ipc /\ job' = job
      /\ work'[t].run = work[t].run + 1 /\ work[t].run \in Nat
      /\ \A u \in Tasks \ {t} : status'[u] = status[u] /\ work'[u] = work[u]
  BY DEF FinishRun, TypeOK, Works
<1>2. \A n \in 1..Len(main) :
        /\ main[n].by # NoTask => main[n].by \in Tasks
        /\ main[n].run \in Nat
  BY CommitType DEF Commits
<1>3. RunsKnown' /\ MergedOnce'
  BY <1>1, <1>2 DEF HistoryInv, RunsKnown, MergedOnce
<1>4. ~InMain(t)'
  BY <1>1, <1>2, TasksAssumption DEF HistoryInv, RunsKnown, InMain
<1>5. \A u \in Tasks \ {t} : InMain(u)' <=> InMain(u)
  BY <1>1 DEF InMain
<1> QED
  BY <1>1, <1>3, <1>4, <1>5 DEF HistoryInv, PendingIsNew, MergedIsNotReturned

\* One more commit, by a task whose last run is not there yet or by somebody else.
LEMMA AppendHistory ==
  ASSUME TypeOK, HistoryInv, NEW c \in Commits, main' = Append(main, c), work' = work,
         c.by # NoTask => c.run = work[c.by].run /\ ~InMain(c.by)
  PROVE  /\ RunsKnown' /\ MergedOnce'
         /\ \A u \in Tasks \ {c.by} : InMain(u)' <=> InMain(u)
<1>1. /\ Len(main') = Len(main) + 1 /\ main'[Len(main')] = c /\ Len(main) \in Nat
      /\ \A n \in 1..Len(main) : main'[n] = main[n]
  BY DEF TypeOK
<1>2. RunsKnown'
  <2> SUFFICES ASSUME NEW n \in 1..Len(main'), main'[n].by # NoTask
               PROVE  main'[n].run <= work[main'[n].by].run
    BY DEF RunsKnown
  <2>1. CASE n \in 1..Len(main)
    BY <1>1, <2>1 DEF HistoryInv, RunsKnown
  <2>2. CASE n = Len(main')
    BY <1>1, <2>2 DEF Commits
  <2> QED
    BY <1>1, <2>1, <2>2
<1>3. MergedOnce'
  <2>1. ASSUME c.by # NoTask, NEW n \in 1..Len(main), main[n].by = c.by, main[n].run = c.run
        PROVE  FALSE
    BY <2>1 DEF InMain
  <2>2. \A m, n \in 1..Len(main) :
          (main[m].by # NoTask /\ main[m].by = main[n].by /\ main[m].run = main[n].run)
            => m = n
    BY DEF HistoryInv, MergedOnce
  <2> SUFFICES ASSUME NEW m \in 1..Len(main'), NEW n \in 1..Len(main'), main'[m].by # NoTask,
                      main'[m].by = main'[n].by, main'[m].run = main'[n].run
               PROVE  m = n
    BY DEF MergedOnce
  <2>3. CASE m \in 1..Len(main) /\ n \in 1..Len(main)
    BY <1>1, <2>2, <2>3
  <2>4. CASE m = Len(main') \/ n = Len(main')
    BY <1>1, <2>1, <2>4
  <2> QED
    BY <1>1, <2>3, <2>4
<1>4. ASSUME NEW u \in Tasks \ {c.by} PROVE InMain(u)' <=> InMain(u)
  <2>1. \A n \in 1..Len(main') : main'[n].by = u => n \in 1..Len(main)
    BY <1>1
  <2>2. 1..Len(main) \subseteq 1..Len(main')
    BY <1>1
  <2> QED
    BY <1>1, <2>1, <2>2 DEF InMain
<1> QED
  BY <1>2, <1>3, <1>4

\* A verdict on a run that is not on the base branch, or that it was merged.
LEMMA VerdictHistory ==
  ASSUME TypeOK, Serial, MergedInv, HistoryInv, NEW i \in Integrators,
         UNCHANGED <<main, work>>, ipc[i] \notin {"idle", "next", "cleanup"},
         NEW s \in {"noop", "merged", "needs_revision", "blocked"}, NEW r,
         SetRecord(job[i].task, s, r), s = "merged" \/ ipc[i] # "record"
  PROVE  HistoryInv'
<1>1. PICK t \in Tasks : t = job[i].task
  BY DEF TypeOK
<1>2. status'[t] = s /\ \A u \in Tasks \ {t} : status'[u] = status[u]
  BY <1>1 DEF SetRecord, TypeOK
<1>3. status[t] = "pending"
  BY <1>1 DEF MergedInv, HandInv
<1>4. \A u \in Tasks : (InMain(u) /\ status[u] = "pending") => ipc[i] = "record" /\ u = t
  BY <1>1 DEF HistoryInv, PendingIsNew, Serial
<1>5. RunsKnown' /\ MergedOnce' /\ \A u \in Tasks : InMain(u)' <=> InMain(u)
  BY SameHistory
<1>6. PendingIsNew'
  BY <1>2, <1>4, <1>5 DEF PendingIsNew
<1>7. MergedIsNotReturned'
  BY <1>2, <1>3, <1>4, <1>5 DEF HistoryInv, MergedIsNotReturned
<1> QED
  BY <1>5, <1>6, <1>7 DEF HistoryInv

LEMMA ReturnHistory ==
  ASSUME TypeOK, Serial, MergedInv, HistoryInv, NEW i \in Integrators, NEW b \in BOOLEAN,
         ipc[i] \notin {"idle", "next", "cleanup", "record"}, ReturnForRevisionOrBlock(i, b)
  PROVE  HistoryInv'
<1>1. UNCHANGED <<main, work>>
  BY DEF ReturnForRevisionOrBlock, branches
<1>2. PICK s \in {"needs_revision", "blocked"}, r \in {job[i].round, job[i].round + 1} :
        SetRecord(job[i].task, s, r)
  BY DEF ReturnForRevisionOrBlock
<1> QED
  BY <1>1, <1>2, VerdictHistory

LEMMA RecordEndHistory ==
  ASSUME TypeOK, Serial, MergedInv, HistoryInv, NEW i \in Integrators,
         NEW s \in {"noop", "merged"}, ipc[i] \notin {"idle", "next", "cleanup"},
         s = "merged" \/ ipc[i] # "record", RecordEnd(i, s)
  PROVE  HistoryInv'
BY VerdictHistory DEF RecordEnd, branches

LEMMA FastForwardHistory ==
  ASSUME IInv, Serial, MergedInv, HistoryInv, NEW i \in Integrators,
         ipc[i] = "ff", main' = Append(main, CommitOf(i)), GoTo(i, "record"),
         UNCHANGED <<branches, status, job>>
  PROVE  HistoryInv'
<1>0. TypeOK /\ CommitOf(i) \in Commits
  BY CommitOfType DEF IInv
<1>1. PICK t \in Tasks : t = job[i].task
  BY <1>0 DEF TypeOK
<1>2. ipc'[i] = "record" /\ work' = work
  BY <1>0 DEF GoTo, branches, TypeOK
<1>3. /\ CommitOf(i).by = t /\ CommitOf(i).run = work[t].run
      /\ status[t] = "pending"
  BY <1>1 DEF CommitOf, MergedInv, HandInv, SrcPlaces
<1>4. \A u \in Tasks : ~(InMain(u) /\ status[u] = "pending")
  BY DEF HistoryInv, PendingIsNew, Serial
<1>5. RunsKnown' /\ MergedOnce' /\ \A u \in Tasks \ {t} : InMain(u)' <=> InMain(u)
  BY <1>0, <1>2, <1>3, <1>4, AppendHistory
<1>6. PendingIsNew'
  BY <1>1, <1>2, <1>4, <1>5 DEF PendingIsNew
<1>7. MergedIsNotReturned'
  BY <1>3, <1>5 DEF HistoryInv, MergedIsNotReturned
<1> QED
  BY <1>5, <1>6, <1>7 DEF HistoryInv

LEMMA IntegrateHistory ==
  ASSUME IInv, Serial, MergedInv, HistoryInv, NEW i \in Integrators, Integrate(i)
  PROVE  HistoryInv'
<1>0. TypeOK
  BY DEF IInv
<1>1. ASSUME UNCHANGED <<main, work, status>>, ipc[i] # "record" PROVE HistoryInv'
  BY <1>0, <1>1, QuietHistory DEF Serial
<1>2. ASSUME NEW place, Proceed(i, place), ipc[i] # "record" PROVE HistoryInv'
  BY <1>1, <1>2 DEF Proceed, records, branches
<1>3. CASE ListPending(i) \/ NextTask(i) \/ ListDone(i) \/ CleanUp(i)
  BY <1>1, <1>3 DEF ListPending, NextTask, ListDone, CleanUp, records, branches
<1>4. CASE CheckDiff(i)
  BY <1>0, <1>2, <1>4, RecordEndHistory DEF CheckDiff
<1>5. CASE CheckClean(i) \/ ReadHead(i) \/ AddWorktree(i)
  BY <1>0, <1>2, <1>5, ReturnHistory DEF CheckClean, ReadHead, AddWorktree
<1>6. CASE SquashMerge(i) \/ RunTests(i) \/ CheckHead(i)
  BY <1>0, <1>2, <1>6, ReturnHistory DEF SquashMerge, RunTests, CheckHead
<1>7. CASE CommitSquashed(i)
  BY <1>0, <1>2, <1>7, RecordEndHistory, ReturnHistory DEF CommitSquashed
<1>8. CASE FastForward(i)
  BY <1>0, <1>8, ReturnHistory, FastForwardHistory DEF FastForward
<1>9. CASE RecordMerged(i)
  BY <1>0, <1>9, RecordEndHistory DEF RecordMerged
<1> QED
  BY <1>3, <1>4, <1>5, <1>6, <1>7, <1>8, <1>9 DEF Integrate

LEMMA NextHistory ==
  Serial /\ MaxCrashes = 0 /\ IInv /\ MergedInv /\ HistoryInv /\ [Next]_vars => HistoryInv'
<1> SUFFICES ASSUME Serial, MaxCrashes = 0, IInv, MergedInv, HistoryInv, [Next]_vars
             PROVE  HistoryInv'
  OBVIOUS
<1>0. TypeOK
  BY DEF IInv
<1>1. ASSUME NEW t \in Tasks, StartRun(t) \/ AgentCommits(t) PROVE HistoryInv'
  <2>1. UNCHANGED <<main, status, ipc, job>>
    BY <1>1 DEF StartRun, AgentCommits
  <2>2. CASE StartRun(t)
    <3>1. \A u \in Tasks : work'[u].run = work[u].run
      BY <1>0, <2>2 DEF StartRun, TypeOK, Works
    <3> QED
      BY <1>0, <2>1, <3>1, QuietHistory
  <2>3. CASE AgentCommits(t)
    <3>1. \A u \in Tasks : work'[u].run = work[u].run
      BY <1>0, <2>3 DEF AgentCommits, TypeOK, Works
    <3> QED
      BY <1>0, <2>1, <3>1, QuietHistory
  <2> QED
    BY <1>1, <2>2, <2>3
<1>2. ASSUME NEW i \in Integrators, Crash(i) PROVE FALSE
  BY <1>0, <1>2 DEF Crash, TypeOK
<1>3. CASE OutsideCommit
  <2>1. PICK c \in Commits : c.by = NoTask /\ main' = Append(main, c)
    <3>1. PICK tree \in Trees : main' = Append(main, [tree |-> tree, by |-> NoTask, run |-> 0])
      BY <1>3 DEF OutsideCommit
    <3>2. [tree |-> tree, by |-> NoTask, run |-> 0] \in Commits
      BY DEF Commits
    <3> QED
      BY <3>1, <3>2
  <2>2. UNCHANGED <<work, status, ipc, job>>
    BY <1>3 DEF OutsideCommit, branches
  <2>3. RunsKnown' /\ MergedOnce' /\ \A u \in Tasks : InMain(u)' <=> InMain(u)
    BY <1>0, <2>1, <2>2, AppendHistory, TasksAssumption
  <2> QED
    BY <2>2, <2>3 DEF HistoryInv, PendingIsNew, MergedIsNotReturned
<1>4. CASE UNCHANGED vars
  BY <1>0, <1>4, QuietHistory DEF vars, records, branches
<1> QED
  BY <1>0, <1>1, <1>2, <1>3, <1>4, FinishRunHistory, IntegrateHistory DEF Next

LEMMA HistoryInvariant == (Serial /\ MaxCrashes = 0) => (Spec => []HistoryInv)
<1> SUFFICES ASSUME Serial, MaxCrashes = 0 PROVE Spec => []HistoryInv
  OBVIOUS
<1>1. Init => HistoryInv
  BY TasksAssumption
  DEF Init, HistoryInv, RunsKnown, PendingIsNew, MergedOnce, MergedIsNotReturned
<1>2. IInv /\ MergedInv /\ HistoryInv /\ [Next]_vars => HistoryInv'
  BY NextHistory
<1> QED
  BY <1>1, <1>2, IInvHolds, MergedInvariant, PTL DEF Spec

\* With one integrator that records what it merged, no run of a task is put on
\* the base branch twice, whatever is returned, revised and committed by others.
THEOREM RunsAreMergedOnce == (Serial /\ MaxCrashes = 0) => (Spec => []MergedOnce)
<1> SUFFICES ASSUME Serial, MaxCrashes = 0 PROVE Spec => []MergedOnce
  OBVIOUS
<1>1. HistoryInv => MergedOnce
  BY DEF HistoryInv
<1> QED
  BY <1>1, HistoryInvariant, PTL

\* What README.md says of a serialized integration holds of one integrator that
\* does not die: a run that is on the base branch is never returned for
\* revision nor reported blocked.
THEOREM MergedRunsAreNotReturned ==
  (Serial /\ MaxCrashes = 0) => (Spec => []MergedIsNotReturned)
<1> SUFFICES ASSUME Serial, MaxCrashes = 0 PROVE Spec => []MergedIsNotReturned
  OBVIOUS
<1>1. HistoryInv => MergedIsNotReturned
  BY DEF HistoryInv
<1> QED
  BY <1>1, HistoryInvariant, PTL
=============================================================================
