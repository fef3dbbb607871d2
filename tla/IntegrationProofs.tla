------------------------- MODULE IntegrationProofs --------------------------
(***************************************************************************)
(* What reaches the base branch was tested, for any number of tasks and    *)
(* integrators, whatever others commit and whoever dies in between.        *)
(*                                                                         *)
(* The invariant follows a job: from the worktree on, its base is a commit *)
(* of the base branch; from the merge on, so is the fork of what it        *)
(* merged; from the tests on, what it will commit is what passed them.     *)
(* All of it survives other steps because the base branch only grows.      *)
(***************************************************************************)
EXTENDS Integration, TLAPS

AtPlaces     == {"squash", "tests", "commit", "check", "ff"}
SrcPlaces    == {"tests", "commit", "check", "ff"}
TestedPlaces == {"commit", "check", "ff"}

ForksKnown == \A t \in branch : work[t].fork \in 1..Len(main)

JobInv(i) ==
  /\ ipc[i] \in AtPlaces => job[i].at \in 1..Len(main)
  /\ ipc[i] \in SrcPlaces => job[i].src.fork \in 1..Len(main)
  /\ ipc[i] \in TestedPlaces => [on |-> job[i].at, tree |-> Staged(i)] \in tested

JobsInv == \A i \in Integrators : JobInv(i)

IInv == TypeOK /\ ForksKnown /\ JobsInv /\ MainIsTested

\* The base branch only grows.
MainGrows ==
  /\ Len(main') >= Len(main)
  /\ \A n \in 1..Len(main) : main'[n] = main[n]

LEMMA CommitType ==
  ASSUME TypeOK, NEW n \in 1..Len(main)
  PROVE  main[n] \in Commits /\ TreeOf(n) \in Trees
<1>1. main[n] \in Commits
  BY DEF TypeOK
<1> QED
  BY <1>1 DEF TreeOf, Commits

\* A tree made by merging trees of the repository is one.
LEMMA SquashedType ==
  ASSUME TypeOK, NEW w \in Works, NEW at \in 1..Len(main), w.fork \in 1..Len(main)
  PROVE  Squashed(w, at) \in Trees
<1>1. TreeOf(w.fork) \in Trees /\ TreeOf(at) \in Trees
  BY CommitType
<1>2. w.tree \in Trees
  BY DEF Works
<1> QED
  BY <1>1, <1>2 DEF Squashed, Merge, Trees

LEMMA CommitOfType ==
  ASSUME TypeOK, JobsInv, NEW i \in Integrators, ipc[i] = "ff"
  PROVE  CommitOf(i) \in Commits
<1>1. job[i] \in Jobs /\ job[i].task \in Tasks
  BY DEF TypeOK
<1>2. job[i].src \in Works /\ job[i].src.run \in Nat
  BY <1>1 DEF Jobs, Works
<1>3. job[i].at \in 1..Len(main) /\ job[i].src.fork \in 1..Len(main)
  BY DEF JobsInv, JobInv, AtPlaces, SrcPlaces
<1>4. Staged(i) \in Trees
  BY <1>2, <1>3, SquashedType DEF Staged
<1> QED
  BY <1>1, <1>2, <1>4 DEF CommitOf, Commits

\* A step leaves the base branch alone, or puts one commit on it.
LEMMA NextOnMain ==
  ASSUME TypeOK, JobsInv, [Next]_vars
  PROVE  main' = main \/ \E c \in Commits : main' = Append(main, c)
<1> USE DEF records, branches, Proceed, ReturnForRevisionOrBlock, RecordEnd
<1>1. ASSUME NEW t \in Tasks, StartRun(t) \/ AgentCommits(t) \/ FinishRun(t)
      PROVE  main' = main
  BY <1>1 DEF StartRun, AgentCommits, FinishRun
<1>2. ASSUME NEW i \in Integrators, Integrate(i), ~FastForward(i)
      PROVE  main' = main
  BY <1>2 DEF Integrate, ListPending, NextTask, ListDone, CheckDiff, CheckClean,
     ReadHead, AddWorktree, SquashMerge, RunTests, CommitSquashed, CheckHead,
     RecordMerged, CleanUp
<1>3. ASSUME NEW i \in Integrators, FastForward(i)
      PROVE  main' = main \/ \E c \in Commits : main' = Append(main, c)
  BY <1>3, CommitOfType DEF FastForward
<1>4. ASSUME NEW i \in Integrators, Crash(i) PROVE main' = main
  BY <1>4 DEF Crash
<1>5. ASSUME OutsideCommit PROVE \E c \in Commits : main' = Append(main, c)
  BY <1>5 DEF OutsideCommit, Commits
<1>6. CASE UNCHANGED vars
  BY <1>6 DEF vars
<1> QED
  BY <1>1, <1>2, <1>3, <1>4, <1>5, <1>6 DEF Next

\* So the commits that were there stay.
LEMMA NextGrows ==
  ASSUME TypeOK, JobsInv, [Next]_vars
  PROVE  main' \in Seq(Commits) /\ Len(main') > 0 /\ MainGrows
<1>1. main \in Seq(Commits) /\ Len(main) > 0
  BY DEF TypeOK
<1> QED
  BY <1>1, NextOnMain DEF MainGrows

\* What a job read and is about to do is the same in the longer history.
LEMMA JobStays ==
  ASSUME Len(main) \in Nat, Len(main') \in Nat, JobsInv, MainGrows,
         tested \subseteq tested',
         NEW i \in Integrators, job'[i] = job[i],
         ipc'[i] \in AtPlaces => ipc[i] \in AtPlaces,
         ipc'[i] \in SrcPlaces => ipc[i] \in SrcPlaces,
         ipc'[i] \in TestedPlaces => ipc[i] \in TestedPlaces
  PROVE  JobInv(i)'
<1>1. 1..Len(main) \subseteq 1..Len(main')
  BY DEF MainGrows
<1>2. ipc'[i] \in AtPlaces => job'[i].at \in 1..Len(main')
  <2>1. ipc[i] \in AtPlaces => job[i].at \in 1..Len(main)
    BY DEF JobsInv, JobInv
  <2> QED
    BY <1>1, <2>1
<1>3. ipc'[i] \in SrcPlaces => job'[i].src.fork \in 1..Len(main')
  <2>1. ipc[i] \in SrcPlaces => job[i].src.fork \in 1..Len(main)
    BY DEF JobsInv, JobInv
  <2> QED
    BY <1>1, <2>1
<1>4. ASSUME ipc'[i] \in TestedPlaces
      PROVE  [on |-> job'[i].at, tree |-> Staged(i)'] \in tested'
  <2>1. job[i].at \in 1..Len(main) /\ job[i].src.fork \in 1..Len(main)
    BY <1>4 DEF JobsInv, JobInv, AtPlaces, SrcPlaces, TestedPlaces
  <2>2. /\ main'[job[i].at] = main[job[i].at]
        /\ main'[job[i].src.fork] = main[job[i].src.fork]
    BY <2>1 DEF MainGrows
  <2>3. Staged(i)' = Staged(i)
    BY <2>2 DEF Staged, Squashed, TreeOf
  <2> QED
    BY <1>4, <2>3 DEF JobsInv, JobInv
<1> QED
  BY <1>2, <1>3, <1>4 DEF JobInv

\* The jobs, and where the integrators are.
JobsType ==
  /\ ipc \in [Integrators -> Places]
  /\ job \in [Integrators -> Jobs]
  /\ \A i \in Integrators : ipc[i] \notin {"idle", "next"} => job[i].task \in Tasks

LEMMA MoveType ==
  ASSUME TypeOK, NEW i \in Integrators, NEW place \in Places, GoTo(i, place),
         job' \in [Integrators -> Jobs],
         \A k \in Integrators : k # i => job'[k] = job[k],
         place \notin {"idle", "next"} => job'[i].task \in Tasks
  PROVE  JobsType'
BY DEF TypeOK, GoTo, JobsType

LEMMA EndJobType ==
  ASSUME TypeOK, NEW i \in Integrators, NEW place \in {"idle", "next"}, GoTo(i, place),
         job' = [job EXCEPT ![i] = NoJob]
  PROVE  JobsType'
<1>1. NoJob \in Jobs
  BY BoundsAssumption DEF Jobs, NoJob, NoWork, Works, Trees
<1>2. job' \in [Integrators -> Jobs] /\ \A k \in Integrators : k # i => job'[k] = job[k]
  BY <1>1 DEF TypeOK
<1> QED
  BY <1>2, MoveType DEF Places

LEMMA RecordType ==
  ASSUME TypeOK, NEW t \in Tasks, NEW s \in Statuses, NEW r \in 0..MaxRevisionRounds,
         SetRecord(t, s, r)
  PROVE  status' \in [Tasks -> Statuses] /\ round' \in [Tasks -> 0..MaxRevisionRounds]
BY DEF TypeOK, SetRecord

\* The two ways a job ends.
LEMMA ReturnType ==
  ASSUME TypeOK, NEW i \in Integrators, ipc[i] \notin {"idle", "next"},
         NEW b \in BOOLEAN, ReturnForRevisionOrBlock(i, b),
         ilist' = ilist, counts' = counts, tested' = tested
  PROVE  TypeOK'
<1>1. job[i] \in Jobs /\ job[i].task \in Tasks /\ job[i].round \in 0..MaxRevisionRounds
  BY DEF TypeOK, Jobs
<1>3. JobsType'
  BY EndJobType DEF ReturnForRevisionOrBlock, EndJob
<1>4. status' \in [Tasks -> Statuses] /\ round' \in [Tasks -> 0..MaxRevisionRounds]
  <2>1. CASE b /\ job[i].round < MaxRevisionRounds
    <3>1. job[i].round + 1 \in 0..MaxRevisionRounds
      BY <1>1, <2>1, BoundsAssumption
    <3> QED
      BY <1>1, <2>1, <3>1, RecordType DEF ReturnForRevisionOrBlock, Statuses
  <2>2. CASE ~(b /\ job[i].round < MaxRevisionRounds)
    BY <1>1, <2>2, RecordType DEF ReturnForRevisionOrBlock, Statuses
  <2> QED
    BY <2>1, <2>2
<1> QED
  BY <1>3, <1>4 DEF TypeOK, JobsType, ReturnForRevisionOrBlock, branches, counts

LEMMA RecordEndType ==
  ASSUME TypeOK, NEW i \in Integrators, ipc[i] \notin {"idle", "next"},
         NEW s \in Statuses, RecordEnd(i, s),
         ilist' = ilist, counts' = counts, tested' = tested
  PROVE  TypeOK'
<1>1. job[i] \in Jobs /\ job[i].task \in Tasks /\ job[i].round \in 0..MaxRevisionRounds
  BY DEF TypeOK, Jobs
<1>3. JobsType'
  BY <1>1, MoveType DEF RecordEnd, Places, TypeOK
<1>4. status' \in [Tasks -> Statuses] /\ round' \in [Tasks -> 0..MaxRevisionRounds]
  BY <1>1, RecordType DEF RecordEnd
<1> QED
  BY <1>3, <1>4 DEF TypeOK, JobsType, RecordEnd, branches, counts

\* A job goes on to a place: its records stay, or it has read something more.
LEMMA ProceedType ==
  ASSUME TypeOK, NEW i \in Integrators, NEW place \in Places, Proceed(i, place),
         job' \in [Integrators -> Jobs], job'[i].task \in Tasks,
         \A k \in Integrators : k # i => job'[k] = job[k],
         ilist' = ilist, counts' = counts,
         tested' \in SUBSET [on : Nat, tree : Trees]
  PROVE  TypeOK'
<1>1. JobsType'
  BY MoveType DEF Proceed
<1> QED
  BY <1>1 DEF TypeOK, JobsType, Proceed, records, branches, counts

LEMMA IntegrateType ==
  ASSUME TypeOK, JobsInv, main' \in Seq(Commits), Len(main') > 0,
         NEW i \in Integrators, Integrate(i)
  PROVE  TypeOK'
<1> DEFINE busy == ipc[i] \notin {"idle", "next"}
<1>0. job[i] \in Jobs /\ (busy => job[i].task \in Tasks) /\ BaseHead \in Nat
  BY DEF TypeOK, BaseHead
<1>1. CASE ListPending(i)
  <2>1. ilist' \in [Integrators -> SUBSET Tasks]
    BY <1>1 DEF ListPending, TypeOK
  <2>2. JobsType'
    BY <1>1, MoveType DEF ListPending, Places, TypeOK
  <2> QED
    BY <1>1, <2>1, <2>2 DEF ListPending, TypeOK, JobsType, records, branches, counts
<1>2. CASE NextTask(i)
  <2>1. PICK t \in ilist[i] : /\ ilist' = [ilist EXCEPT ![i] = @ \ {t}]
                              /\ job' = [job EXCEPT ![i].task = t, ![i].round = round[t]]
    BY <1>2 DEF NextTask
  <2>2. t \in Tasks /\ round[t] \in 0..MaxRevisionRounds
        /\ ilist' \in [Integrators -> SUBSET Tasks]
    BY <2>1 DEF TypeOK
  <2>3. /\ job' \in [Integrators -> Jobs] /\ job'[i].task = t
        /\ \A k \in Integrators : k # i => job'[k] = job[k]
    BY <2>1, <2>2 DEF Jobs, TypeOK
  <2>4. JobsType'
    BY <1>2, <2>2, <2>3, MoveType DEF NextTask, Places
  <2> QED
    BY <1>2, <2>2, <2>4 DEF NextTask, TypeOK, JobsType, records, branches, counts
<1>3. CASE ListDone(i)
  <2>1. JobsType'
    BY <1>3, MoveType DEF ListDone, Places, TypeOK
  <2> QED
    BY <1>3, <2>1 DEF ListDone, TypeOK, JobsType, records, branches, counts
<1>4. CASE CheckDiff(i)
  <2>1. CASE RecordEnd(i, "noop")
    BY <1>4, <2>1, RecordEndType DEF CheckDiff, Statuses
  <2>2. CASE Proceed(i, "clean") /\ job' = job
    BY <1>0, <1>4, <2>2, ProceedType DEF CheckDiff, Places, TypeOK
  <2> QED
    BY <1>4, <2>1, <2>2 DEF CheckDiff
<1>5. CASE CheckClean(i)
  <2>1. CASE Proceed(i, "head") /\ job' = job
    BY <1>0, <1>5, <2>1, ProceedType DEF CheckClean, Places, TypeOK
  <2> QED
    BY <1>5, <2>1, ReturnType DEF CheckClean
<1>6. CASE ReadHead(i)
  <2>1. /\ job' \in [Integrators -> Jobs] /\ job'[i].task = job[i].task
        /\ \A k \in Integrators : k # i => job'[k] = job[k]
    BY <1>0, <1>6 DEF ReadHead, Jobs, TypeOK
  <2> QED
    BY <1>0, <1>6, <2>1, ProceedType DEF ReadHead, Places, TypeOK
<1>7. CASE AddWorktree(i)
  <2>1. /\ job' \in [Integrators -> Jobs] /\ job'[i].task = job[i].task
        /\ \A k \in Integrators : k # i => job'[k] = job[k]
    BY <1>0, <1>7 DEF AddWorktree, Jobs, TypeOK
  <2> QED
    BY <1>0, <1>7, <2>1, ProceedType DEF AddWorktree, Places, TypeOK
<1>8. CASE SquashMerge(i)
  <2>1. CASE ReturnForRevisionOrBlock(i, TRUE)
    BY <1>8, <2>1, ReturnType DEF SquashMerge
  <2>2. CASE Proceed(i, "tests") /\ job' = [job EXCEPT ![i].src = work[job[i].task]]
    <3>1. work[job[i].task] \in Works
      BY <1>0, <1>8 DEF SquashMerge, TypeOK
    <3>2. /\ job' \in [Integrators -> Jobs] /\ job'[i].task = job[i].task
          /\ \A k \in Integrators : k # i => job'[k] = job[k]
      BY <1>0, <2>2, <3>1 DEF Jobs, TypeOK
    <3> QED
      BY <1>0, <1>8, <2>2, <3>2, ProceedType DEF SquashMerge, Places, TypeOK
  <2> QED
    BY <1>8, <2>1, <2>2 DEF SquashMerge
<1>9. CASE RunTests(i)
  <2>1. CASE ReturnForRevisionOrBlock(i, TRUE) /\ tested' = tested
    BY <1>9, <2>1, ReturnType DEF RunTests
  <2>2. CASE /\ tested' = tested \cup {[on |-> job[i].at, tree |-> Staged(i)]}
             /\ Proceed(i, "commit") /\ job' = job
    <3>1. job[i].at \in 1..Len(main) /\ job[i].src.fork \in 1..Len(main)
      BY <1>9 DEF RunTests, JobsInv, JobInv, AtPlaces, SrcPlaces
    <3>2. Staged(i) \in Trees
      BY <1>0, <3>1, SquashedType DEF Staged, Jobs
    <3>3. tested' \in SUBSET [on : Nat, tree : Trees]
      BY <2>2, <3>1, <3>2 DEF TypeOK
    <3> QED
      BY <1>0, <1>9, <2>2, <3>3, ProceedType DEF RunTests, Places, TypeOK
  <2> QED
    BY <1>9, <2>1, <2>2 DEF RunTests
<1>10. CASE CommitSquashed(i)
  <2>1. CASE Proceed(i, "check") /\ job' = job
    BY <1>0, <1>10, <2>1, ProceedType DEF CommitSquashed, Places, TypeOK
  <2>2. CASE RecordEnd(i, "noop")
    BY <1>10, <2>2, RecordEndType DEF CommitSquashed, Statuses
  <2> QED
    BY <1>10, <2>1, <2>2, ReturnType DEF CommitSquashed
<1>11. CASE CheckHead(i)
  <2>1. CASE Proceed(i, "ff") /\ job' = job
    BY <1>0, <1>11, <2>1, ProceedType DEF CheckHead, Places, TypeOK
  <2> QED
    BY <1>11, <2>1, ReturnType DEF CheckHead
<1>12. CASE FastForward(i)
  <2>1. CASE GoTo(i, "record") /\ UNCHANGED <<branches, status, round, job>>
    <3>1. JobsType'
      BY <1>0, <1>12, <2>1, MoveType DEF FastForward, Places, TypeOK
    <3> QED
      BY <1>12, <2>1, <3>1 DEF FastForward, TypeOK, JobsType, branches, counts
  <2> QED
    BY <1>12, <2>1, ReturnType DEF FastForward
<1>13. CASE RecordMerged(i)
  BY <1>13, RecordEndType DEF RecordMerged, Statuses
<1>14. CASE CleanUp(i)
  <2>1. JobsType'
    BY <1>14, EndJobType DEF CleanUp, EndJob
  <2> QED
    BY <1>14, <2>1 DEF CleanUp, TypeOK, JobsType, counts
<1> QED
  BY <1>1, <1>2, <1>3, <1>4, <1>5, <1>6, <1>7, <1>8, <1>9, <1>10, <1>11, <1>12,
     <1>13, <1>14 DEF Integrate

LEMMA NextType ==
  ASSUME TypeOK, JobsInv, [Next]_vars
  PROVE  TypeOK'
<1>0. /\ main' \in Seq(Commits) /\ Len(main') > 0
      /\ BaseHead \in 1..Len(main) /\ BaseHead \in Nat
  BY NextGrows DEF BaseHead, TypeOK
<1>1. ASSUME NEW t \in Tasks, StartRun(t) PROVE TypeOK'
  <2>1. baseCommit' \in [Tasks -> Nat]
    BY <1>0, <1>1 DEF StartRun, BaseFor, TypeOK
  <2>2. work' \in [Tasks -> Works]
    <3>1. TreeOf(BaseHead) \in Trees /\ work[t] \in Works
      BY <1>0, CommitType DEF TypeOK
    <3>2. work \in [Tasks -> Works] /\ BaseHead \in Nat
      BY <1>0 DEF TypeOK
    <3>3. [work EXCEPT ![t].fork = BaseHead, ![t].tree = TreeOf(BaseHead)]
            \in [Tasks -> Works]
      BY <3>1, <3>2 DEF Works
    <3> QED
      BY <1>1, <3>2, <3>3 DEF StartRun
  <2> QED
    BY <1>0, <1>1, <2>1, <2>2 DEF StartRun, TypeOK, counts
<1>2. ASSUME NEW t \in Tasks, AgentCommits(t) PROVE TypeOK'
  <2>1. PICK fork \in {work[t].fork, BaseHead}, tree \in Trees :
          work' = [work EXCEPT ![t].fork = fork, ![t].tree = tree]
    BY <1>2 DEF AgentCommits
  <2>2. work \in [Tasks -> Works] /\ fork \in Nat /\ tree \in Trees
    BY <1>0, <2>1 DEF TypeOK, Works
  <2>3. [work EXCEPT ![t].fork = fork, ![t].tree = tree] \in [Tasks -> Works]
    BY <2>2 DEF Works
  <2>4. work' \in [Tasks -> Works]
    BY <2>1, <2>3
  <2> QED
    BY <1>0, <1>2, <2>4 DEF AgentCommits, TypeOK, counts
<1>3. ASSUME NEW t \in Tasks, FinishRun(t) PROVE TypeOK'
  <2>1. work \in [Tasks -> Works]
    BY DEF TypeOK
  <2>2. [work EXCEPT ![t].run = @ + 1] \in [Tasks -> Works]
    BY <2>1 DEF Works
  <2>3. work' \in [Tasks -> Works]
    BY <1>3, <2>2 DEF FinishRun
  <2>4. branch' \in SUBSET Tasks
    BY <1>3 DEF FinishRun, TypeOK
  <2>5. 0 \in 0..MaxRevisionRounds
    BY BoundsAssumption
  <2>6. status' \in [Tasks -> Statuses]
    BY <1>3 DEF FinishRun, TypeOK, Statuses
  <2>7. round' \in [Tasks -> 0..MaxRevisionRounds]
    BY <1>3, <2>5 DEF FinishRun, TypeOK
  <2> QED
    BY <1>0, <1>3, <2>3, <2>4, <2>6, <2>7 DEF FinishRun, TypeOK, counts
<1>4. ASSUME NEW i \in Integrators, Crash(i) PROVE TypeOK'
  <2>1. JobsType'
    BY <1>4, EndJobType DEF Crash
  <2> QED
    BY <1>4, <2>1 DEF Crash, TypeOK, JobsType, records, branches
<1>5. CASE OutsideCommit
  BY <1>0, <1>5 DEF OutsideCommit, TypeOK, branches
<1>6. CASE UNCHANGED vars
  BY <1>6 DEF vars, records, branches, counts, TypeOK
<1> QED
  BY <1>0, <1>1, <1>2, <1>3, <1>4, <1>5, <1>6, IntegrateType DEF Next

LEMMA NextForks ==
  ASSUME TypeOK, ForksKnown, main' \in Seq(Commits), MainGrows, [Next]_vars
  PROVE  ForksKnown'
<1>1. 1..Len(main) \subseteq 1..Len(main') /\ BaseHead \in 1..Len(main')
  BY DEF MainGrows, BaseHead, TypeOK
<1>2. ASSUME branch' \subseteq branch,
             \A t \in Tasks : work'[t].fork = work[t].fork
      PROVE  ForksKnown'
  BY <1>1, <1>2 DEF ForksKnown, TypeOK
<1>3. ASSUME NEW t \in Tasks, StartRun(t) PROVE ForksKnown'
  BY <1>1, <1>3 DEF StartRun, ForksKnown, TypeOK, Works
<1>4. ASSUME NEW t \in Tasks, AgentCommits(t) PROVE ForksKnown'
  BY <1>1, <1>4 DEF AgentCommits, ForksKnown, TypeOK, Works
<1>5. ASSUME NEW t \in Tasks, FinishRun(t) PROVE ForksKnown'
  BY <1>2, <1>5 DEF FinishRun, TypeOK, Works
<1>6. ASSUME NEW i \in Integrators, CleanUp(i) PROVE ForksKnown'
  BY <1>2, <1>6 DEF CleanUp
<1>7. ASSUME NEW i \in Integrators, Integrate(i), ~CleanUp(i) PROVE ForksKnown'
  <2>1. UNCHANGED branches
    BY <1>7 DEF Integrate, ListPending, NextTask, ListDone, CheckDiff, CheckClean,
       ReadHead, AddWorktree, SquashMerge, RunTests, CommitSquashed, CheckHead,
       FastForward, RecordMerged, records, Proceed, ReturnForRevisionOrBlock,
       RecordEnd
  <2> QED
    BY <1>2, <2>1 DEF branches
<1>8. ASSUME NEW i \in Integrators, Crash(i) PROVE ForksKnown'
  BY <1>2, <1>8 DEF Crash, records, branches
<1>9. CASE OutsideCommit
  BY <1>2, <1>9 DEF OutsideCommit, branches
<1>10. CASE UNCHANGED vars
  BY <1>2, <1>10 DEF vars, records, branches
<1> QED
  BY <1>3, <1>4, <1>5, <1>6, <1>7, <1>8, <1>9, <1>10 DEF Next

\* The integrator that takes a step: a job ends, or what it read is known.
LEMMA IntegrateJob ==
  ASSUME IInv, MainGrows, main' \in Seq(Commits), NEW i \in Integrators, Integrate(i)
  PROVE  JobInv(i)' /\ tested \subseteq tested'
<1> USE DEF AtPlaces, SrcPlaces, TestedPlaces
<1>0. /\ Len(main) \in Nat /\ Len(main') \in Nat /\ BaseHead \in 1..Len(main)
      /\ JobsInv /\ JobInv(i) /\ TypeOK
  BY DEF IInv, TypeOK, JobsInv, BaseHead
<1>1. ASSUME NEW place \in Places \ AtPlaces, GoTo(i, place)
      PROVE  JobInv(i)'
  BY <1>0, <1>1 DEF JobInv, GoTo, TypeOK
<1>2. CASE ListPending(i) \/ NextTask(i) \/ ListDone(i) \/ ReadHead(i)
  BY <1>1, <1>2 DEF ListPending, NextTask, ListDone, ReadHead, Proceed, Places
<1>3. CASE CheckDiff(i) \/ CheckClean(i) \/ RecordMerged(i) \/ CleanUp(i)
  BY <1>1, <1>3 DEF CheckDiff, CheckClean, RecordMerged, CleanUp, RecordEnd, EndJob,
     Proceed, ReturnForRevisionOrBlock, Places
<1>5. CASE AddWorktree(i)
  BY <1>0, <1>5 DEF AddWorktree, Proceed, records, GoTo, JobInv, TypeOK
<1>6. CASE SquashMerge(i)
  <2>1. CASE ReturnForRevisionOrBlock(i, TRUE)
    BY <1>1, <1>6, <2>1 DEF SquashMerge, ReturnForRevisionOrBlock, EndJob, Places
  <2>2. CASE Proceed(i, "tests") /\ job' = [job EXCEPT ![i].src = work[job[i].task]]
    <3>0. job[i].at \in 1..Len(main) /\ tested' = tested
      BY <1>0, <1>6 DEF SquashMerge, JobInv
    <3>1. job[i].task \in branch
      BY <1>0, <1>6, <2>2 DEF SquashMerge, ReturnForRevisionOrBlock, EndJob, Proceed, GoTo,
         TypeOK
    <3>2. work[job[i].task].fork \in 1..Len(main)
      BY <3>1 DEF IInv, ForksKnown
    <3>3. ipc'[i] = "tests" /\ main' = main
      BY <1>0, <2>2 DEF Proceed, GoTo, records, TypeOK
    <3>4. job'[i].at = job[i].at /\ job'[i].src = work[job[i].task]
      BY <1>0, <2>2 DEF TypeOK, Jobs
    <3> QED
      BY <3>0, <3>2, <3>3, <3>4 DEF JobInv
  <2> QED
    BY <1>6, <2>1, <2>2 DEF SquashMerge
<1>7. CASE RunTests(i)
  <2>1. CASE ReturnForRevisionOrBlock(i, TRUE) /\ tested' = tested
    BY <1>1, <1>7, <2>1 DEF RunTests, ReturnForRevisionOrBlock, EndJob, Places
  <2>2. CASE /\ tested' = tested \cup {[on |-> job[i].at, tree |-> Staged(i)]}
             /\ Proceed(i, "commit") /\ job' = job
    <3>1. ipc'[i] = "commit" /\ main' = main
      BY <1>0, <2>2 DEF Proceed, GoTo, records, TypeOK
    <3>2. Staged(i)' = Staged(i)
      BY <2>2, <3>1 DEF Staged, Squashed, TreeOf
    <3> QED
      BY <1>0, <1>7, <2>2, <3>1, <3>2 DEF RunTests, JobInv
  <2> QED
    BY <1>7, <2>1, <2>2 DEF RunTests
<1>8. CASE CommitSquashed(i) \/ CheckHead(i)
  <2>1. CASE ReturnForRevisionOrBlock(i, FALSE) \/ ReturnForRevisionOrBlock(i, TRUE)
    BY <1>1, <1>8, <2>1 DEF CommitSquashed, CheckHead, ReturnForRevisionOrBlock, EndJob,
       Places
  <2>2. CASE RecordEnd(i, "noop")
    BY <1>1, <1>8, <2>2 DEF CommitSquashed, CheckHead, RecordEnd, Places
  <2>3. ASSUME NEW place \in {"check", "ff"}, Proceed(i, place), job' = job
        PROVE  JobInv(i)' /\ tested \subseteq tested'
    <3>1. ipc'[i] = place /\ main' = main /\ tested' = tested
      BY <1>0, <1>8, <2>3 DEF CommitSquashed, CheckHead, Proceed, GoTo, records, TypeOK
    <3>2. Staged(i)' = Staged(i)
      BY <2>3, <3>1 DEF Staged, Squashed, TreeOf
    <3> QED
      BY <1>0, <1>8, <2>3, <3>1, <3>2 DEF CommitSquashed, CheckHead, JobInv
  <2> QED
    BY <1>8, <2>1, <2>2, <2>3 DEF CommitSquashed, CheckHead
<1>9. CASE FastForward(i)
  BY <1>1, <1>9 DEF FastForward, EndJob, ReturnForRevisionOrBlock, Places
<1> QED
  BY <1>2, <1>3, <1>5, <1>6, <1>7, <1>8, <1>9 DEF Integrate

LEMMA NextJobs ==
  ASSUME IInv, main' \in Seq(Commits), MainGrows, [Next]_vars
  PROVE  JobsInv' /\ tested \subseteq tested'
<1>0. Len(main) \in Nat /\ Len(main') \in Nat /\ JobsInv /\ TypeOK
  BY DEF IInv, TypeOK
<1>1. ASSUME NEW i \in Integrators,
             \A k \in Integrators : k # i => ipc'[k] = ipc[k] /\ job'[k] = job[k],
             JobInv(i)', tested \subseteq tested'
      PROVE  JobsInv'
  BY <1>0, <1>1, JobStays DEF JobsInv
<1>2. ASSUME job' = job, ipc' = ipc, tested' = tested
      PROVE  JobsInv'
  BY <1>0, <1>2, JobStays DEF JobsInv
<1>3. ASSUME NEW i \in Integrators, Integrate(i)
      PROVE  JobsInv' /\ tested \subseteq tested'
  <2>1. JobInv(i)' /\ tested \subseteq tested'
    BY <1>3, IntegrateJob
  <2>2. \A k \in Integrators : k # i => ipc'[k] = ipc[k] /\ job'[k] = job[k]
    BY <1>0, <1>3 DEF Integrate, ListPending, NextTask, ListDone, CheckDiff, CheckClean,
       ReadHead, AddWorktree, SquashMerge, RunTests, CommitSquashed, CheckHead,
       FastForward, RecordMerged, CleanUp, Proceed, ReturnForRevisionOrBlock,
       RecordEnd, EndJob, GoTo, TypeOK
  <2> QED
    BY <1>1, <2>1, <2>2
<1>4. ASSUME NEW i \in Integrators, Crash(i)
      PROVE  JobsInv' /\ tested \subseteq tested'
  <2>1. /\ ipc'[i] = "idle" /\ tested' = tested
        /\ \A k \in Integrators : k # i => ipc'[k] = ipc[k] /\ job'[k] = job[k]
    BY <1>0, <1>4 DEF Crash, GoTo, TypeOK
  <2>2. JobInv(i)'
    BY <2>1 DEF JobInv, AtPlaces, SrcPlaces, TestedPlaces
  <2> QED
    BY <1>1, <2>1, <2>2
<1>5. ASSUME NEW t \in Tasks, StartRun(t) \/ AgentCommits(t) \/ FinishRun(t)
      PROVE  JobsInv' /\ tested \subseteq tested'
  BY <1>2, <1>5 DEF StartRun, AgentCommits, FinishRun
<1>6. CASE OutsideCommit
  BY <1>2, <1>6 DEF OutsideCommit
<1>7. CASE UNCHANGED vars
  BY <1>2, <1>7 DEF vars
<1> QED
  BY <1>3, <1>4, <1>5, <1>6, <1>7 DEF Next

\* Only a fast-forward puts an integrator's commit on the base branch: where its
\* worktree started, with the tree it tested.
LEMMA NextMain ==
  ASSUME IInv, tested \subseteq tested', [Next]_vars
  PROVE  MainIsTested'
<1>0. main \in Seq(Commits) /\ Len(main) > 0 /\ MainIsTested /\ JobsInv
  BY DEF IInv, TypeOK
<1>1. ASSUME main' = main PROVE MainIsTested'
  BY <1>0, <1>1 DEF MainIsTested
<1>2. ASSUME NEW c, main' = Append(main, c),
             c.by # NoTask => [on |-> Len(main), tree |-> c.tree] \in tested
      PROVE  MainIsTested'
  <2> SUFFICES ASSUME NEW n \in 1..Len(main'), main'[n].by # NoTask
               PROVE  [on |-> n - 1, tree |-> main'[n].tree] \in tested
    BY DEF MainIsTested
  <2>1. CASE n \in 1..Len(main)
    BY <1>0, <1>2, <2>1 DEF MainIsTested
  <2>2. CASE n = Len(main) + 1
    BY <1>0, <1>2, <2>2
  <2> QED
    BY <1>0, <1>2, <2>1, <2>2
<1>3. ASSUME NEW i \in Integrators, FastForward(i), main' # main PROVE MainIsTested'
  <2>1. ipc[i] = "ff" /\ BaseHead = job[i].at /\ main' = Append(main, CommitOf(i))
    BY <1>3 DEF FastForward, ReturnForRevisionOrBlock
  <2>2. [on |-> Len(main), tree |-> Staged(i)] \in tested
    BY <1>0, <2>1 DEF JobsInv, JobInv, TestedPlaces, BaseHead
  <2> QED
    BY <1>2, <2>1, <2>2 DEF CommitOf
<1>4. CASE OutsideCommit
  BY <1>2, <1>4 DEF OutsideCommit
<1>5. ASSUME NEW i \in Integrators, Integrate(i), ~FastForward(i) PROVE main' = main
  BY <1>5 DEF Integrate, ListPending, NextTask, ListDone, CheckDiff, CheckClean,
     ReadHead, AddWorktree, SquashMerge, RunTests, CommitSquashed, CheckHead,
     RecordMerged, CleanUp, records, Proceed, ReturnForRevisionOrBlock, RecordEnd
<1>6. ASSUME NEW t \in Tasks, StartRun(t) \/ AgentCommits(t) \/ FinishRun(t)
      PROVE  main' = main
  BY <1>6 DEF StartRun, AgentCommits, FinishRun
<1>7. ASSUME NEW i \in Integrators, Crash(i) PROVE main' = main
  BY <1>7 DEF Crash, records
<1>8. CASE UNCHANGED vars
  BY <1>1, <1>8 DEF vars, records
<1> QED
  BY <1>1, <1>3, <1>4, <1>5, <1>6, <1>7, <1>8 DEF Next

LEMMA IInvInit == Init => IInv
<1> SUFFICES ASSUME Init PROVE IInv
  OBVIOUS
<1>1. NoWork \in Works /\ NoJob \in Jobs
  BY BoundsAssumption DEF Jobs, NoJob, NoWork, Works, Trees
<1>2. TypeOK
  <2>1. main \in Seq(Commits) /\ Len(main) > 0
    BY DEF Init, Commits, Trees
  <2>2. round \in [Tasks -> 0..MaxRevisionRounds]
    BY BoundsAssumption DEF Init
  <2> QED
    BY <1>1, <2>1, <2>2 DEF Init, TypeOK, Places, Statuses
<1>3. ForksKnown /\ JobsInv
  BY DEF Init, ForksKnown, JobsInv, JobInv, AtPlaces, SrcPlaces, TestedPlaces
<1>4. MainIsTested
  BY DEF Init, MainIsTested
<1> QED
  BY <1>2, <1>3, <1>4 DEF IInv

LEMMA IInvStep == IInv /\ [Next]_vars => IInv'
<1> SUFFICES ASSUME IInv, [Next]_vars PROVE IInv'
  OBVIOUS
<1>1. main' \in Seq(Commits) /\ Len(main') > 0 /\ MainGrows
  BY NextGrows DEF IInv
<1> QED
  BY <1>1, NextType, NextForks, NextJobs, NextMain DEF IInv

LEMMA IInvHolds == Spec => []IInv
<1> QED
  BY IInvInit, IInvStep, PTL DEF Spec

\* Every variable keeps its type; in particular no record has more rounds than
\* integration.max_revision_rounds allows.
THEOREM TypeCorrect == Spec => []TypeOK
<1>1. IInv => TypeOK
  BY DEF IInv
<1> QED
  BY <1>1, IInvHolds, PTL

\* Whatever integrate_task puts on the base branch passed the tests with that
\* tree on that parent, for any number of integrators and outside commits.
THEOREM MainTested == Spec => []MainIsTested
<1>1. IInv => MainIsTested
  BY DEF IInv
<1> QED
  BY <1>1, IInvHolds, PTL

\* An integrator that leaves "ff" for "record" has put its merge on the head.
LEMMA RecordAfterFastForward ==
  ASSUME IInv, [Next]_vars, NEW i \in Integrators, ipc[i] = "ff", ipc'[i] = "record"
  PROVE  BaseHead = job[i].at /\ main' = Append(main, CommitOf(i))
<1>0. TypeOK
  BY DEF IInv
<1>1. CASE FastForward(i)
  BY <1>0, <1>1 DEF FastForward, ReturnForRevisionOrBlock, EndJob, GoTo, TypeOK
<1>2. ASSUME NEW k \in Integrators, Integrate(k), ~FastForward(i) PROVE FALSE
  BY <1>0, <1>2 DEF Integrate, ListPending, NextTask, ListDone, CheckDiff, CheckClean,
     ReadHead, AddWorktree, SquashMerge, RunTests, CommitSquashed, CheckHead,
     FastForward, RecordMerged, CleanUp, Proceed, ReturnForRevisionOrBlock,
     RecordEnd, EndJob, GoTo, TypeOK
<1>3. ASSUME NEW k \in Integrators, Crash(k) PROVE FALSE
  BY <1>0, <1>3 DEF Crash, GoTo, TypeOK
<1>4. ASSUME NEW t \in Tasks, StartRun(t) \/ AgentCommits(t) \/ FinishRun(t) PROVE FALSE
  BY <1>4 DEF StartRun, AgentCommits, FinishRun
<1>5. CASE OutsideCommit
  BY <1>5 DEF OutsideCommit
<1>6. CASE UNCHANGED vars
  BY <1>6 DEF vars
<1> QED
  BY <1>1, <1>2, <1>3, <1>4, <1>5, <1>6 DEF Next

\* A fast-forward leaves every file alone that the task's branch left alone,
\* whatever was committed since the branch was forked.
THEOREM OthersKept == Spec => OthersWorkIsKept
<1>1. ASSUME IInv, [Next]_vars, NEW i \in Integrators, ipc[i] = "ff", ipc'[i] = "record",
             NEW f \in Files,
             f \in job[i].src.tree <=> f \in TreeOf(job[i].src.fork)
      PROVE  f \in TreeOf(BaseHead) <=> f \in main'[Len(main')].tree
  <2>1. BaseHead = job[i].at /\ main' = Append(main, CommitOf(i))
    BY <1>1, RecordAfterFastForward
  <2>2. main'[Len(main')] = CommitOf(i)
    BY <1>1, <2>1 DEF IInv, TypeOK
  <2>3. main'[Len(main')].tree = Staged(i)
    BY <2>2 DEF CommitOf
  <2> QED
    BY <1>1, <2>1, <2>3 DEF Staged, Squashed, Merge
<1>2. IInv /\ [Next]_vars =>
        [\A i \in Integrators : (ipc[i] = "ff" /\ ipc'[i] = "record") =>
           LET w == job[i].src IN
           \A f \in Files : (f \in w.tree <=> f \in TreeOf(w.fork)) =>
             (f \in TreeOf(BaseHead) <=> f \in main'[Len(main')].tree)]_vars
  BY <1>1
<1> QED
  BY <1>2, IInvHolds, PTL DEF Spec, OthersWorkIsKept
=============================================================================
