-------------------------- MODULE DaemonLockProofs --------------------------
(***************************************************************************)
(* Proofs about DaemonLock for any number of processes and commands: until *)
(* starts overlap, the lock file admits one runner at a time and the       *)
(* protocol implements SingleRunner; what the two files name is right      *)
(* however they overlap.                                                   *)
(***************************************************************************)
EXTENDS DaemonLock, TLAPS

\* Until starts overlap: one process acquires; a runner's pid is in the file;
\* nobody runs when the file is about to be replaced or was just made.
OneAcquires == \A p, q \in Procs : (pc[p] \in Acquiring /\ pc[q] \in Acquiring) => p = q
SawTheRunner ==
  \A p \in Procs :
    /\ pc[p] = "check"  => \A q \in runners : saw[p] = q
    /\ pc[p] = "unlink" => runners = {}
    /\ pc[p] = "write"  => runners = {} /\ lockFile = p
OwnsLock == \A p \in runners : lockFile = p /\ p \in written
Serial == OneAcquires /\ OwnsLock /\ SawTheRunner

\* However starts overlap: the lock file is that of a process on its way to
\* or from the root, or dead; the pid file is that of a daemon which is
\* between writing and removing it, or dead.
FilesNameRunners ==
  /\ lockFile # NoProc =>
       /\ pc[lockFile] \in {"write", "dead"} \cup Holding
       /\ pc[lockFile] \in Holding => lockFile \in written
  /\ pidFile # NoProc =>
       pidFile \notin Batch /\ pc[pidFile] \in {"starting", "up", "unpid", "unlinkpid", "dead"}
  /\ \A p \in Batch : pc[p] # "pidfile"

LockInv == TypeOK /\ FilesNameRunners /\ (~overlapped => Serial)

LEMMA LockTypeOK == TypeOK /\ [Next]_vars => TypeOK'
<1> SUFFICES ASSUME TypeOK, [Next]_vars PROVE TypeOK'
  OBVIOUS
<1> USE ProcsAssumption
    DEF TypeOK, GoTo, Live, Acquiring, Holding, Running, Leaving, files, clis, env
<1>1. ASSUME NEW p \in Procs, Acquire(p) PROVE TypeOK'
  <2>1. CASE CreateLock(p)
    BY <2>1 DEF CreateLock
  <2>2. CASE GiveUp(p)
    BY <2>2 DEF GiveUp
  <2>3. CASE ReadPid(p)
    BY <2>3 DEF ReadPid
  <2>4. CASE CheckPid(p)
    BY <2>4 DEF CheckPid
  <2>5. CASE UnlinkStale(p)
    BY <2>5 DEF UnlinkStale
  <2>6. CASE WriteLock(p)
    BY <2>6 DEF WriteLock
  <2> QED
    BY <1>1, <2>1, <2>2, <2>3, <2>4, <2>5, <2>6 DEF Acquire
<1>2. ASSUME NEW p \in Procs, Release(p) PROVE TypeOK'
  BY <1>2 DEF Release, RereadPidFile, RemovePidFile, RereadLock, ReleaseLock
<1>3. ASSUME NEW p \in Procs, Start(p) \/ WritePidFile(p) \/ InstallSignalHandlers(p) \/ Finish(p)
      PROVE TypeOK'
  BY <1>3 DEF Start, WritePidFile, InstallSignalHandlers, Finish
<1>4. ASSUME NEW p \in Procs, Die(p) \/ ReusePid(p) PROVE TypeOK'
  BY <1>4 DEF Die, ReusePid
<1>5. ASSUME NEW c \in Clis, Command(c) PROVE TypeOK'
  <2>1. CASE TermDaemon(c)
    BY <2>1 DEF TermDaemon, CliDone
  <2>2. CASE ~TermDaemon(c)
    BY <1>5, <2>2 DEF Command, ReadDaemonPid, RemoveStalePidFile, AlreadyRunning, CliDone
  <2> QED
    BY <2>1, <2>2
<1>6. CASE UNCHANGED vars
  BY <1>6 DEF vars
<1> QED
  BY <1>1, <1>2, <1>3, <1>4, <1>5, <1>6 DEF Next, Process

LEMMA LockSerial ==
  ASSUME ~overlapped', TypeOK, Serial, [Next]_vars
  PROVE  Serial'
<1> USE ProcsAssumption
    DEF Serial, OneAcquires, OwnsLock, SawTheRunner, runners, TypeOK, GoTo, Live,
        Acquiring, Holding, Running, Leaving, files, clis, env
<1>1. ASSUME NEW p \in Procs, Acquire(p) PROVE Serial'
  <2>1. CASE CreateLock(p)
    BY <2>1 DEF CreateLock
  <2>2. CASE GiveUp(p)
    BY <2>2 DEF GiveUp
  <2>3. CASE ReadPid(p)
    BY <2>3 DEF ReadPid
  <2>4. CASE CheckPid(p)
    BY <2>4 DEF CheckPid, PidIsRunning
  <2>5. CASE UnlinkStale(p)
    BY <2>5 DEF UnlinkStale
  <2>6. CASE WriteLock(p)
    BY <2>6 DEF WriteLock
  <2> QED
    BY <1>1, <2>1, <2>2, <2>3, <2>4, <2>5, <2>6 DEF Acquire
<1>2. ASSUME NEW p \in Procs, Release(p) PROVE Serial'
  BY <1>2 DEF Release, RereadPidFile, RemovePidFile, RereadLock, ReleaseLock
<1>3. ASSUME NEW p \in Procs, Start(p) \/ WritePidFile(p) \/ InstallSignalHandlers(p) \/ Finish(p)
      PROVE Serial'
  <2>1. CASE Start(p)
    <3>1. \A q \in Procs : pc[q] \notin Acquiring
      BY <2>1 DEF Start
    <3>2. pc' = [pc EXCEPT ![p] = "create"] /\ UNCHANGED <<lockFile, written, saw>>
      BY <2>1 DEF Start
    <3>3. runners' = runners
      BY <2>1, <3>2 DEF Start
    <3> QED
      BY <3>1, <3>2, <3>3
  <2>2. CASE ~Start(p)
    BY <1>3, <2>2 DEF WritePidFile, InstallSignalHandlers, Finish
  <2> QED
    BY <2>1, <2>2
<1>4. ASSUME NEW p \in Procs, Die(p) \/ ReusePid(p) PROVE Serial'
  BY <1>4 DEF Die, ReusePid
<1>5. ASSUME NEW c \in Clis, Command(c) PROVE Serial'
  <2>1. CASE TermDaemon(c)
    BY <2>1 DEF TermDaemon, CliDone
  <2>2. CASE ~TermDaemon(c)
    BY <1>5, <2>2 DEF Command, ReadDaemonPid, RemoveStalePidFile, AlreadyRunning, CliDone
  <2> QED
    BY <2>1, <2>2
<1>6. CASE UNCHANGED vars
  BY <1>6 DEF vars
<1> QED
  BY <1>1, <1>2, <1>3, <1>4, <1>5, <1>6 DEF Next, Process

LEMMA LockFiles == TypeOK /\ FilesNameRunners /\ [Next]_vars => FilesNameRunners'
<1> SUFFICES ASSUME TypeOK, FilesNameRunners, [Next]_vars PROVE FilesNameRunners'
  OBVIOUS
<1> USE ProcsAssumption
    DEF FilesNameRunners, TypeOK, GoTo, Live, Acquiring, Holding, Running, Leaving,
        files, clis, env
<1>1. ASSUME NEW p \in Procs, Acquire(p) PROVE FilesNameRunners'
  <2>1. CASE CreateLock(p)
    BY <2>1 DEF CreateLock
  <2>2. CASE WriteLock(p)
    BY <2>2 DEF WriteLock
  <2>3. CASE UnlinkStale(p)
    BY <2>3 DEF UnlinkStale
  <2> QED
    BY <1>1, <2>1, <2>2, <2>3 DEF Acquire, GiveUp, ReadPid, CheckPid
<1>2. ASSUME NEW p \in Procs, Release(p) PROVE FilesNameRunners'
  BY <1>2 DEF Release, RereadPidFile, RemovePidFile, RereadLock, ReleaseLock
<1>3. ASSUME NEW p \in Procs, Start(p) \/ WritePidFile(p) \/ InstallSignalHandlers(p) \/ Finish(p)
      PROVE FilesNameRunners'
  BY <1>3 DEF Start, WritePidFile, InstallSignalHandlers, Finish
<1>4. ASSUME NEW p \in Procs, Die(p) \/ ReusePid(p) PROVE FilesNameRunners'
  BY <1>4 DEF Die, ReusePid
<1>5. ASSUME NEW c \in Clis, Command(c) PROVE FilesNameRunners'
  <2>1. CASE TermDaemon(c)
    BY <2>1 DEF TermDaemon, CliDone
  <2>2. CASE ~TermDaemon(c)
    BY <1>5, <2>2 DEF Command, ReadDaemonPid, RemoveStalePidFile, AlreadyRunning, CliDone
  <2> QED
    BY <2>1, <2>2
<1>6. CASE UNCHANGED vars
  BY <1>6 DEF vars
<1> QED
  BY <1>1, <1>2, <1>3, <1>4, <1>5, <1>6 DEF Next, Process

\* Starts that have overlapped stay so.
LEMMA OverlapStays == TypeOK /\ overlapped /\ [Next]_vars => overlapped'
BY DEF Next, Process, Acquire, Release, Command, Start, CreateLock, GiveUp, ReadPid, CheckPid,
       UnlinkStale, WriteLock, WritePidFile, InstallSignalHandlers, Finish, RereadPidFile,
       RemovePidFile, RereadLock, ReleaseLock, ReadDaemonPid, RemoveStalePidFile,
       AlreadyRunning, TermDaemon, Die, ReusePid, env, vars

LEMMA LockInvariant == Spec => []LockInv
<1>1. Init => LockInv
  <2> SUFFICES ASSUME Init PROVE LockInv
    OBVIOUS
  <2> USE ProcsAssumption DEF Init, Acquiring, Holding, Running, Leaving
  <2>1. TypeOK
    <3>1. overlapped \in BOOLEAN
      BY Zenon
    <3> QED
      BY <3>1 DEF TypeOK, Live
  <2>2. FilesNameRunners
    BY DEF FilesNameRunners
  <2>3. Serial
    BY DEF Serial, OneAcquires, OwnsLock, SawTheRunner, runners
  <2> QED
    BY <2>1, <2>2, <2>3 DEF LockInv
<1>2. LockInv /\ [Next]_vars => LockInv'
  <2> SUFFICES ASSUME LockInv, [Next]_vars PROVE LockInv'
    OBVIOUS
  <2>1. TypeOK' /\ FilesNameRunners'
    BY LockTypeOK, LockFiles DEF LockInv
  <2>2. ASSUME ~overlapped' PROVE Serial'
    BY <2>2, LockSerial, OverlapStays DEF LockInv
  <2> QED
    BY <2>1, <2>2 DEF LockInv
<1> QED
  BY <1>1, <1>2, PTL DEF Spec

\* The variables hold values of their types.
THEOREM LockTypes == Spec => []TypeOK
<1>1. LockInv => TypeOK
  BY DEF LockInv
<1> QED
  BY <1>1, LockInvariant, PTL

\* Until starts overlap, at most one process runs the root: the pid of the one
\* that does is in the file, and a start that reads it stops.
THEOREM LockExcludes == Spec => [](~overlapped => MutualExclusion)
<1>1. LockInv => (~overlapped => MutualExclusion)
  BY DEF LockInv, Serial, OwnsLock, MutualExclusion
<1> QED
  BY <1>1, LockInvariant, PTL

\* ... and its pid stays in the file until it has left.
THEOREM HolderIsRecorded == Spec => []HolderOwnsLock
<1>1. LockInv => HolderOwnsLock
  BY DEF LockInv, Serial, OwnsLock, HolderOwnsLock
<1> QED
  BY <1>1, LockInvariant, PTL

\* The pid file only names a process that has, or died with, the lock.
THEOREM StopFindsRunner == Spec => []PidFileNamesRunner
<1>1. LockInv => PidFileNamesRunner
  BY DEF LockInv, FilesNameRunners, PidFileNamesRunner, Holding, Running, Leaving
<1> QED
  BY <1>1, LockInvariant, PTL

\* A lock file left behind is that of a process that died.
THEOREM StaleLockIsDead == Spec => []LeftoverIsStale
<1>1. LockInv => LeftoverIsStale
  BY DEF LockInv, FilesNameRunners, LeftoverIsStale, TypeOK, Live, Acquiring
<1> QED
  BY <1>1, LockInvariant, PTL

\* Until starts overlap a step enters when nobody runs, leaves, or is a stutter.
LEMMA SerialStep ==
  ASSUME ~overlapped, ~overlapped', LockInv, [Next]_vars
  PROVE  [Promise!Next]_soleRunners
<1> USE DEF runners, soleRunners, Holding, Running, Leaving, GoTo
<1>1. TypeOK /\ Serial
  BY DEF LockInv
<1>2. \A p \in runners : runners = {p}
  BY <1>1 DEF Serial, OwnsLock
<1>3. ASSUME NEW p \in Procs, WriteLock(p) PROVE Promise!Enter(p)
  <2>1. runners = {} /\ p \notin runners
    BY <1>1, <1>3 DEF WriteLock, Serial, SawTheRunner
  <2>2. runners' = {p}
    BY <1>1, <1>3, <2>1 DEF WriteLock, TypeOK
  <2> QED
    BY <2>1, <2>2 DEF Promise!Enter
<1>4. ASSUME NEW p \in Procs, NEW place, GoTo(p, place), p \in runners, place \notin Holding
      PROVE  Promise!Leave(p)
  BY <1>1, <1>2, <1>4 DEF Promise!Leave, TypeOK
<1>5. ASSUME NEW p \in Procs, NEW place, GoTo(p, place), p \in runners <=> place \in Holding
      PROVE  UNCHANGED soleRunners
  BY <1>1, <1>5 DEF TypeOK
<1>6. ASSUME NEW p \in Procs, Acquire(p) PROVE [Promise!Next]_soleRunners
  <2>1. CASE WriteLock(p)
    BY <1>3, <2>1 DEF Promise!Next
  <2>2. CASE ~WriteLock(p)
    BY <1>1, <1>5, <1>6, <2>2
    DEF Acquire, CreateLock, GiveUp, ReadPid, CheckPid, UnlinkStale, TypeOK
  <2> QED
    BY <2>1, <2>2
<1>7. ASSUME NEW p \in Procs, Release(p) PROVE [Promise!Next]_soleRunners
  <2>1. p \in runners
    BY <1>7 DEF Release, RereadPidFile, RemovePidFile, RereadLock, ReleaseLock
  <2>2. PICK place : GoTo(p, place)
    BY <1>7 DEF Release, RereadPidFile, RemovePidFile, RereadLock, ReleaseLock
  <2> QED
    BY <1>4, <1>5, <2>1, <2>2 DEF Promise!Next
<1>8. ASSUME NEW p \in Procs, Die(p) PROVE [Promise!Next]_soleRunners
  BY <1>4, <1>5, <1>8 DEF Die, Promise!Next
<1>9. ASSUME NEW p \in Procs,
             Start(p) \/ WritePidFile(p) \/ InstallSignalHandlers(p) \/ Finish(p) \/ ReusePid(p)
      PROVE  UNCHANGED soleRunners
  BY <1>1, <1>9 DEF Start, WritePidFile, InstallSignalHandlers, Finish, ReusePid, TypeOK
<1>10. ASSUME NEW c \in Clis, Command(c) PROVE [Promise!Next]_soleRunners
  <2>1. CASE TermDaemon(c)
    <3>1. csaw[c] \in Procs \/ csaw[c] = NoProc
      BY <1>1, <1>10 DEF TypeOK
    <3> QED
      BY <1>1, <1>4, <1>5, <2>1, <3>1 DEF TermDaemon, Promise!Next, TypeOK
  <2>2. CASE ~TermDaemon(c)
    BY <1>10, <2>2 DEF Command, ReadDaemonPid, RemoveStalePidFile, AlreadyRunning
  <2> QED
    BY <2>1, <2>2
<1>11. CASE UNCHANGED vars
  BY <1>11 DEF vars
<1> QED
  BY <1>6, <1>7, <1>8, <1>9, <1>10, <1>11 DEF Next, Process

\* The first overlap ends the promise: who runs then counts as having left.
LEMMA OverlapStep ==
  ASSUME overlapped', LockInv, [Next]_vars
  PROVE  [Promise!Next]_soleRunners
<1>1. CASE overlapped
  BY <1>1 DEF soleRunners
<1>2. CASE ~overlapped /\ soleRunners = {}
  BY <1>2 DEF soleRunners
<1>3. CASE ~overlapped /\ soleRunners # {}
  <2>1. PICK p \in Procs : soleRunners = {p}
    BY <1>3 DEF soleRunners, runners, LockInv, Serial, OwnsLock
  <2>2. soleRunners' = {}
    BY DEF soleRunners
  <2> QED
    BY <2>1, <2>2 DEF Promise!Next, Promise!Leave
<1> QED
  BY <1>1, <1>2, <1>3

\* Until starts overlap, the lock protocol implements SingleRunner.
THEOREM LockImplementsSingleRunner == Spec => LockKeepsPromise
<1>1. Init => Promise!Init
  BY DEF Init, Promise!Init, soleRunners, runners, Holding, Running, Leaving
<1>2. LockInv /\ [Next]_vars => [Promise!Next]_soleRunners
  BY SerialStep, OverlapStep, OverlapStays DEF LockInv
<1> QED
  BY <1>1, <1>2, LockInvariant, PTL DEF Spec, LockKeepsPromise, Promise!Spec

(***************************************************************************)
(* Who is refused                                                          *)
(***************************************************************************)
\* No process reads its own pid; and until starts overlap, nobody makes the
\* file again that a start has removed, so that its second attempt succeeds.
SawAnother == \A p \in Procs : saw[p] # p
SecondAttempt ==
  \A p \in Procs :
    /\ pc[p] = "off" => attempt[p] = 0
    /\ pc[p] \in {"read", "check", "unlink"} => attempt[p] = 1
    /\ pc[p] = "create" => attempt[p] = 0 \/ (attempt[p] = 1 /\ lockFile = NoProc)
RefusalInv == SawAnother /\ (~overlapped => SecondAttempt)

LEMMA NextSawAnother == LockInv /\ SawAnother /\ [Next]_vars => SawAnother'
<1> SUFFICES ASSUME LockInv, SawAnother, [Next]_vars PROVE SawAnother'
  OBVIOUS
<1>0. TypeOK /\ FilesNameRunners
  BY DEF LockInv
<1>1. ASSUME NEW p \in Procs, ReadPid(p) PROVE SawAnother'
  BY <1>0, <1>1, ProcsAssumption
  DEF ReadPid, SawAnother, FilesNameRunners, TypeOK, Holding, Running, Leaving
<1>2. ASSUME saw' = saw PROVE SawAnother'
  BY <1>2 DEF SawAnother
<1> QED
  BY <1>1, <1>2 DEF Next, Process, Acquire, Release, Command, Start, CreateLock, GiveUp,
     CheckPid, UnlinkStale, WriteLock, WritePidFile, InstallSignalHandlers, Finish,
     RereadPidFile, RemovePidFile, RereadLock, ReleaseLock, ReadDaemonPid,
     RemoveStalePidFile, AlreadyRunning, TermDaemon, Die, ReusePid, vars

LEMMA NextSecondAttempt ==
  ASSUME TypeOK, Serial, SecondAttempt, ~overlapped', [Next]_vars
  PROVE  SecondAttempt'
<1> USE ProcsAssumption DEF SecondAttempt, Serial, OneAcquires, TypeOK, GoTo, Acquiring, files, env
<1>1. ASSUME NEW p \in Procs, Start(p) PROVE SecondAttempt'
  BY <1>1 DEF Start
<1>2. ASSUME NEW p \in Procs, Acquire(p) PROVE SecondAttempt'
  <2>1. CASE CreateLock(p)
    BY <2>1 DEF CreateLock
  <2>2. CASE GiveUp(p) \/ ReadPid(p) \/ CheckPid(p)
    BY <2>2 DEF GiveUp, ReadPid, CheckPid
  <2>3. CASE UnlinkStale(p)
    BY <2>3 DEF UnlinkStale
  <2>4. CASE WriteLock(p)
    BY <2>4 DEF WriteLock
  <2> QED
    BY <1>2, <2>1, <2>2, <2>3, <2>4 DEF Acquire
<1>3. ASSUME NEW p \in Procs, Release(p) PROVE SecondAttempt'
  BY <1>3 DEF Release, RereadPidFile, RemovePidFile, RereadLock, ReleaseLock
<1>4. ASSUME NEW p \in Procs, WritePidFile(p) \/ InstallSignalHandlers(p) \/ Finish(p)
      PROVE  SecondAttempt'
  BY <1>4 DEF WritePidFile, InstallSignalHandlers, Finish
<1>5. ASSUME NEW p \in Procs, Die(p) \/ ReusePid(p) PROVE SecondAttempt'
  BY <1>5 DEF Die, ReusePid
<1>6. ASSUME NEW c \in Clis, Command(c) PROVE SecondAttempt'
  <2>1. CASE TermDaemon(c)
    BY <2>1 DEF TermDaemon, Holding, Running, Leaving
  <2>2. CASE ~TermDaemon(c)
    BY <1>6, <2>2 DEF Command, ReadDaemonPid, RemoveStalePidFile, AlreadyRunning
  <2> QED
    BY <2>1, <2>2
<1>7. CASE UNCHANGED vars
  BY <1>7 DEF vars
<1> QED
  BY <1>1, <1>2, <1>3, <1>4, <1>5, <1>6, <1>7 DEF Next, Process

LEMMA RefusalInvariant == Spec => []RefusalInv
<1>1. Init => RefusalInv
  BY ProcsAssumption DEF Init, RefusalInv, SawAnother, SecondAttempt
<1>2. LockInv /\ RefusalInv /\ [Next]_vars => RefusalInv'
  <2> SUFFICES ASSUME LockInv, RefusalInv, [Next]_vars PROVE RefusalInv'
    OBVIOUS
  <2>1. SawAnother'
    BY NextSawAnother DEF RefusalInv
  <2>2. ASSUME ~overlapped' PROVE SecondAttempt'
    BY <2>2, NextSecondAttempt, OverlapStays DEF LockInv, RefusalInv
  <2> QED
    BY <2>1, <2>2 DEF RefusalInv
<1> QED
  BY <1>1, <1>2, LockInvariant, PTL DEF Spec

\* Until starts overlap, a start is refused by a runner or by a program that
\* has the pid of a dead one, never by the leftover of a killed runner itself,
\* nor for having run out of attempts.
THEOREM RefusalHasReason == Spec => RefusedMeansOccupied
<1> DEFINE Reason == ~overlapped => \A p \in Procs :
             (pc[p] # "refused" /\ pc'[p] = "refused") => saw[p] \in runners \cup reused
<1>1. ASSUME LockInv, RefusalInv, [Next]_vars, ~overlapped, NEW p \in Procs,
             pc[p] # "refused", pc'[p] = "refused"
      PROVE  saw[p] \in runners \cup reused
  <2>0. TypeOK /\ OneAcquires /\ SawAnother /\ SecondAttempt
    BY <1>1 DEF LockInv, RefusalInv, Serial
  <2>1. GiveUp(p) \/ CheckPid(p)
    <3>1. ASSUME NEW q \in Procs, Process(q), ~GiveUp(p), ~CheckPid(p) PROVE FALSE
      BY <1>1, <2>0, <3>1
      DEF Process, Acquire, Release, Start, CreateLock, GiveUp, ReadPid, CheckPid, UnlinkStale,
          WriteLock, WritePidFile, InstallSignalHandlers, Finish, RereadPidFile, RemovePidFile,
          RereadLock, ReleaseLock, Die, ReusePid, GoTo, TypeOK
    <3>2. ASSUME NEW c \in Clis, Command(c) PROVE FALSE
      BY <1>1, <2>0, <3>2
      DEF Command, ReadDaemonPid, RemoveStalePidFile, AlreadyRunning, TermDaemon, TypeOK
    <3> QED
      BY <1>1, <3>1, <3>2 DEF Next, vars
  <2>2. ~GiveUp(p)
    BY <2>0 DEF GiveUp, SecondAttempt
  <2>3. pc[p] = "check" /\ saw[p] \in Procs /\ PidIsRunning(saw[p])
    BY <1>1, <2>0, <2>1, <2>2 DEF CheckPid, GoTo, TypeOK
  <2>4. pc[saw[p]] \notin Acquiring
    BY <2>0, <2>3 DEF OneAcquires, SawAnother, Acquiring
  <2> QED
    BY <2>3, <2>4 DEF PidIsRunning, Live, runners
<1>2. LockInv /\ RefusalInv /\ [Next]_vars => [Reason]_vars
  BY <1>1
<1> QED
  BY <1>2, LockInvariant, RefusalInvariant, PTL DEF Spec, RefusedMeansOccupied
=============================================================================
