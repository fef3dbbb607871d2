----------------------------- MODULE DaemonLock -----------------------------
(***************************************************************************)
(* Who may run a root: DaemonLock (.alluvium/daemon.lock) and the pid file *)
(* that `stop-daemon` and `daemon` go by.                                  *)
(*                                                                         *)
(* Each process starts at most once, so a process stands for a pid.  The   *)
(* lock file is named by its creator, and holds the creator's pid once     *)
(* that has been written: between os.open(O_EXCL) and the write it is      *)
(* empty.  Every look at a file or at a process is a step of its own.      *)
(***************************************************************************)
EXTENDS Naturals, FiniteSets

CONSTANTS
  Procs,        \* processes that may run the root: daemon, serve and run-once
  Batch,        \* those of them that are run-once: they write no pid file
  Clis,         \* stop-daemon and daemon commands looking at the pid file
  NoProc,       \* no process, no file
  MaxReused     \* bound on pids of dead processes given to other programs

ASSUME ProcsAssumption == NoProc \notin Procs /\ Batch \subseteq Procs
ASSUME BoundAssumption == MaxReused \in Nat

VARIABLES
  lockFile,  \* creator of the file at lock_path, NoProc without one
  written,   \* creators whose file holds their pid
  pidFile,   \* pid in pid_path, NoProc without one
  pc, saw, attempt,  \* per process: place, pid read from the lock, tries
  cpc, csaw,         \* per CLI command: place, pid read from pid_path
  reused,    \* pids of dead processes that other programs have now
  overlapped \* has a process started while another was in acquire?

files == <<lockFile, written, pidFile>>
clis  == <<cpc, csaw>>
env   == <<reused, overlapped>>
vars  == <<files, pc, saw, attempt, clis, env>>

Acquiring == {"create", "read", "check", "unlink", "write"}
Running   == {"pidfile", "starting", "up"}
Leaving   == {"unpid", "unlinkpid", "reread", "release"}
Holding   == Running \cup Leaving
Live      == Acquiring \cup Holding

TypeOK ==
  /\ lockFile \in Procs \cup {NoProc}
  /\ written \in SUBSET Procs
  /\ pidFile \in Procs \cup {NoProc}
  /\ pc \in [Procs -> {"off", "refused", "ended", "dead"} \cup Live]
  /\ saw \in [Procs -> Procs \cup {NoProc}]
  /\ attempt \in [Procs -> 0..2]
  /\ cpc \in [Clis -> {"idle", "seen"}]
  /\ csaw \in [Clis -> Procs \cup {NoProc}]
  /\ reused \in SUBSET Procs
  /\ overlapped \in BOOLEAN

\* pid_is_running: the process, or whatever has its pid now.
PidIsRunning(p) == pc[p] \in Live \/ p \in reused

GoTo(p, place) == pc' = [pc EXCEPT ![p] = place]

Init ==
  /\ lockFile = NoProc /\ written = {} /\ pidFile = NoProc
  /\ pc = [p \in Procs |-> "off"]
  /\ saw = [p \in Procs |-> NoProc]
  /\ attempt = [p \in Procs |-> 0]
  /\ cpc = [c \in Clis |-> "idle"]
  /\ csaw = [c \in Clis |-> NoProc]
  /\ reused = {}
  /\ overlapped = FALSE

(***************************************************************************)
(* DaemonLock.acquire                                                      *)
(***************************************************************************)
Start(p) ==
  /\ pc[p] = "off"
  /\ GoTo(p, "create")
  /\ overlapped' = (overlapped \/ \E q \in Procs : pc[q] \in Acquiring)
  /\ UNCHANGED <<files, saw, attempt, clis, reused>>

\* Mutants: the flag O_EXCL is missing; the attempts are not bounded.
CreateLockOpen(p) ==
  /\ pc[p] = "create"
  /\ attempt[p] < 2
  /\ attempt' = [attempt EXCEPT ![p] = @ + 1]
  /\ lockFile' = p
  /\ GoTo(p, "write")
  /\ UNCHANGED <<written, pidFile, saw, clis, env>>
CreateLockAgain(p) ==
  /\ pc[p] = "create"
  /\ attempt' = [attempt EXCEPT ![p] = @ + 1]
  /\ \/ lockFile = NoProc /\ lockFile' = p /\ GoTo(p, "write")
     \/ lockFile # NoProc /\ lockFile' = lockFile /\ GoTo(p, "read")
  /\ UNCHANGED <<written, pidFile, saw, clis, env>>

\* os.open(O_CREAT | O_EXCL) makes an empty file, unless there is one.
CreateLock(p) ==
  /\ pc[p] = "create"
  /\ attempt[p] < 2
  /\ attempt' = [attempt EXCEPT ![p] = @ + 1]
  /\ \/ /\ lockFile = NoProc
        /\ lockFile' = p
        /\ GoTo(p, "write")
     \/ /\ lockFile # NoProc
        /\ lockFile' = lockFile
        /\ GoTo(p, "read")
  /\ UNCHANGED <<written, pidFile, saw, clis, env>>

\* The loop has run out of attempts.
GiveUp(p) ==
  /\ pc[p] = "create"
  /\ attempt[p] = 2
  /\ GoTo(p, "refused")
  /\ UNCHANGED <<files, saw, attempt, clis, env>>

\* Mutant: a file without a pid counts as nothing, and is left alone.
ReadFails(p) ==
  /\ pc[p] = "read"
  /\ saw' = [saw EXCEPT ![p] = IF lockFile \in written THEN lockFile ELSE NoProc]
  /\ GoTo(p, IF lockFile \in written THEN "check" ELSE "refused")
  /\ UNCHANGED <<files, attempt, clis, env>>

\* _read_pid: no file, or one without a pid yet, reads as None.
ReadPid(p) ==
  /\ pc[p] = "read"
  /\ saw' = [saw EXCEPT ![p] = IF lockFile \in written THEN lockFile ELSE NoProc]
  /\ GoTo(p, "check")
  /\ UNCHANGED <<files, attempt, clis, env>>

\* Mutant: the recorded pid is not looked up.
CheckPidBlindly(p) ==
  /\ pc[p] = "check"
  /\ GoTo(p, "unlink")
  /\ UNCHANGED <<files, saw, attempt, clis, env>>

CheckPid(p) ==
  /\ pc[p] = "check"
  /\ GoTo(p, IF saw[p] # NoProc /\ PidIsRunning(saw[p]) THEN "refused" ELSE "unlink")
  /\ UNCHANGED <<files, saw, attempt, clis, env>>

\* The stale file goes, or whatever file is there by now.
UnlinkStale(p) ==
  /\ pc[p] = "unlink"
  /\ lockFile' = NoProc
  /\ written' = written \ {lockFile}
  /\ GoTo(p, "create")
  /\ UNCHANGED <<pidFile, saw, attempt, clis, env>>

\* The payload goes to the file p opened, which may no longer be at lock_path.
WriteLock(p) ==
  /\ pc[p] = "write"
  /\ written' = IF lockFile = p THEN written \cup {p} ELSE written
  /\ GoTo(p, IF p \in Batch THEN "up" ELSE "pidfile")
  /\ UNCHANGED <<lockFile, pidFile, saw, attempt, clis, env>>

(***************************************************************************)
(* AlluviumDaemon.run and run_once, as far as the two files go             *)
(***************************************************************************)
WritePidFile(p) ==
  /\ pc[p] = "pidfile"
  /\ pidFile' = p
  /\ GoTo(p, "starting")
  /\ UNCHANGED <<lockFile, written, saw, attempt, clis, env>>

\* Reconciliation is done: the handlers of SIGTERM and SIGINT are installed.
InstallSignalHandlers(p) ==
  /\ pc[p] = "starting"
  /\ GoTo(p, "up")
  /\ UNCHANGED <<files, saw, attempt, clis, env>>

\* A batch ends, a daemon was asked to stop, or either raised: finally ...
Finish(p) ==
  /\ pc[p] \in Running
  /\ GoTo(p, IF p \in Batch THEN "reread" ELSE "unpid")
  /\ UNCHANGED <<files, saw, attempt, clis, env>>

\* Mutant: the pid file stays.
KeepPidFile(p) ==
  /\ pc[p] = "unpid"
  /\ GoTo(p, "reread")
  /\ UNCHANGED <<files, saw, attempt, clis, env>>

\* remove_pid_file: only its own ...
RereadPidFile(p) ==
  /\ pc[p] = "unpid"
  /\ GoTo(p, IF pidFile = p THEN "unlinkpid" ELSE "reread")
  /\ UNCHANGED <<files, saw, attempt, clis, env>>

\* ... or the one that has taken its place since.
RemovePidFile(p) ==
  /\ pc[p] = "unlinkpid"
  /\ pidFile' = NoProc
  /\ GoTo(p, "reread")
  /\ UNCHANGED <<lockFile, written, saw, attempt, clis, env>>

\* Mutant: the file is only removed if somebody else's pid is in it.
RereadForeign(p) ==
  /\ pc[p] = "reread"
  /\ GoTo(p, IF lockFile # p THEN "release" ELSE "ended")
  /\ UNCHANGED <<files, saw, attempt, clis, env>>

\* DaemonLock.release reads the file again and removes it if it is its own.
RereadLock(p) ==
  /\ pc[p] = "reread"
  /\ GoTo(p, IF lockFile = p /\ p \in written THEN "release" ELSE "ended")
  /\ UNCHANGED <<files, saw, attempt, clis, env>>

\* Mutant: acquired is reset, the file stays.
ReleaseWithoutUnlink(p) ==
  /\ pc[p] = "release"
  /\ GoTo(p, "ended")
  /\ UNCHANGED <<files, saw, attempt, clis, env>>

ReleaseLock(p) ==
  /\ pc[p] = "release"
  /\ lockFile' = NoProc
  /\ written' = written \ {lockFile}
  /\ GoTo(p, "ended")
  /\ UNCHANGED <<pidFile, saw, attempt, clis, env>>

(***************************************************************************)
(* stop-daemon, and `daemon` before it starts a runner in the background   *)
(***************************************************************************)
ReadDaemonPid(c) ==
  /\ cpc[c] = "idle"
  /\ pidFile # NoProc
  /\ csaw' = [csaw EXCEPT ![c] = pidFile]
  /\ cpc' = [cpc EXCEPT ![c] = "seen"]
  /\ UNCHANGED <<files, pc, saw, attempt, env>>

CliDone(c) ==
  /\ cpc' = [cpc EXCEPT ![c] = "idle"]
  /\ csaw' = [csaw EXCEPT ![c] = NoProc]

\* The pid it saw is not running, and will not be: pid_path is removed.
RemoveStalePidFile(c) ==
  /\ cpc[c] = "seen"
  /\ ~PidIsRunning(csaw[c])
  /\ pidFile' = NoProc
  /\ CliDone(c)
  /\ UNCHANGED <<lockFile, written, pc, saw, attempt, env>>

\* `daemon` reports the runner it saw.
AlreadyRunning(c) ==
  /\ cpc[c] = "seen"
  /\ PidIsRunning(csaw[c])
  /\ CliDone(c)
  /\ UNCHANGED <<files, pc, saw, attempt, env>>

\* stop-daemon sends SIGTERM: a runner without its handlers dies of it, and so
\* may the program that has the pid of a dead one.
TermDaemon(c) ==
  /\ cpc[c] = "seen"
  /\ \/ /\ pc[csaw[c]] \in Holding
        /\ pc' = [pc EXCEPT ![csaw[c]] = CASE @ = "up" -> "unpid"
                                           [] @ \in {"pidfile", "starting"} -> "dead"
                                           [] OTHER -> @]
        /\ UNCHANGED reused
     \/ /\ csaw[c] \in reused
        /\ reused' \in {reused, reused \ {csaw[c]}}
        /\ UNCHANGED pc
  /\ CliDone(c)
  /\ UNCHANGED <<files, saw, attempt, overlapped>>

(***************************************************************************)
(* The environment                                                         *)
(***************************************************************************)
Die(p) ==
  /\ pc[p] \in Live
  /\ GoTo(p, "dead")
  /\ UNCHANGED <<files, saw, attempt, clis, env>>

\* The pid of a process that is gone is given to another program.
ReusePid(p) ==
  /\ pc[p] \in {"refused", "ended", "dead"}
  /\ p \notin reused /\ Cardinality(reused) < MaxReused
  /\ reused' = reused \cup {p}
  /\ UNCHANGED <<files, pc, saw, attempt, clis, overlapped>>

(***************************************************************************)
(* The specification                                                       *)
(***************************************************************************)
Acquire(p) == CreateLock(p) \/ GiveUp(p) \/ ReadPid(p) \/ CheckPid(p)
              \/ UnlinkStale(p) \/ WriteLock(p)
Release(p) == RereadPidFile(p) \/ RemovePidFile(p) \/ RereadLock(p) \/ ReleaseLock(p)
Process(p) == Start(p) \/ Acquire(p) \/ WritePidFile(p) \/ InstallSignalHandlers(p)
              \/ Finish(p) \/ Release(p) \/ Die(p) \/ ReusePid(p)
Command(c) == ReadDaemonPid(c) \/ RemoveStalePidFile(c) \/ AlreadyRunning(c) \/ TermDaemon(c)

Next == (\E p \in Procs : Process(p)) \/ (\E c \in Clis : Command(c))

Spec == Init /\ [][Next]_vars

\* A process that is starting or leaving is not stopped for ever.
FairSpec == Spec /\ \A p \in Procs : WF_vars(Acquire(p) \/ Release(p))

(***************************************************************************)
(* Properties                                                              *)
(***************************************************************************)
runners == {p \in Procs : pc[p] \in Holding}

\* The lock keeps the promise of SingleRunner as long as no two starts have
\* overlapped: who is past acquire runs the root alone.
soleRunners == IF overlapped THEN {} ELSE runners
Promise == INSTANCE SingleRunner WITH Procs <- Procs, runners <- soleRunners
LockKeepsPromise == Promise!Spec

\* Unless starts have overlapped, the runner's pid is in the lock file as long
\* as it runs, so that whoever comes next finds it; so there is one runner.
HolderOwnsLock ==
  ~overlapped => \A p \in runners : lockFile = p /\ p \in written

\* Unless starts have overlapped, a start is refused only because another
\* runner was there when it read the lock, or because some other program has
\* the pid of one that died.
RefusedMeansOccupied ==
  [][~overlapped => \A p \in Procs :
       (pc[p] # "refused" /\ pc'[p] = "refused") => saw[p] \in runners \cup reused]_vars

\* However starts overlap, a pid file never names a process that has not got
\* the lock, so a stop command never signals a start that was refused.
PidFileNamesRunner ==
  pidFile # NoProc => pc[pidFile] \in Holding \cup {"dead"}

\* A lock file left behind, with nobody in or past acquire, is that of a
\* process that was killed, never that of one that has ended.
LeftoverIsStale ==
  (\A p \in Procs : pc[p] \notin Live) /\ lockFile # NoProc => pc[lockFile] = "dead"

\* A runner that is asked to leave ends, and its lock file with it.
LockIsGivenBack ==
  \A p \in Procs : pc[p] \in Leaving ~> (pc[p] \notin Live /\ (pc[p] = "ended" => lockFile # p))

(***************************************************************************)
(* What the documentation says and the code does not do                    *)
(***************************************************************************)
\* daemon.py:18, "Small cross-platform single-runner lock".
MutualExclusion == \A p, q \in runners : p = q
=============================================================================
