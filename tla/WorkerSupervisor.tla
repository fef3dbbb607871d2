-------------------------- MODULE WorkerSupervisor --------------------------
(***************************************************************************)
(* From the start of a worker to the end of its agent: launch_worker with  *)
(* its timeout and its signals, run_one_worker around it, the worker slots *)
(* and shutdown_workers, and how `run` and `run_once` give the lock back.  *)
(*                                                                         *)
(* An agent is a session of its own: a main process, which the supervisor  *)
(* waits for, and perhaps a helper that this one has started.  Either may  *)
(* ignore SIGTERM.  What a supervisor does after its agent has exited does *)
(* not suspend (nobody holds git_lock across an await) and is one step.    *)
(* A supervisor that has been created has its first step in the queue of   *)
(* the event loop, ahead of whatever ends that loop: it is never cancelled *)
(* before it has entered its try clause.                                   *)
(***************************************************************************)
EXTENDS Naturals, FiniteSets

CONSTANTS
  Workers,     \* runs of a worker
  MaxWorkers,  \* safety.max_workers
  MaxFaults    \* bound on failures of upsert_task when a worker is started

ASSUME BoundsAssumption == IsFiniteSet(Workers) /\ {MaxWorkers, MaxFaults} \subseteq Nat

VARIABLES
  mode,    \* daemon (run) or once (run_once)
  phase,   \* up, grace, cancelling, down
  lock,    \* does the runner hold DaemonLock?
  slots,   \* value of the semaphore worker_slots
  pc,      \* per run: where its supervisor is, or how it ended
  alive,   \* per run: the processes of its agent
  cancels, \* runs whose supervisor has been cancelled and has not yet seen it
  faults   \* failed starts so far

runner == <<mode, phase, lock>>
vars   == <<runner, slots, pc, alive, cancels, faults>>

Supervising == {"launch", "wait", "term", "kill", "cancelterm", "cancelkill"}
Ends == {"settled", "timedout", "error", "cancelled", "dropped"}
Active == {w \in Workers : pc[w] \in Supervising}

TypeOK ==
  /\ mode \in {"daemon", "once"}
  /\ phase \in {"up", "grace", "cancelling", "down"}
  /\ lock \in BOOLEAN
  /\ slots \in 0..MaxWorkers
  /\ pc \in [Workers -> {"new"} \cup Supervising \cup Ends]
  /\ alive \in [Workers -> SUBSET {"main", "helper"}]
  /\ cancels \in SUBSET Workers
  /\ faults \in 0..MaxFaults

Init ==
  /\ mode \in {"daemon", "once"}
  /\ phase = "up" /\ lock = TRUE
  /\ slots = MaxWorkers
  /\ pc = [w \in Workers |-> "new"]
  /\ alive = [w \in Workers |-> {}]
  /\ cancels = {} /\ faults = 0

(***************************************************************************)
(* The agent                                                               *)
(***************************************************************************)
AgentForks(w) ==
  /\ "main" \in alive[w]
  /\ alive' = [alive EXCEPT ![w] = @ \cup {"helper"}]
  /\ UNCHANGED <<runner, slots, pc, cancels, faults>>

\* By itself, or because of a SIGTERM it does not ignore.
ProcessExits(w, process) ==
  /\ process \in alive[w]
  /\ alive' = [alive EXCEPT ![w] = @ \ {process}]
  /\ UNCHANGED <<runner, slots, pc, cancels, faults>>

(***************************************************************************)
(* Starting a worker                                                       *)
(***************************************************************************)
StartWorker(w) ==
  /\ phase = "up" /\ slots > 0 /\ pc[w] = "new"
  /\ slots' = slots - 1
  /\ pc' = [pc EXCEPT ![w] = "launch"]
  /\ UNCHANGED <<runner, alive, cancels, faults>>

\* run_once is over: the lock goes in its finally clause, and only then does
\* asyncio.run cancel the supervisors that are left.
LeaveRunOnce ==
  /\ phase' = "cancelling" /\ lock' = FALSE
  /\ cancels' = Active
  /\ UNCHANGED mode

\* upsert_task raises after worker_slots.acquire: nobody releases the slot.
\* The daemon logs the error, run_once ends with it.
StartFails ==
  /\ phase = "up" /\ slots > 0 /\ faults < MaxFaults
  /\ slots' = slots - 1
  /\ faults' = faults + 1
  /\ IF mode = "once" THEN LeaveRunOnce ELSE UNCHANGED <<runner, cancels>>
  /\ UNCHANGED <<pc, alive>>

(***************************************************************************)
(* launch_worker and run_one_worker                                        *)
(***************************************************************************)
GoOn(w, place) == pc' = [pc EXCEPT ![w] = place] /\ UNCHANGED <<slots, cancels>>

\* Mutants: the slot is only released after a run that was settled; an error
\* handler releases it as well.
ReleaseIfSettled(w, how) ==
  /\ pc' = [pc EXCEPT ![w] = how]
  /\ slots' = IF how \in {"settled", "timedout"} THEN slots + 1 ELSE slots
  /\ cancels' = cancels \ {w}

ReleaseTwice(w, how) ==
  /\ pc' = [pc EXCEPT ![w] = how]
  /\ slots' = IF how = "error" THEN slots + 2 ELSE slots + 1
  /\ cancels' = cancels \ {w}

\* The finally clause of run_one_worker.
EndRun(w, how) ==
  /\ pc' = [pc EXCEPT ![w] = how]
  /\ slots' = slots + 1
  /\ cancels' = cancels \ {w}

\* os.killpg, or else proc.terminate() or kill(), which raises if the agent
\* has been reaped: the run ends with a supervisor error.
Signal(w, place) ==
  \/ GoOn(w, place)
  \/ alive[w] = {} /\ EndRun(w, "error")

LaunchAgent(w) ==
  /\ pc[w] = "launch" /\ w \notin cancels
  /\ alive' = [alive EXCEPT ![w] = {"main"}]
  /\ GoOn(w, "wait")
  /\ UNCHANGED <<runner, faults>>

\* The worktree or the command is not there.
LaunchFails(w) ==
  /\ pc[w] = "launch" /\ w \notin cancels
  /\ EndRun(w, "error")
  /\ UNCHANGED <<runner, alive, faults>>

\* proc.wait() has returned: branch and state are recorded, or that fails.
AgentExited(w) ==
  /\ pc[w] \in {"wait", "term", "kill"} /\ w \notin cancels
  /\ "main" \notin alive[w]
  /\ \E how \in {IF pc[w] = "wait" THEN "settled" ELSE "timedout", "error"} :
       EndRun(w, how)
  /\ UNCHANGED <<runner, alive, faults>>

\* process.json, or the event of a timeout or of a cancellation, cannot be
\* written: the run ends with a supervisor error, and its agent goes on.
WriteFails(w) ==
  /\ pc[w] = "wait"
  /\ EndRun(w, "dropped")
  /\ UNCHANGED <<runner, alive, faults>>

\* agent.timeout_seconds are over: SIGTERM ...
Timeout(w) ==
  /\ pc[w] = "wait" /\ w \notin cancels
  /\ Signal(w, "term")
  /\ UNCHANGED <<runner, alive, faults>>

\* Mutant: SIGTERM is all the agent gets.
WaitOn(w) ==
  /\ pc[w] = "term" /\ w \notin cancels
  /\ GoOn(w, "kill")
  /\ UNCHANGED <<runner, alive, faults>>

\* ... and 20 s later SIGKILL, to the whole session.
KillAfterTimeout(w) ==
  /\ pc[w] = "term" /\ w \notin cancels
  /\ Signal(w, "kill")
  /\ alive' = [alive EXCEPT ![w] = {}]
  /\ UNCHANGED <<runner, faults>>

\* Mutant: the supervisor does not wait for the agent it has terminated.
CancelAndGo(w) ==
  /\ w \in cancels
  /\ EndRun(w, IF pc[w] = "term" THEN "dropped" ELSE "cancelled")
  /\ UNCHANGED <<runner, alive, faults>>

\* CancelledError is raised where the supervisor waits.  Only the first wait
\* has a handler for it: in the 20 s after a timeout the agent is let go.
Cancelled(w) ==
  /\ w \in cancels
  /\ CASE pc[w] = "wait" -> \/ /\ pc' = [pc EXCEPT ![w] = "cancelterm"]
                               /\ cancels' = cancels \ {w}
                               /\ UNCHANGED slots
                            \/ alive[w] = {} /\ EndRun(w, "error")
       [] pc[w] = "term" -> EndRun(w, "dropped")
       [] OTHER          -> EndRun(w, "cancelled")
  /\ UNCHANGED <<runner, alive, faults>>

\* Mutant: SIGTERM is all the agent gets.
WaitOnAfterCancel(w) ==
  /\ pc[w] = "cancelterm"
  /\ GoOn(w, "cancelkill")
  /\ UNCHANGED <<runner, alive, faults>>

\* 10 s after the SIGTERM of a cancellation.
KillAfterCancel(w) ==
  /\ pc[w] = "cancelterm"
  /\ Signal(w, "cancelkill")
  /\ alive' = [alive EXCEPT ![w] = {}]
  /\ UNCHANGED <<runner, faults>>

CancelEnds(w) ==
  /\ pc[w] \in {"cancelterm", "cancelkill"}
  /\ "main" \notin alive[w]
  /\ EndRun(w, "cancelled")
  /\ UNCHANGED <<runner, alive, faults>>

(***************************************************************************)
(* The end of the runner                                                   *)
(***************************************************************************)
\* SIGTERM: the loops return and shutdown_workers waits.
RequestStop ==
  /\ mode = "daemon" /\ phase = "up"
  /\ phase' = "grace"
  /\ UNCHANGED <<mode, lock, slots, pc, alive, cancels, faults>>

\* safety.shutdown_grace_seconds are over.
GraceEnds ==
  /\ phase = "grace"
  /\ phase' = "cancelling"
  /\ cancels' = Active
  /\ UNCHANGED <<mode, lock, slots, pc, alive, faults>>

\* Ctrl-C, or an exception in run_once.
Interrupt ==
  /\ mode = "once" /\ phase = "up"
  /\ LeaveRunOnce
  /\ UNCHANGED <<slots, pc, alive, faults>>

\* Mutant: the cancelled supervisors are not gathered.
EndAtOnce ==
  /\ phase \in {"grace", "cancelling"} \cup (IF mode = "once" THEN {"up"} ELSE {})
  /\ phase # "cancelling" => Active = {}
  /\ phase' = "down" /\ lock' = FALSE
  /\ UNCHANGED <<mode, slots, pc, alive, cancels, faults>>

\* No supervisor is left: the batch is over, or shutdown_workers returns.
EndRunner ==
  /\ phase \in {"grace", "cancelling"} \cup (IF mode = "once" THEN {"up"} ELSE {})
  /\ Active = {}
  /\ phase' = "down" /\ lock' = FALSE
  /\ UNCHANGED <<mode, slots, pc, alive, cancels, faults>>

(***************************************************************************)
(* The specification                                                       *)
(***************************************************************************)
Supervise(w) ==
  \/ LaunchAgent(w) \/ LaunchFails(w) \/ AgentExited(w) \/ WriteFails(w)
  \/ Timeout(w) \/ KillAfterTimeout(w)
  \/ Cancelled(w) \/ KillAfterCancel(w) \/ CancelEnds(w)

Agent(w) == AgentForks(w) \/ \E process \in {"main", "helper"} : ProcessExits(w, process)

Next ==
  \/ \E w \in Workers : StartWorker(w) \/ Supervise(w) \/ Agent(w)
  \/ StartFails
  \/ RequestStop \/ GraceEnds \/ Interrupt \/ EndRunner

Spec == Init /\ [][Next]_vars

\* Every wait has an end and the event loop serves every supervisor.  No
\* agent is assumed to exit.
Fairness ==
  /\ \A w \in Workers : WF_vars(Supervise(w))
  /\ WF_vars(GraceEnds) /\ WF_vars(EndRunner)

FairSpec == Spec /\ Fairness

(***************************************************************************)
(* Properties                                                              *)
(***************************************************************************)
\* Once a run has ended, by itself, by timeout or cancelled, the main process
\* of its agent is gone: no branch is recorded and no slot reused under it.
\* Except in a run that was cancelled in the 20 s after its timeout, or that
\* could not write its files while the agent ran.
EndedMeansExited ==
  \A w \in Workers : pc[w] \in Ends \ {"dropped"} => "main" \notin alive[w]

\* A daemon keeps the lock until its agents are gone, with those exceptions, so
\* the next runner does not work beside them.  run-once does not, if it is
\* interrupted.
LockCoversAgents ==
  (mode = "daemon" /\ ~lock) =>
    \A w \in Workers : "main" \in alive[w] => pc[w] = "dropped"

\* A slot is given back once for each run, however it ends; only a start that
\* fails costs one, until the runner is started again.
SlotsAddUp == slots + Cardinality(Active) + faults = MaxWorkers

\* A runner that is asked to end does, whatever its agents do about SIGTERM.
RunnerEnds == phase \in {"grace", "cancelling"} ~> phase = "down"

\* Every run that is started ends, also if its agent never would.
RunsEnd == \A w \in Workers : pc[w] = "launch" ~> pc[w] \in Ends
=============================================================================
