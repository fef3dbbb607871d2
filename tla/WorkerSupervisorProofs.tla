----------------------- MODULE WorkerSupervisorProofs -----------------------
(***************************************************************************)
(* Proofs about WorkerSupervisor for any set of workers and any number of  *)
(* slots and failed starts: a run that has ended has no agent, the lock is *)
(* kept until there is none, and no slot is lost or given back twice.      *)
(***************************************************************************)
EXTENDS WorkerSupervisor, FiniteSetTheorems, TLAPS

(***************************************************************************)
(* The inductive invariants                                                *)
(***************************************************************************)
\* The types, as far as they do not depend on how slots are counted.
Types ==
  /\ mode \in {"daemon", "once"}
  /\ phase \in {"up", "grace", "cancelling", "down"}
  /\ lock \in BOOLEAN
  /\ slots \in Nat
  /\ pc \in [Workers -> {"new"} \cup Supervising \cup Ends]
  /\ alive \in [Workers -> SUBSET {"main", "helper"}]
  /\ cancels \in SUBSET Workers
  /\ faults \in 0..MaxFaults

\* An agent is started by its supervisor; SIGKILL leaves nothing of it; and
\* nobody is cancelled a second time.
AgentInv(w) ==
  /\ pc[w] \in {"new", "launch", "kill", "cancelkill"} => alive[w] = {}
  /\ pc[w] \in Ends \ {"dropped"} => "main" \notin alive[w]
  /\ pc[w] \in {"cancelterm", "cancelkill"} => w \notin cancels
  /\ w \in cancels => pc[w] \in Supervising
  /\ phase \in {"up", "grace"} => w \notin cancels /\ pc[w] \notin {"cancelterm", "cancelkill"}

\* The lock goes last, except at the end of run-once.
LockInv ==
  /\ phase = "down" => Active = {}
  /\ (mode = "daemon" /\ ~lock) => phase = "down"

SupervisorInv == Types /\ (\A w \in Workers : AgentInv(w)) /\ LockInv

(***************************************************************************)
(* The invariants are inductive                                            *)
(***************************************************************************)
LEMMA SupervisorInit == Init => SupervisorInv
BY BoundsAssumption
DEF Init, SupervisorInv, Types, AgentInv, LockInv, Active, Supervising, Ends

LEMMA SupervisorStep == SupervisorInv /\ [Next]_vars => SupervisorInv'
<1> SUFFICES ASSUME SupervisorInv, [Next]_vars
             PROVE  SupervisorInv'
  OBVIOUS
<1> USE DEF SupervisorInv, Types, AgentInv, LockInv, Active, Supervising, Ends, runner
<1>1. ASSUME NEW w \in Workers, StartWorker(w) PROVE SupervisorInv'
  BY <1>1 DEF StartWorker
<1>2. ASSUME NEW w \in Workers, LaunchAgent(w) PROVE SupervisorInv'
  BY <1>2 DEF LaunchAgent, GoOn
<1>3. ASSUME NEW w \in Workers, LaunchFails(w) PROVE SupervisorInv'
  BY <1>3 DEF LaunchFails, EndRun
<1>4. ASSUME NEW w \in Workers, AgentExited(w) PROVE SupervisorInv'
  BY <1>4 DEF AgentExited, EndRun
<1>17. ASSUME NEW w \in Workers, WriteFails(w) PROVE SupervisorInv'
  BY <1>17 DEF WriteFails, EndRun
<1>5. ASSUME NEW w \in Workers, Timeout(w) PROVE SupervisorInv'
  BY <1>5 DEF Timeout, Signal, GoOn, EndRun
<1>6. ASSUME NEW w \in Workers, KillAfterTimeout(w) PROVE SupervisorInv'
  BY <1>6 DEF KillAfterTimeout, Signal, GoOn, EndRun
<1>7. ASSUME NEW w \in Workers, Cancelled(w) PROVE SupervisorInv'
  <2>1. CASE pc[w] = "wait"
    BY <1>7, <2>1 DEF Cancelled, EndRun
  <2>2. CASE pc[w] = "term"
    BY <1>7, <2>2 DEF Cancelled, EndRun
  <2>3. CASE pc[w] \in {"launch", "kill"}
    <3>1. EndRun(w, "cancelled") /\ UNCHANGED <<mode, phase, lock, alive, faults>>
      BY <1>7, <2>3 DEF Cancelled
    <3> QED
      BY <3>1, <2>3 DEF EndRun
  <2> QED
    BY <1>7, <2>1, <2>2, <2>3 DEF Cancelled
<1>8. ASSUME NEW w \in Workers, KillAfterCancel(w) PROVE SupervisorInv'
  BY <1>8 DEF KillAfterCancel, Signal, GoOn, EndRun
<1>9. ASSUME NEW w \in Workers, CancelEnds(w) PROVE SupervisorInv'
  BY <1>9 DEF CancelEnds, EndRun
<1>10. ASSUME NEW w \in Workers, Agent(w) PROVE SupervisorInv'
  BY <1>10 DEF Agent, AgentForks, ProcessExits
<1>11. ASSUME StartFails PROVE SupervisorInv'
  <2>1. slots' \in Nat /\ faults' \in 0..MaxFaults
    BY <1>11, BoundsAssumption DEF StartFails
  <2>2. CASE mode = "once"
    BY <1>11, <2>1, <2>2 DEF StartFails, LeaveRunOnce
  <2>3. CASE mode = "daemon"
    BY <1>11, <2>1, <2>3 DEF StartFails
  <2> QED
    BY <2>2, <2>3
<1>12. ASSUME RequestStop PROVE SupervisorInv'
  BY <1>12 DEF RequestStop
<1>13. ASSUME GraceEnds PROVE SupervisorInv'
  BY <1>13 DEF GraceEnds
<1>14. ASSUME Interrupt PROVE SupervisorInv'
  BY <1>14 DEF Interrupt, LeaveRunOnce
<1>15. ASSUME EndRunner PROVE SupervisorInv'
  BY <1>15 DEF EndRunner
<1>16. ASSUME UNCHANGED vars PROVE SupervisorInv'
  BY <1>16 DEF vars
<1> QED
  BY <1>1, <1>2, <1>3, <1>4, <1>5, <1>6, <1>7, <1>8, <1>9, <1>10, <1>11,
     <1>12, <1>13, <1>14, <1>15, <1>16, <1>17
  DEF Next, Supervise

LEMMA SupervisorInvariant == Spec => []SupervisorInv
BY SupervisorInit, SupervisorStep, PTL DEF Spec

\* A run that has ended has no agent any more: nothing is recorded, and no
\* slot reused, under a main process that still works.
THEOREM EndedHasExited == Spec => []EndedMeansExited
<1>1. SupervisorInv => EndedMeansExited
  BY DEF SupervisorInv, AgentInv, EndedMeansExited
<1> QED
  BY <1>1, SupervisorInvariant, PTL

\* The daemon keeps its lock until its agents are gone, but for those that
\* were let go in the seconds after a timeout or when a file could not be written.
THEOREM LockCovers == Spec => []LockCoversAgents
<1>1. SupervisorInv => LockCoversAgents
  BY DEF SupervisorInv, Types, AgentInv, LockInv, LockCoversAgents, Active, Supervising, Ends
<1> QED
  BY <1>1, SupervisorInvariant, PTL

(***************************************************************************)
(* Slots                                                                   *)
(***************************************************************************)
LEMMA ActiveFinite ==
  ASSUME SupervisorInv
  PROVE  IsFiniteSet(Active) /\ Cardinality(Active) \in Nat
<1>1. Active \subseteq Workers
  BY DEF Active
<1> QED
  BY <1>1, BoundsAssumption, FS_Subset, FS_CardinalityType

\* The sum, where a step has changed it by the given amounts.
LEMMA SumIsKept ==
  ASSUME SupervisorInv, SlotsAddUp, NEW x \in Int, NEW y \in Int, NEW z \in Int,
         slots' = slots + x, Cardinality(Active') = Cardinality(Active) + y,
         faults' = faults + z, x + y + z = 0
  PROVE  SlotsAddUp'
<1>1. slots \in Int /\ faults \in Int /\ Cardinality(Active) \in Int
  BY ActiveFinite, BoundsAssumption DEF SupervisorInv, Types
<1>2. slots + Cardinality(Active) + faults = MaxWorkers
  BY DEF SlotsAddUp
<1>3. slots' + Cardinality(Active') + faults' = MaxWorkers
  BY <1>1, <1>2
<1> QED
  BY <1>3 DEF SlotsAddUp

\* However a run ends, its slot comes back and it is not active any more.
LEMMA EndRunCounts ==
  ASSUME SupervisorInv, SlotsAddUp, NEW w \in Workers, NEW how \in Ends,
         pc[w] \in Supervising, EndRun(w, how), faults' = faults
  PROVE  SlotsAddUp'
<1>1. w \in Active /\ Active' = Active \ {w}
  BY DEF EndRun, Active, SupervisorInv, Types, Supervising, Ends
<1>2. Cardinality(Active') = Cardinality(Active) + (-1)
  BY <1>1, ActiveFinite, FS_RemoveElement
<1>3. slots' = slots + 1 /\ faults' = faults + 0
  BY DEF EndRun, SupervisorInv, Types
<1> QED
  BY <1>2, <1>3, SumIsKept

\* A supervisor that goes on keeps its slot.
LEMMA GoOnCounts ==
  ASSUME SupervisorInv, SlotsAddUp, NEW w \in Workers, NEW place \in Supervising,
         pc[w] \in Supervising, pc' = [pc EXCEPT ![w] = place],
         slots' = slots, faults' = faults
  PROVE  SlotsAddUp'
<1>1. Active' = Active
  BY DEF SupervisorInv, Types, Active, Supervising
<1> QED
  BY <1>1 DEF SlotsAddUp

LEMMA SlotsInit == Init => SlotsAddUp
<1> SUFFICES ASSUME Init PROVE SlotsAddUp
  OBVIOUS
<1>1. Active = {}
  BY DEF Init, Active, Supervising
<1> QED
  BY <1>1, FS_EmptySet, BoundsAssumption DEF Init, SlotsAddUp

LEMMA SlotsStep == SupervisorInv /\ SlotsAddUp /\ [Next]_vars => SlotsAddUp'
<1> SUFFICES ASSUME SupervisorInv, SlotsAddUp, [Next]_vars
             PROVE  SlotsAddUp'
  OBVIOUS
<1>1. ASSUME NEW w \in Workers, StartWorker(w) PROVE SlotsAddUp'
  <2>1. w \notin Active /\ Active' = Active \cup {w}
    BY <1>1 DEF StartWorker, Active, SupervisorInv, Types, Supervising
  <2>2. Cardinality(Active') = Cardinality(Active) + 1
    BY <2>1, ActiveFinite, FS_AddElement
  <2>3. slots' = slots + (-1) /\ faults' = faults + 0
    BY <1>1 DEF StartWorker, SupervisorInv, Types
  <2> QED
    BY <2>2, <2>3, SumIsKept
<1>2. ASSUME NEW w \in Workers, Supervise(w) PROVE SlotsAddUp'
  <2>1. pc[w] \in Supervising /\ faults' = faults
    BY <1>2 DEF Supervise, LaunchAgent, LaunchFails, AgentExited, WriteFails, Timeout,
       KillAfterTimeout, Cancelled, KillAfterCancel, CancelEnds, Supervising,
       SupervisorInv, AgentInv
  <2>2. \/ \E how \in Ends : EndRun(w, how)
        \/ \E place \in Supervising : pc' = [pc EXCEPT ![w] = place] /\ slots' = slots
    <3> USE DEF GoOn, Signal, Supervising, Ends
    <3>1. ASSUME LaunchAgent(w) \/ LaunchFails(w) \/ AgentExited(w) \/ WriteFails(w) PROVE <2>2
      BY <3>1 DEF LaunchAgent, LaunchFails, AgentExited, WriteFails
    <3>2. ASSUME Timeout(w) \/ KillAfterTimeout(w) PROVE <2>2
      BY <3>2 DEF Timeout, KillAfterTimeout
    <3>3. ASSUME Cancelled(w) PROVE <2>2
      BY <3>3 DEF Cancelled
    <3>4. ASSUME KillAfterCancel(w) \/ CancelEnds(w) PROVE <2>2
      BY <3>4 DEF KillAfterCancel, CancelEnds
    <3> QED
      BY <1>2, <3>1, <3>2, <3>3, <3>4 DEF Supervise
  <2> QED
    BY <2>1, <2>2, EndRunCounts, GoOnCounts
<1>3. ASSUME StartFails PROVE SlotsAddUp'
  <2>1. Active' = Active
    BY <1>3 DEF StartFails, Active
  <2>2. Cardinality(Active') = Cardinality(Active) + 0
    BY <2>1, ActiveFinite
  <2>3. slots' = slots + (-1) /\ faults' = faults + 1
    BY <1>3 DEF StartFails, SupervisorInv, Types
  <2> QED
    BY <2>2, <2>3, SumIsKept
<1>4. ASSUME \/ \E w \in Workers : Agent(w)
             \/ RequestStop \/ GraceEnds \/ Interrupt \/ EndRunner \/ UNCHANGED vars
      PROVE  SlotsAddUp'
  <2>1. UNCHANGED <<slots, pc, faults>>
    BY <1>4 DEF Agent, AgentForks, ProcessExits, RequestStop, GraceEnds, Interrupt,
       LeaveRunOnce, EndRunner, vars
  <2>2. Active' = Active
    BY <2>1 DEF Active
  <2> QED
    BY <2>1, <2>2 DEF SlotsAddUp
<1> QED
  BY <1>1, <1>2, <1>3, <1>4 DEF Next

\* Free slots, active runs and failed starts add up to max_workers: however a
\* run ends, its slot comes back exactly once.
THEOREM SlotsAreKept == Spec => []SlotsAddUp
BY SlotsInit, SlotsStep, SupervisorInvariant, PTL DEF Spec

\* Types; in particular the semaphore never exceeds max_workers.
THEOREM SupervisorTypes == Spec => []TypeOK
<1>1. SupervisorInv /\ SlotsAddUp => TypeOK
  <2> SUFFICES ASSUME SupervisorInv, SlotsAddUp PROVE TypeOK
    OBVIOUS
  <2>1. IsFiniteSet(Active)
    BY BoundsAssumption, FS_Subset DEF Active
  <2>2. slots \in 0..MaxWorkers
    BY <2>1, FS_CardinalityType, BoundsAssumption DEF SupervisorInv, Types, SlotsAddUp
  <2> QED
    BY <2>2 DEF SupervisorInv, Types, TypeOK
<1> QED
  BY <1>1, SupervisorInvariant, SlotsAreKept, PTL
=============================================================================
