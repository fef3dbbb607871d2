--------------------------- MODULE TaskLifecycle ---------------------------
(***************************************************************************)
(* What Alluvium promises of a task, seen from outside: an agent works on  *)
(* it; what the agent delivers is decided on once, and sent back at most   *)
(* MaxRevisionRounds times for an agent to work on it again; and a task    *)
(* that has ended is not taken up again.                                   *)
(***************************************************************************)
EXTENDS Naturals

CONSTANTS Tasks, MaxRevisionRounds

VARIABLES
  stage,   \* new, working, delivered, returned, ended or withdrawn
  round    \* how often the task has been sent back, until it ends

Init ==
  /\ stage = [t \in Tasks |-> "new"]
  /\ round = [t \in Tasks |-> 0]

Move(t, from, to) ==
  /\ stage[t] \in from
  /\ stage' = [stage EXCEPT ![t] = to]

\* An agent starts on a new task, or on one that was sent back.
Begin(t) == Move(t, {"new", "returned"}, "working") /\ UNCHANGED round

\* The run is over and there is a branch to integrate.
Deliver(t) == Move(t, {"working"}, "delivered") /\ UNCHANGED round

\* The branch is sent back.
Return(t) ==
  /\ round[t] < MaxRevisionRounds
  /\ Move(t, {"delivered"}, "returned")
  /\ round' = [round EXCEPT ![t] = @ + 1]

\* Done, failed, or left to a human.
End(t) ==
  /\ Move(t, {"working", "delivered", "returned"}, "ended")
  /\ round' = [round EXCEPT ![t] = 0]

\* Somebody retries a task, or files are lost: nothing is promised from here on.
Intervene ==
  /\ stage' = [t \in Tasks |-> "withdrawn"]
  /\ round' = [t \in Tasks |-> 0]

Next ==
  \/ \E t \in Tasks : Begin(t) \/ Deliver(t) \/ Return(t) \/ End(t)
  \/ Intervene

Spec == Init /\ [][Next]_<<stage, round>>
=============================================================================
