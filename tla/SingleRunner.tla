---------------------------- MODULE SingleRunner ----------------------------
(***************************************************************************)
(* What the lock of a root promises: at any time at most one process runs  *)
(* the root, and another can only start after that one has left.           *)
(***************************************************************************)
EXTENDS FiniteSets

CONSTANT Procs
VARIABLE runners   \* the processes that are past DaemonLock.acquire

Init == runners = {}

Enter(p) ==
  /\ runners = {}
  /\ runners' = {p}

Leave(p) ==
  /\ runners = {p}
  /\ runners' = {}

Next == \E p \in Procs : Enter(p) \/ Leave(p)

Spec == Init /\ [][Next]_runners
=============================================================================
