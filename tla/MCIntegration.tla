--------------------------- MODULE MCIntegration ----------------------------
(***************************************************************************)
(* Instances of Integration for TLC.  Tasks, files and integrators are     *)
(* interchangeable: a list is worked through in any order.                 *)
(***************************************************************************)
EXTENDS Integration, TLC

Symmetry == Permutations(Tasks) \cup Permutations(Files) \cup Permutations(Integrators)
=============================================================================
