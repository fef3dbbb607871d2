---------------------------- MODULE MCDaemonLock ----------------------------
(***************************************************************************)
(* Instances of DaemonLock for TLC.                                        *)
(***************************************************************************)
EXTENDS DaemonLock, TLC
=============================================================================
