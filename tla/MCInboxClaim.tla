---------------------------- MODULE MCInboxClaim ----------------------------
(***************************************************************************)
(* Instances of InboxClaim for TLC: a folder published atomically, one     *)
(* that is filled in the inbox, and a bare file.                           *)
(***************************************************************************)
EXTENDS InboxClaim, TLC

AllFaults == FaultKinds
NoFaults == {}
Entries == {"a1", "a2", "s1", "b"}
OwnerOf == "a1" :> "atomic" @@ "a2" :> "atomic" @@ "s1" :> "slow" @@ "b" :> "bare"
SlowEntries == {"s1", "s2"}
SlowOwner == "s1" :> "slow" @@ "s2" :> "slow"
=============================================================================
