-------------------------- MODULE InboxClaimProofs --------------------------
(***************************************************************************)
(* What InboxClaim promises, for any items and entries, any number of      *)
(* failures and any number of restarts.                                    *)
(***************************************************************************)
EXTENDS InboxClaim, TLAPS

(***************************************************************************)
(* The inductive invariant: where an entry can be, given its item ...      *)
(***************************************************************************)
EntryInv(f) ==
  LET i == ItemOf[f] IN
  /\ where[f] = "inbox" => item[i] = "present"
  /\ where[f] = "withdrawn" => item[i] = "withdrawn"
  /\ where[f] = "task" => item[i] = "taken"
  /\ where[f] = "staging" => i = staging
  /\ where[f] = "quarantine" => restarts > 0 \/ faults > 0
  /\ (where[f] = "unwritten" /\ i \in Bare \cup Atomic) => item[i] = "absent"
  /\ item[i] = "absent" => where[f] = "unwritten"
  /\ (i \in Bare /\ item[i] = "present") => where[f] = "inbox"
  /\ (faults = 0 /\ Careful(i)) =>
       /\ where[f] # "deleted"
       /\ i \in taskDir => where[f] \in {"task", "quarantine"}

\* ... what is staged at which point ...
StagingInv ==
  /\ cpc # "sleep" => phase = "up"
  /\ cpc \in {"list", "move", "prepare", "cleanup"} => citem \in Items /\ staging = citem
  /\ (phase = "up" /\ cpc \in {"sleep", "scan", "record"}) \/ phase = "orphans" =>
       staging = NoItem
  /\ (phase \in {"down", "claims"} /\ staging # NoItem) => restarts > 0

\* ... how far the claim is: the listing and the inbox agree on an item that
\* is published carefully, so that such a claim only fails on a failed
\* operation ...
Gone == {"staging", "quarantine", "deleted"}
MovingInv ==
  cpc = "move" =>
    /\ cleft \subseteq EntriesOf(citem)
    /\ (citem \in Bare /\ cleft = {}) => item[citem] = "taken"
    /\ Careful(citem) =>
         /\ citem \in Atomic => item[citem] = "present"
         /\ \A f \in EntriesOf(citem) :
              IF f \in cleft THEN where[f] = "inbox" ELSE where[f] \in Gone
ProgressInv ==
  /\ cpc = "list" => \A f \in Files : where[f] # "staging"
  /\ cpc = "prepare" =>
       /\ item[citem] = "taken"
       /\ Careful(citem) => \A f \in EntriesOf(citem) : where[f] \in Gone
  /\ (cpc = "cleanup" /\ faults = 0) =>
       \A f \in Files : where[f] = "staging" => ~Careful(ItemOf[f])

\* ... and which folders have rows.
RowInv ==
  /\ cpc = "record" => citem \in taskDir
  /\ (phase = "up" /\ faults = 0) =>
       taskDir = row \cup (IF cpc = "record" THEN {citem} ELSE {})
  /\ (phase = "orphans" /\ faults = 0) => taskDir = row \cup todo
  /\ phase # "orphans" => todo = {}

InboxInv ==
  /\ TypeOK
  /\ \A f \in Files : EntryInv(f)
  /\ StagingInv
  /\ MovingInv
  /\ ProgressInv
  /\ RowInv

LEMMA ProduceInbox == InboxInv /\ Produce => InboxInv'
<1> SUFFICES ASSUME InboxInv, Produce PROVE InboxInv'
  OBVIOUS
<1> USE ItemsAssumption, KindsAssumption, FaultsAssumption
    DEF InboxInv, TypeOK, EntryInv, StagingInv, MovingInv, ProgressInv, RowInv, Gone,
        Careful, EntriesOf, Relocate, Places, files, claim, history
<1>1. ASSUME NEW i \in Items, CreateInboxTask(i) PROVE InboxInv'
  BY <1>1 DEF CreateInboxTask
<1>2. ASSUME NEW i \in Items, MakeFolder(i) PROVE InboxInv'
  BY <1>2 DEF MakeFolder
<1>3. ASSUME NEW i \in Items, Withdraw(i) PROVE InboxInv'
  BY <1>3 DEF Withdraw
<1>4. ASSUME NEW f \in Files, WriteEntry(f) PROVE InboxInv'
  BY <1>4 DEF WriteEntry
<1> QED
  BY <1>1, <1>2, <1>3, <1>4 DEF Produce

LEMMA ClaimInbox == InboxInv /\ Claim => InboxInv'
<1> SUFFICES ASSUME InboxInv, Claim PROVE InboxInv'
  OBVIOUS
<1> USE ItemsAssumption, KindsAssumption, FaultsAssumption
    DEF InboxInv, TypeOK, EntryInv, StagingInv, MovingInv, ProgressInv, RowInv, Gone,
        Careful, EntriesOf, Relocate, Places, Goto, EndClaim, MayFail, files, claim, history
<1>1. CASE ListEntries
  BY <1>1 DEF ListEntries
<1>2. ASSUME NEW f \in Files, MoveEntry(f) PROVE InboxInv'
  BY <1>2 DEF MoveEntry
<1>3. CASE MoveFails
  BY <1>3 DEF MoveFails
<1>4. CASE RemoveItemDir
  BY <1>4 DEF RemoveItemDir
<1>5. CASE PublishTask
  BY <1>5 DEF PublishTask
<1>6. CASE PrepareFails
  BY <1>6 DEF PrepareFails
<1>7. CASE CleanUp
  BY <1>7 DEF CleanUp
<1>8. CASE RecordClaim
  BY <1>8 DEF RecordClaim
<1> QED
  BY <1>1, <1>2, <1>3, <1>4, <1>5, <1>6, <1>7, <1>8 DEF Claim

LEMMA RunInbox ==
  InboxInv /\ (Wake \/ Sleep \/ (\E i \in Items : StageItem(i))) => InboxInv'
<1> USE ItemsAssumption, KindsAssumption, FaultsAssumption
    DEF InboxInv, TypeOK, EntryInv, StagingInv, MovingInv, ProgressInv, RowInv, Gone,
        Careful, EntriesOf, Places, Goto, files, claim, history
<1>1. ASSUME InboxInv, Wake \/ Sleep PROVE InboxInv'
  BY <1>1 DEF Wake, Sleep
<1>2. ASSUME InboxInv, NEW i \in Items, StageItem(i) PROVE InboxInv'
  BY <1>2 DEF StageItem
<1> QED
  BY <1>1, <1>2

LEMMA ReconcileInbox ==
  InboxInv /\ (Reconcile \/ Sigterm \/ HandleStop \/ Crash \/ UNCHANGED vars) => InboxInv'
<1> USE ItemsAssumption, KindsAssumption, FaultsAssumption
    DEF InboxInv, TypeOK, EntryInv, StagingInv, MovingInv, ProgressInv, RowInv, Gone,
        Careful, EntriesOf, Relocate, Places, MayFail, files, claim, history
<1>1. ASSUME InboxInv, StartRunner PROVE InboxInv'
  BY <1>1 DEF StartRunner
<1>2. ASSUME InboxInv, ReconcileClaimingDirs PROVE InboxInv'
  BY <1>2 DEF ReconcileClaimingDirs
<1>3. ASSUME InboxInv, NEW i \in Items, ReconcileOrphan(i) PROVE InboxInv'
  BY <1>3 DEF ReconcileOrphan
<1>4. ASSUME InboxInv, EnterLoops PROVE InboxInv'
  BY <1>4 DEF EnterLoops
<1>5. ASSUME InboxInv, Sigterm PROVE InboxInv'
  BY <1>5 DEF Sigterm
<1>6. ASSUME InboxInv, HandleStop PROVE InboxInv'
  BY <1>6 DEF HandleStop
<1>7. ASSUME InboxInv, Crash PROVE InboxInv'
  BY <1>7 DEF Crash
<1>8. ASSUME InboxInv, UNCHANGED vars PROVE InboxInv'
  BY <1>8 DEF vars
<1> QED
  BY <1>1, <1>2, <1>3, <1>4, <1>5, <1>6, <1>7, <1>8 DEF Reconcile

LEMMA InboxInvariant == Spec => []InboxInv
<1>1. Init => InboxInv
  <2> SUFFICES ASSUME Init PROVE InboxInv
    OBVIOUS
  <2> USE ItemsAssumption, FaultsAssumption DEF Init
  <2>1. TypeOK
    <3>1. stopping \in BOOLEAN
      BY Zenon
    <3>2. faults \in 0..MaxFaults /\ restarts \in 0..MaxRestarts
      OBVIOUS
    <3> QED
      BY <3>1, <3>2 DEF TypeOK, Places
  <2>2. \A f \in Files : EntryInv(f)
    BY KindsAssumption DEF EntryInv
  <2>3. StagingInv /\ MovingInv /\ ProgressInv /\ RowInv
    BY DEF StagingInv, MovingInv, ProgressInv, RowInv
  <2> QED
    BY <2>1, <2>2, <2>3 DEF InboxInv
<1>2. InboxInv /\ [Next]_vars => InboxInv'
  BY ProduceInbox, RunInbox, ClaimInbox, ReconcileInbox DEF Next
<1> QED
  BY <1>1, <1>2, PTL DEF Spec

(***************************************************************************)
(* The theorems                                                            *)
(***************************************************************************)
\* The variables of the claim hold values of their types, and no task has a
\* row without a folder: upsert_task comes after the rename of the folder.
THEOREM TypeCorrect == Spec => []TypeOK
BY InboxInvariant, PTL DEF InboxInv

\* Unless an operation of the runner fails, claim_inbox_item and its rmtree
\* never delete an entry of an item that was published as README.md prefers
\* and not taken back, whatever producers and crashes do meanwhile.
THEOREM CarefulItemsAreKept == Spec => []CarefulIsKept
<1>1. InboxInv => CarefulIsKept
  BY DEF InboxInv, EntryInv, CarefulIsKept
<1> QED
  BY <1>1, InboxInvariant, PTL

\* A task folder that claim_inbox_item publishes has every entry of such an
\* item, except those a dead runner had moved, which are in the quarantine.
THEOREM TaskFoldersAreWhole == Spec => []TaskIsWhole
<1>1. InboxInv => TaskIsWhole
  BY ItemsAssumption, FaultsAssumption DEF InboxInv, TypeOK, EntryInv, TaskIsWhole
<1> QED
  BY <1>1, InboxInvariant, PTL

\* When the coordinator looks for work, no claim of this runner or of an
\* earlier one is half done, and every task folder has its row.
THEOREM NoClaimIsHalfDone == Spec => []NothingHalfClaimed
<1>1. InboxInv => NothingHalfClaimed
  BY ItemsAssumption DEF InboxInv, TypeOK, EntryInv, StagingInv, RowInv, NothingHalfClaimed
<1> QED
  BY <1>1, InboxInvariant, PTL
=============================================================================
