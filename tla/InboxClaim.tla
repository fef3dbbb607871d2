----------------------------- MODULE InboxClaim -----------------------------
(***************************************************************************)
(* How an item of inbox/ becomes a task folder, entry by entry.            *)
(*                                                                         *)
(* claim_inbox_item moves the entries of an item one by one into           *)
(* tasks/.claiming-<id>/input, removes the empty item, completes the       *)
(* folder, renames it to tasks/<id> and only then inserts the row.  The    *)
(* claim never suspends, so nothing else of the runner moves meanwhile;    *)
(* the producers of the item, other processes and a crash do.              *)
(***************************************************************************)
EXTENDS Naturals, FiniteSets

CONSTANTS
  Items,      \* names under inbox/
  Files,      \* entries of those items
  ItemOf,     \* the item an entry belongs to
  Bare,       \* items that are a file and not a folder
  Atomic,     \* folders renamed into inbox/ when they are complete
  NoItem,     \* no item
  Faults,     \* where the runner's own file and database operations may fail
  MaxFaults, MaxRestarts   \* bounds on failures, and on crashes and stops

FaultKinds == {"rename", "prepare", "record"}

ASSUME ItemsAssumption == NoItem \notin Items /\ ItemOf \in [Files -> Items]
ASSUME KindsAssumption ==
  /\ Bare \subseteq Items /\ Atomic \subseteq Items \ Bare
  /\ \A i \in Bare : \E f \in Files : \A g \in Files : ItemOf[g] = i <=> g = f
ASSUME FaultsAssumption == Faults \subseteq FaultKinds /\ {MaxFaults, MaxRestarts} \subseteq Nat

VARIABLES
  item,      \* per item: absent, present in inbox/, taken by a claim, withdrawn
  where,     \* per entry: the place it is in
  staging,   \* the item with a folder tasks/.claiming-*, NoItem without one
  taskDir,   \* items with a folder tasks/<id>
  row,       \* items whose task has a row
  phase,     \* the runner: down, reconciling claims or orphans, up
  todo,      \* folders the start-up has still to look at
  cpc, citem, cleft,   \* the coordinator: place, item, entries still listed
  stopping,  \* SIGTERM has been sent
  faults, restarts     \* failures, and crashes and stops, so far

files   == <<item, where, staging, taskDir, row>>
claim   == <<cpc, citem, cleft>>
history == <<stopping, faults, restarts>>
vars    == <<files, phase, todo, claim, history>>

Places == {"unwritten", "inbox", "staging", "task", "quarantine", "deleted", "withdrawn"}
EntriesOf(i) == {f \in Files : ItemOf[f] = i}

\* The variables hold values of their types, and a task with a row has its
\* folder: claim_inbox_item makes the folder first.
TypeOK ==
  /\ item \in [Items -> {"absent", "present", "taken", "withdrawn"}]
  /\ where \in [Files -> Places]
  /\ staging \in Items \cup {NoItem}
  /\ taskDir \in SUBSET Items
  /\ row \in SUBSET taskDir
  /\ todo \in SUBSET (taskDir \ row)
  /\ phase \in {"down", "claims", "orphans", "up"}
  /\ cpc \in {"sleep", "scan", "list", "move", "prepare", "record", "cleanup"}
  /\ citem \in Items \cup {NoItem}
  /\ cleft \in SUBSET Files
  /\ stopping \in BOOLEAN
  /\ faults \in 0..MaxFaults
  /\ restarts \in 0..MaxRestarts

Init ==
  /\ item = [i \in Items |-> "absent"]
  /\ where = [f \in Files |-> "unwritten"]
  /\ staging = NoItem /\ taskDir = {} /\ row = {}
  /\ phase = "down" /\ todo = {}
  /\ cpc = "sleep" /\ citem = NoItem /\ cleft = {}
  /\ stopping = FALSE /\ faults = 0 /\ restarts = 0

\* Entries in place "from" of which the set says so are in place "to".
Relocate(set, from, to) ==
  where' = [f \in Files |-> IF f \in set /\ where[f] = from THEN to ELSE where[f]]

MayFail(kind) ==
  /\ kind \in Faults /\ faults < MaxFaults
  /\ faults' = faults + 1

(***************************************************************************)
(* Producers                                                               *)
(***************************************************************************)
\* A bare file, or a folder that is renamed into inbox/ when complete.
CreateInboxTask(i) ==
  /\ i \in Bare \cup Atomic
  /\ item[i] = "absent"
  /\ item' = [item EXCEPT ![i] = "present"]
  /\ Relocate(EntriesOf(i), "unwritten", "inbox")
  /\ UNCHANGED <<staging, taskDir, row, phase, todo, claim, history>>

\* As example-task does: the folder first ...
MakeFolder(i) ==
  /\ i \notin Bare \cup Atomic
  /\ item[i] = "absent"
  /\ item' = [item EXCEPT ![i] = "present"]
  /\ UNCHANGED <<where, staging, taskDir, row, phase, todo, claim, history>>

\* ... and then what belongs in it, if the folder is still there.
WriteEntry(f) ==
  /\ ItemOf[f] \notin Bare \cup Atomic
  /\ item[ItemOf[f]] = "present"
  /\ where[f] = "unwritten"
  /\ where' = [where EXCEPT ![f] = "inbox"]
  /\ UNCHANGED <<item, staging, taskDir, row, phase, todo, claim, history>>

\* The item is taken back, with what is left of it.
Withdraw(i) ==
  /\ item[i] = "present"
  /\ item' = [item EXCEPT ![i] = "withdrawn"]
  /\ Relocate(EntriesOf(i), "inbox", "withdrawn")
  /\ UNCHANGED <<staging, taskDir, row, phase, todo, claim, history>>

(***************************************************************************)
(* claim_inbox_item, called by start_available_workers                     *)
(***************************************************************************)
Goto(place) == cpc' = place /\ UNCHANGED <<phase, todo, stopping, restarts>>

Wake ==
  /\ phase = "up" /\ cpc = "sleep" /\ ~stopping
  /\ Goto("scan")
  /\ UNCHANGED <<files, citem, cleft, faults>>

\* Nothing is stable, or no worker slot is free: back to sleep_or_stop.
Sleep ==
  /\ cpc = "scan"
  /\ Goto("sleep")
  /\ UNCHANGED <<files, citem, cleft, faults>>

\* Mutant: the task is recorded as soon as its id is reserved.
RecordThenStage(i) ==
  /\ cpc = "scan"
  /\ item[i] = "present"
  /\ citem' = i
  /\ staging' = i
  /\ row' = row \cup {i}
  /\ Goto("list")
  /\ UNCHANGED <<item, where, taskDir, cleft, faults>>

\* An item that has not changed for inbox_settle_seconds; how long its
\* producer pauses is up to the producer.
StageItem(i) ==
  /\ cpc = "scan"
  /\ item[i] = "present"
  /\ citem' = i
  /\ staging' = i
  /\ Goto("list")
  /\ UNCHANGED <<item, where, taskDir, row, cleft, faults>>

\* Mutant: an item that is gone is waited for.
WaitForItem ==
  /\ cpc = "list"
  /\ cleft' = {f \in EntriesOf(citem) : where[f] = "inbox"}
  /\ Goto(IF item[citem] = "present" THEN "move" ELSE "list")
  /\ UNCHANGED <<files, citem, faults>>

\* list(item.iterdir()), once; an item that is gone raises.
ListEntries ==
  /\ cpc = "list"
  /\ cleft' = {f \in EntriesOf(citem) : where[f] = "inbox"}
  /\ Goto(IF item[citem] = "present" THEN "move" ELSE "cleanup")
  /\ UNCHANGED <<files, citem, faults>>

\* A bare file leaves the inbox with its only rename.
MoveEntry(f) ==
  /\ cpc = "move" /\ f \in cleft
  /\ where[f] = "inbox"
  /\ where' = [where EXCEPT ![f] = "staging"]
  /\ cleft' = cleft \ {f}
  /\ item' = IF citem \in Bare THEN [item EXCEPT ![citem] = "taken"] ELSE item
  /\ Goto("move")
  /\ UNCHANGED <<staging, taskDir, row, citem, faults>>

\* An entry has gone, or os.rename fails.
MoveFails ==
  /\ cpc = "move" /\ cleft # {}
  /\ \/ (\E f \in cleft : where[f] # "inbox") /\ UNCHANGED faults
     \/ MayFail("rename")
  /\ Goto("cleanup")
  /\ UNCHANGED <<files, citem, cleft>>

\* item.rmdir() raises if an entry was added, or if the item has gone.
RemoveItemDir ==
  /\ cpc = "move" /\ cleft = {}
  /\ IF citem \in Bare
     THEN Goto("prepare") /\ UNCHANGED item
     ELSE IF item[citem] = "present" /\ \A f \in EntriesOf(citem) : where[f] # "inbox"
     THEN Goto("prepare") /\ item' = [item EXCEPT ![citem] = "taken"]
     ELSE Goto("cleanup") /\ UNCHANGED item
  /\ UNCHANGED <<where, staging, taskDir, row, citem, cleft, faults>>

\* The folder is completed and renamed to tasks/<id>.
PublishTask ==
  /\ cpc = "prepare"
  /\ Relocate(EntriesOf(citem), "staging", "task")
  /\ taskDir' = taskDir \cup {citem}
  /\ staging' = NoItem
  /\ Goto("record")
  /\ UNCHANGED <<item, row, citem, cleft, faults>>

\* It cannot be completed: no space, say.
PrepareFails ==
  /\ cpc = "prepare"
  /\ MayFail("prepare")
  /\ Goto("cleanup")
  /\ UNCHANGED <<files, citem, cleft>>

EndClaim == citem' = NoItem /\ cleft' = {} /\ Goto("scan")

\* Mutant: a half-made folder is left for later.
LeaveStaging ==
  /\ cpc = "cleanup"
  /\ EndClaim
  /\ UNCHANGED <<files, faults>>

\* shutil.rmtree(staging), with the entries that are in it.  The claim is
\* tried again at once, without an await.
CleanUp ==
  /\ cpc = "cleanup"
  /\ Relocate(Files, "staging", "deleted")
  /\ staging' = NoItem
  /\ EndClaim
  /\ UNCHANGED <<item, taskDir, row, faults>>

\* append_event and upsert_task; if one fails the folder has no row.
RecordClaim ==
  /\ cpc = "record"
  /\ \/ row' = row \cup {citem} /\ UNCHANGED faults
     \/ MayFail("record") /\ UNCHANGED row
  /\ EndClaim
  /\ UNCHANGED <<item, where, staging, taskDir>>

(***************************************************************************)
(* Start-up, stop and crash                                                *)
(***************************************************************************)
StartRunner ==
  /\ phase = "down"
  /\ phase' = "claims"
  /\ stopping' = FALSE
  /\ UNCHANGED <<files, todo, claim, faults, restarts>>

\* Mutants: a half-claimed folder is adopted as a task, or removed.
AdoptClaimingDirs ==
  /\ phase = "claims"
  /\ phase' = "orphans"
  /\ Relocate(Files, "staging", "task")
  /\ taskDir' = taskDir \cup ({staging} \ {NoItem})
  /\ staging' = NoItem
  /\ todo' = taskDir' \ row
  /\ UNCHANGED <<item, row, claim, history>>
RemoveClaimingDirs ==
  /\ phase = "claims"
  /\ phase' = "orphans"
  /\ Relocate(Files, "staging", "deleted")
  /\ staging' = NoItem
  /\ todo' = taskDir \ row
  /\ UNCHANGED <<item, taskDir, row, claim, history>>

\* reconcile_claiming_dirs: to tasks/.quarantine with what a dead runner had
\* claimed by half.  Then the folders without a row are looked for.
ReconcileClaimingDirs ==
  /\ phase = "claims"
  /\ phase' = "orphans"
  /\ Relocate(Files, "staging", "quarantine")
  /\ staging' = NoItem
  /\ todo' = taskDir \ row
  /\ UNCHANGED <<item, taskDir, row, claim, history>>

\* reconcile_orphan_task_dirs: a folder without a row gets one.  If that fails
\* it is set aside, and if that fails, too, it is left.
ReconcileOrphan(i) ==
  /\ phase = "orphans" /\ i \in todo
  /\ todo' = todo \ {i}
  /\ \/ /\ row' = row \cup {i}
        /\ UNCHANGED <<where, taskDir, faults>>
     \/ /\ MayFail("record")
        /\ Relocate(EntriesOf(i), "task", "quarantine")
        /\ taskDir' = taskDir \ {i}
        /\ UNCHANGED row
     \/ MayFail("record") /\ UNCHANGED <<where, taskDir, row>>
  /\ UNCHANGED <<item, staging, phase, claim, stopping, restarts>>

\* Mutant: the loops start without a look at the folders.
EnterLoopsAtOnce ==
  /\ phase = "orphans"
  /\ phase' = "up" /\ todo' = {}
  /\ UNCHANGED <<files, claim, history>>

EnterLoops ==
  /\ phase = "orphans" /\ todo = {}
  /\ phase' = "up"
  /\ UNCHANGED <<files, todo, claim, history>>

Sigterm ==
  /\ phase = "up" /\ ~stopping /\ restarts < MaxRestarts
  /\ stopping' = TRUE
  /\ restarts' = restarts + 1
  /\ UNCHANGED <<files, phase, todo, claim, faults>>

\* The signal handler runs when the event loop does.
HandleStop ==
  /\ phase = "up" /\ cpc = "sleep" /\ stopping
  /\ phase' = "down"
  /\ UNCHANGED <<files, todo, claim, history>>

Crash ==
  /\ phase # "down" /\ restarts < MaxRestarts
  /\ phase' = "down" /\ todo' = {}
  /\ restarts' = restarts + 1
  /\ cpc' = "sleep" /\ citem' = NoItem /\ cleft' = {}
  /\ UNCHANGED <<files, stopping, faults>>

(***************************************************************************)
(* The specification                                                       *)
(***************************************************************************)
Produce ==
  \/ \E i \in Items : CreateInboxTask(i) \/ MakeFolder(i) \/ Withdraw(i)
  \/ \E f \in Files : WriteEntry(f)

Claim ==
  \/ ListEntries \/ (\E f \in Files : MoveEntry(f)) \/ MoveFails \/ RemoveItemDir
  \/ PublishTask \/ PrepareFails \/ CleanUp \/ RecordClaim

Reconcile ==
  StartRunner \/ ReconcileClaimingDirs \/ (\E i \in Items : ReconcileOrphan(i)) \/ EnterLoops

Next ==
  \/ Produce
  \/ Wake \/ Sleep \/ (\E i \in Items : StageItem(i)) \/ Claim
  \/ Reconcile
  \/ Sigterm \/ HandleStop \/ Crash

Spec == Init /\ [][Next]_vars

\* The runner goes on, is started again when it is down (Restart=always), and
\* an item that stays becomes stable and has its turn (they are sorted by age).
Fairness ==
  /\ WF_vars(Reconcile)
  /\ WF_vars(Wake) /\ WF_vars(Sleep \/ \E i \in Items : StageItem(i))
  /\ WF_vars(Claim)
  /\ WF_vars(HandleStop)
  /\ \A i \in Items : SF_vars(StageItem(i))

FairSpec == Spec /\ Fairness

(***************************************************************************)
(* Properties                                                              *)
(***************************************************************************)
\* Published as README.md "Inbox publishing safety" prefers, and not taken
\* back while it was being claimed.
Careful(i) == i \in Bare \cup Atomic /\ item[i] # "withdrawn"

\* Unless an operation of the runner fails, no entry of a carefully published
\* item is deleted, whatever is published, withdrawn or killed meanwhile.
CarefulIsKept ==
  faults = 0 => \A f \in Files : Careful(ItemOf[f]) => where[f] # "deleted"

\* A task folder has every entry of a carefully published item.  Those that a
\* dead runner had moved are in the quarantine, never lost or left behind.
TaskIsWhole ==
  faults = 0 => \A f \in Files :
    (Careful(ItemOf[f]) /\ ItemOf[f] \in taskDir) =>
      where[f] \in {"task"} \cup (IF restarts = 0 THEN {} ELSE {"quarantine"})

\* When the coordinator looks for work there is no half-claimed folder, of
\* this runner or of an earlier one, and, unless an operation has failed, every
\* task folder has its row, though the folder is there first.
NothingHalfClaimed ==
  (phase = "up" /\ cpc \in {"sleep", "scan"}) =>
    /\ staging = NoItem /\ \A f \in Files : where[f] # "staging"
    /\ faults = 0 => taskDir = row

\* An item that is published leaves the inbox, and each of its entries ends in
\* a task with a row or, after a crash in the middle, in the quarantine.
EventuallyClaimed ==
  \A f \in Files :
    (where[f] = "inbox" /\ ItemOf[f] \in Bare \cup Atomic) ~>
      \/ where[f] = "task" /\ ItemOf[f] \in row
      \/ where[f] = "quarantine"
      \/ item[ItemOf[f]] = "withdrawn"
      \/ faults > 0

\* SIGTERM ends the runner.  A claim that fails is tried again without an
\* await, so this takes that claims do not fail for ever (MaxFaults).
StopIsHeeded == stopping ~> phase = "down"

(***************************************************************************)
(* What the documentation says and the code does not do                    *)
(***************************************************************************)
\* README.md "What gets created": "A dropped folder keeps its contents" and
\* "Producer files are always moved under `input/`", so those of an item that
\* was not taken back are never deleted.
FilesAreKept ==
  \A f \in Files : item[ItemOf[f]] # "withdrawn" => where[f] # "deleted"
=============================================================================
