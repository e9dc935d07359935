--------------------------- MODULE NetworkChange ---------------------------
(***************************************************************************)
(* NetworkChangeWorkflow: back up the running configuration, render the    *)
(* intent, check it, merge it into the device, validate, and on a failure  *)
(* put the backup back and mark the device.  The value of pc is the        *)
(* activity the workflow awaits; the workflow's own code between two       *)
(* awaits runs in the action that completes the first of them.             *)
(***************************************************************************)
EXTENDS DeviceActivities

VARIABLES backup,  \* backup_json, Absent until it is taken
          plan     \* device_data: the intent read, Absent until then

vars == <<world, pc, attempt, backup, plan>>

\* The run has ended for Temporal: it returned, or an ActivityError left it.
Closed == {"success", "backup_failed", "rollback_failed"}

\* The code raised a plain exception.  It is no Temporal failure, so the run
\* stays open and the worker retries its last workflow task for ever.
Stuck == {"render_error", "unhygienic", "rolled_back"}

\* Activities awaited without a retry policy.
Unlimited == {"store_backup", "fetch", "mark_unhygienic", "mark_rolled_back",
              "mark_active"}

Labels == Closed \cup Stuck \cup Unlimited
          \cup {"backup", "deploy", "validate_bgp", "validate_interfaces", "rollback"}

TypeOK ==
  /\ WorldTypeOK
  /\ pc \in Labels
  /\ attempt \in 1..MaxAttempts
  /\ backup \in Config \cup {Absent}
  /\ plan \in Intent \cup {Absent}

Init ==
  /\ WorldInit
  /\ pc = "backup"
  /\ attempt = 1
  /\ backup = Absent
  /\ plan = Absent

-----------------------------------------------------------------------------
Backup ==
  /\ pc = "backup"
  /\ backup' = running
  /\ Goto("store_backup")
  /\ UNCHANGED <<world, plan>>

BackupFails ==
  /\ pc = "backup"
  /\ ReadFails("backup_failed")
  /\ UNCHANGED <<backup, plan>>

StoreBackup ==
  /\ pc = "store_backup"
  /\ Goto("fetch")
  /\ UNCHANGED <<world, backup, plan>>

\* Mutant of NextAfterFetch: the verdict of the hygiene checks is dropped.
NextAfterFetchUnchecked(data) == IF ~Renders(data) THEN "render_error" ELSE "deploy"

\* Rendering and the hygiene checks run in the workflow, on what was fetched.
NextAfterFetch(data) ==
  IF ~Renders(data) THEN "render_error"
  ELSE IF ~PassesHygiene(data) THEN "mark_unhygienic" ELSE "deploy"

FetchDeviceConfig ==
  /\ pc = "fetch"
  /\ Fetchable(intent)
  /\ plan' = intent
  /\ Goto(NextAfterFetch(intent))
  /\ UNCHANGED <<world, backup>>

\* Mutant of Deploy: a failed deployment is validated like a successful one.
DeployIgnoringFailure ==
  /\ pc = "deploy"
  /\ \/ SetSucceeds(Update(Render(plan)), "validate_bgp")
     \/ SetFails(Update(Render(plan)), "validate_bgp")
  /\ UNCHANGED <<backup, plan>>

Deploy ==
  /\ pc = "deploy"
  /\ \/ SetSucceeds(Update(Render(plan)), "validate_bgp")
     \/ SetFails(Update(Render(plan)), "rollback")
  /\ UNCHANGED <<backup, plan>>

\* Whether the BGP sessions are established is up to the network.
ValidateBgp ==
  /\ pc = "validate_bgp"
  /\ \/ Goto("validate_interfaces")
     \/ RetryOr("rollback")
  /\ UNCHANGED <<world, backup, plan>>

\* An interface that is up administratively may still be down: the check can
\* always fail, and passes only if the admin states are the intended ones.
ValidateInterfaces ==
  /\ pc = "validate_interfaces"
  /\ \/ AdminStatesMatch(running, plan) /\ Goto("mark_active")
     \/ RetryOr("rollback")
  /\ UNCHANGED <<world, backup, plan>>

\* Mutant of RollbackSet: the rollback before issue #164, which merged.
RollbackSetMerging == Update(backup)

RollbackSet == Restore(backup)

\* The handlers of a failed deployment and of a failed validation.
Rollback ==
  /\ pc = "rollback"
  /\ \/ SetSucceeds(RollbackSet, "mark_rolled_back")
     \/ SetFails(RollbackSet, "rollback_failed")
  /\ UNCHANGED <<backup, plan>>

\* The status each update_device_status writes, and where the run goes then.
StatusStep == [mark_unhygienic  |-> [status |-> "maintenance", next |-> "unhygienic"],
               mark_rolled_back |-> [status |-> "maintenance", next |-> "rolled_back"],
               mark_active      |-> [status |-> "active", next |-> "success"]]

UpdateDeviceStatus ==
  /\ pc \in DOMAIN StatusStep
  /\ StatusWritten(StatusStep[pc].status, StatusStep[pc].next)
  /\ UNCHANGED <<backup, plan>>

UpdateDeviceStatusUnacked ==
  /\ pc \in DOMAIN StatusStep
  /\ StatusWrittenUnacked(StatusStep[pc].status)
  /\ UNCHANGED <<backup, plan>>

\* A failed attempt of an activity without a retry policy, and an ended run.
RetryForever == pc \in Unlimited /\ UNCHANGED vars

Ended == pc \in Closed \cup Stuck /\ UNCHANGED vars

-----------------------------------------------------------------------------
Progress ==
  \/ Backup \/ BackupFails \/ StoreBackup \/ FetchDeviceConfig \/ Deploy
  \/ ValidateBgp \/ ValidateInterfaces \/ Rollback \/ UpdateDeviceStatus

Next ==
  \/ Progress
  \/ UpdateDeviceStatusUnacked
  \/ RetryForever
  \/ Ended
  \/ Environment /\ UNCHANGED <<backup, plan>>

Spec == Init /\ [][Next]_vars

\* Temporal schedules an attempt until one succeeds or the policy is used up:
\* activities without a policy eventually have an attempt that succeeds.
FairSpec == Spec /\ WF_vars(Progress)

-----------------------------------------------------------------------------
(* Properties.                                                             *)

\* What the device holds if the change was merged into the backed-up baseline.
Intended == Merge(backup, Render(plan))

\* The transaction this workflow carries out on the device.
PhaseOf(label) ==
  CASE label \in {"deploy", "validate_bgp", "validate_interfaces"} -> "changing"
    [] label \in {"mark_active", "success"} -> "changed"
    [] label = "rollback" -> "restoring"
    [] label \in {"mark_rolled_back", "rolled_back"} -> "restored"
    [] label = "rollback_failed" -> "unresolved"
    [] OTHER -> "untouched"

Phase == PhaseOf(pc)

Began == Phase # "untouched"

Transaction ==
  INSTANCE ConfigTransaction
  WITH config <- running, phase <- Phase, Nothing <- Absent,
       base <- IF Began THEN backup ELSE Absent,
       target <- IF Began THEN Intended ELSE Absent

\* The workflow is a transaction from the backup to the backup with the intent
\* merged in: failed attempts, retries and lost acknowledgements leave the
\* device at one of the two, and a rollback restores the first exactly (issue
\* #164: a rollback that merges would not).
IsTransaction == Transaction!Spec

\* Timed-out SETs of both kinds may land in any order at any later time, after
\* other attempts, the rollback or the end of the run: from the backup on, the
\* device still holds the baseline or the baseline with the whole change, and
\* never a third configuration.
NoThirdConfiguration ==
  backup # Absent =>
    \/ running = backup
    \/ plan # Absent /\ running = Intended

\* When the workflow marks or reports a rollback, the device is back at
\* exactly the configuration backed up before the change.  (A SET that outlives
\* its attempt can undo that: runbooks.md's "automatically restored" is then false.)
RolledBackToBaseline ==
  pc \in {"mark_rolled_back", "rolled_back"} => running = backup

\* A device that left the baseline got there by an intent that rendered and
\* passed the hygiene checks.
OnlyHygienicIntentDeployed ==
  backup # Absent /\ running # backup =>
    plan # Absent /\ Renders(plan) /\ PassesHygiene(plan)

\* The workflow reports success, and writes "active", only for a device that
\* holds the change and has the intended admin states.
SuccessMeansIntended ==
  pc \in {"mark_active", "success"} =>
    running = Intended /\ AdminStatesMatch(running, plan)

\* Every run comes to its end, closed or stuck.
EventuallyEnds == <>(pc \in Closed \cup Stuck)

\* triggers.py: the device's workflow ID is re-used "after the previous
\* workflow closes, regardless of outcome".
EventuallyCloses == <>(pc \in Closed)
=============================================================================
