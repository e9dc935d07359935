-------------------------- MODULE DriftRemediation --------------------------
(***************************************************************************)
(* DriftRemediationWorkflow: compare the device with the intent, audit a   *)
(* difference, and unless the device is in maintenance or the drift is     *)
(* cosmetic merge the intent into the device again.  A failure is not      *)
(* rolled back: the device goes to maintenance and the run closes with an  *)
(* ApplicationError.                                                       *)
(***************************************************************************)
EXTENDS DeviceActivities

VARIABLES plan,      \* device_data["interfaces"], Absent until it is read
          seen,      \* device_data["status"], Absent until it is read
          decision,  \* the DriftAction, Absent until it is taken
          backup,    \* backup_json, Absent until it is taken
          audit      \* the kinds of the audit events logged

local == <<plan, seen, decision, backup, audit>>
vars == <<world, pc, attempt, local>>

Failed == {"fetch_running_failed", "backup_failed", "remediation_failed",
           "validation_failed"}

Closed == Failed \cup {"no_drift", "suppressed", "logged", "remediated"}

\* log_audit_event, and what comes next.
AuditStep ==
  [audit_detected          |-> [event |-> "DRIFT_DETECTED",
                                next |-> CASE decision = "suppress" -> "audit_suppressed"
                                           [] decision = "log_only" -> "audit_logged"
                                           [] OTHER -> "backup"],
   audit_suppressed        |-> [event |-> "DRIFT_SUPPRESSED_MAINTENANCE",
                                next |-> "suppressed"],
   audit_logged            |-> [event |-> "DRIFT_LOGGED", next |-> "logged"],
   audit_deploy_failed     |-> [event |-> "DRIFT_REMEDIATION_FAILED",
                                next |-> "remediation_failed"],
   audit_validation_failed |-> [event |-> "DRIFT_VALIDATION_FAILED",
                                next |-> "validation_failed"],
   audit_remediated        |-> [event |-> "DRIFT_REMEDIATED", next |-> "remediated"]]

\* The status each update_device_status writes, and where the run goes then.
StatusStep ==
  [mark_deploy_failed     |-> [status |-> "maintenance", next |-> "audit_deploy_failed"],
   mark_validation_failed |-> [status |-> "maintenance",
                               next |-> "audit_validation_failed"],
   mark_active            |-> [status |-> "active", next |-> "audit_remediated"]]

Unlimited == DOMAIN AuditStep \cup DOMAIN StatusStep
             \cup {"fetch_device", "fetch_interfaces", "render"}

Labels == Closed \cup Unlimited
          \cup {"fetch_running", "backup", "store_backup", "deploy",
                "validate_bgp", "validate_interfaces"}

Events == {"DRIFT_DETECTED", "DRIFT_SUPPRESSED_MAINTENANCE", "DRIFT_LOGGED",
           "DRIFT_REMEDIATION_FAILED", "DRIFT_VALIDATION_FAILED",
           "DRIFT_REMEDIATED"}

TypeOK ==
  /\ WorldTypeOK
  /\ pc \in Labels
  /\ attempt \in 1..MaxAttempts
  /\ plan \in Intent \cup {Absent}
  /\ seen \in Statuses \cup {Absent}
  /\ decision \in {"none", "suppress", "log_only", "remediate", Absent}
  /\ backup \in Config \cup {Absent}
  /\ audit \subseteq Events

Init ==
  /\ WorldInit
  /\ pc = "fetch_device"
  /\ attempt = 1
  /\ plan = Absent /\ seen = Absent
  /\ decision = Absent /\ backup = Absent
  /\ audit = {}

-----------------------------------------------------------------------------
(* fetch_device_config queries Infrahub for the device and then, in another *)
(* request, for its interfaces.                                             *)

FetchDevice ==
  /\ pc = "fetch_device"
  /\ Fetchable(intent)
  /\ seen' = status
  /\ Goto("fetch_interfaces")
  /\ UNCHANGED <<world, plan, decision, backup, audit>>

FetchInterfaces ==
  /\ pc = "fetch_interfaces"
  /\ Fetchable(intent)
  /\ plan' = intent
  /\ Goto("render")
  /\ UNCHANGED <<world, seen, decision, backup, audit>>

\* The activity failed after its first query, and starts over.
FetchInterfacesFails ==
  /\ pc = "fetch_interfaces"
  /\ Goto("fetch_device")
  /\ UNCHANGED <<world, local>>

\* render_intended_config parses what it rendered: a text the template does
\* not escape fails every attempt.
RenderIntendedConfig ==
  /\ pc = "render"
  /\ Renders(plan)
  /\ Goto("fetch_running")
  /\ UNCHANGED <<world, local>>

Decide(running_config) ==
  DecideDriftAction(ClassifyDrift(Render(plan), running_config), seen)

FetchRunningConfig ==
  /\ pc = "fetch_running"
  /\ decision' = Decide(running)
  /\ Goto(IF decision' = "none" THEN "no_drift" ELSE "audit_detected")
  /\ UNCHANGED <<world, plan, seen, backup, audit>>

FetchRunningConfigFails ==
  /\ pc = "fetch_running"
  /\ ReadFails("fetch_running_failed")
  /\ UNCHANGED local

LogAuditEvent ==
  /\ pc \in DOMAIN AuditStep
  /\ audit' = audit \cup {AuditStep[pc].event}
  /\ Goto(AuditStep[pc].next)
  /\ UNCHANGED <<world, plan, seen, decision, backup>>

Backup ==
  /\ pc = "backup"
  /\ backup' = running
  /\ Goto("store_backup")
  /\ UNCHANGED <<world, plan, seen, decision, audit>>

StoreBackup ==
  /\ pc = "store_backup"
  /\ Goto("deploy")
  /\ UNCHANGED <<world, local>>

BackupFails ==
  /\ pc \in {"backup", "store_backup"}
  /\ ReadFails("backup_failed")
  /\ UNCHANGED local

\* Mutants of Deploy: its failure is audited and the device not put in
\* maintenance, or the remediation starts over.
DeployStartingOver ==
  /\ pc = "deploy"
  /\ \/ SetSucceeds(Update(Render(plan)), "validate_bgp")
     \/ SetFails(Update(Render(plan)), "fetch_device")
  /\ UNCHANGED local

DeployFailureUnmarked ==
  /\ pc = "deploy"
  /\ \/ SetSucceeds(Update(Render(plan)), "validate_bgp")
     \/ SetFails(Update(Render(plan)), "audit_deploy_failed")
  /\ UNCHANGED local

Deploy ==
  /\ pc = "deploy"
  /\ \/ SetSucceeds(Update(Render(plan)), "validate_bgp")
     \/ SetFails(Update(Render(plan)), "mark_deploy_failed")
  /\ UNCHANGED local

ValidateBgp ==
  /\ pc = "validate_bgp"
  /\ \/ Goto("validate_interfaces")
     \/ RetryOr("mark_validation_failed")
  /\ UNCHANGED <<world, local>>

ValidateInterfaces ==
  /\ pc = "validate_interfaces"
  /\ \/ AdminStatesMatch(running, plan) /\ Goto("mark_active")
     \/ RetryOr("mark_validation_failed")
  /\ UNCHANGED <<world, local>>

UpdateDeviceStatus ==
  /\ pc \in DOMAIN StatusStep
  /\ StatusWritten(StatusStep[pc].status, StatusStep[pc].next)
  /\ UNCHANGED local

UpdateDeviceStatusUnacked ==
  /\ pc \in DOMAIN StatusStep
  /\ StatusWrittenUnacked(StatusStep[pc].status)
  /\ UNCHANGED local

RetryForever == pc \in Unlimited /\ UNCHANGED vars

Ended == pc \in Closed /\ UNCHANGED vars

-----------------------------------------------------------------------------
Progress ==
  \/ FetchDevice \/ FetchInterfaces \/ RenderIntendedConfig
  \/ FetchRunningConfig \/ FetchRunningConfigFails \/ LogAuditEvent
  \/ Backup \/ StoreBackup \/ BackupFails \/ Deploy
  \/ ValidateBgp \/ ValidateInterfaces \/ UpdateDeviceStatus

Next ==
  \/ Progress
  \/ FetchInterfacesFails
  \/ UpdateDeviceStatusUnacked
  \/ RetryForever
  \/ Ended
  \/ Environment /\ UNCHANGED local

Spec == Init /\ [][Next]_vars

\* As NetworkChange.  Strong fairness for the second query: an attempt that
\* gets as far as it is not for ever cut short there.
FairSpec == Spec /\ WF_vars(Progress) /\ SF_vars(FetchInterfaces)

-----------------------------------------------------------------------------
(* Properties.                                                             *)

Intended == Merge(backup, Render(plan))

\* The transaction this workflow carries out on the device: it has no rollback.
Phase ==
  CASE pc \in {"deploy", "validate_bgp", "validate_interfaces"} -> "changing"
    [] pc \in {"mark_active", "audit_remediated", "remediated"} -> "changed"
    [] pc \in {"mark_deploy_failed", "audit_deploy_failed", "remediation_failed",
               "mark_validation_failed", "audit_validation_failed",
               "validation_failed"} -> "unresolved"
    [] OTHER -> "untouched"

Began == Phase # "untouched"

Transaction ==
  INSTANCE ConfigTransaction
  WITH config <- running, phase <- Phase, Nothing <- Absent,
       base <- IF Began THEN backup ELSE Absent,
       target <- IF Began THEN Intended ELSE Absent

\* A remediation changes the device from the backup to the backup with the
\* intent merged in and to nothing else; where it fails it is at one of the two.
IsTransaction == Transaction!Spec

\* A device is changed only after the drift was put on the audit trail and the
\* device's configuration backed up, and if it was not in maintenance when its
\* status was read.
ChangesInOrder ==
  [][running' # running =>
       /\ "DRIFT_DETECTED" \in audit
       /\ backup # Absent
       /\ seen \notin {Absent, "maintenance"}]_vars

\* A remediation that failed after the device may have been touched leaves it
\* in maintenance and on the audit trail; one that is reported left the device
\* active with every leaf of the intent that was read.
OutcomeIsRecorded ==
  /\ pc = "remediation_failed" =>
       status = "maintenance" /\ "DRIFT_REMEDIATION_FAILED" \in audit
  /\ pc = "validation_failed" =>
       status = "maintenance" /\ "DRIFT_VALIDATION_FAILED" \in audit
  /\ pc = "remediated" =>
       /\ status = "active"
       /\ Merge(running, Render(plan)) = running
       /\ {"DRIFT_DETECTED", "DRIFT_REMEDIATED"} \subseteq audit

\* Every run closes, and with it releases the device.
EventuallyCloses == <>(pc \in Closed)

\* drift_remediation_workflow.py:101, "a device in maintenance is never
\* touched": no step changes the device while its status is maintenance.
MaintenanceNeverTouched ==
  [][running' # running => status # "maintenance"]_vars
=============================================================================
