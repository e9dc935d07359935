-------------------------- MODULE EmergencyChange --------------------------
(***************************************************************************)
(* EmergencyChangeWorkflow: an operator's configuration is pushed without  *)
(* hygiene checks while the device is in maintenance, permanently or until *)
(* a time to live runs out, when the backup is put back.  Every failure is *)
(* an ApplicationError, which closes the run.                              *)
(***************************************************************************)
EXTENDS DeviceActivities, Integers

VARIABLES change,  \* config_json, what the operator wants on the device
          ttl,     \* the sign of ttl_seconds
          backup,  \* backup_json, Absent until it is taken
          audit    \* the kinds of the audit events logged

vars == <<world, pc, attempt, change, ttl, backup, audit>>

Closed == {"rejected", "backup_failed", "deploy_failed", "validation_failed",
           "applied", "reverted", "revert_failed"}

\* log_audit_event without a retry policy: the event and what comes next.
AuditStep ==
  [audit_initiated         |-> [event |-> "EMERGENCY_INITIATED", next |-> "backup"],
   audit_deploy_failed     |-> [event |-> "EMERGENCY_DEPLOY_FAILED",
                                next |-> "deploy_failed"],
   audit_validation_failed |-> [event |-> "EMERGENCY_VALIDATION_FAILED",
                                next |-> "validation_failed"],
   audit_applied           |-> [event |-> "EMERGENCY_APPLIED",
                                next |-> IF ttl > 0
                                         THEN "sleep" ELSE "mark_applied"],
   audit_revert_failed     |-> [event |-> "EMERGENCY_REVERT_FAILED",
                                next |-> "revert_failed"]]

AuditLabels == DOMAIN AuditStep

Unlimited == AuditLabels \cup {"mark_maintenance"}

Labels == Closed \cup Unlimited
          \cup {"start", "backup", "store_backup", "deploy", "validate_bgp",
                "rollback_deploy", "rollback_validation", "sleep", "revert",
                "mark_applied", "mark_reverted", "audit_reverted"}

Events == {"EMERGENCY_INITIATED", "EMERGENCY_DEPLOY_FAILED",
           "EMERGENCY_VALIDATION_FAILED", "EMERGENCY_APPLIED",
           "EMERGENCY_REVERT_FAILED", "EMERGENCY_REVERTED"}

TypeOK ==
  /\ WorldTypeOK
  /\ pc \in Labels
  /\ attempt \in 1..MaxAttempts
  /\ change \in Config
  /\ ttl \in {-1, 0, 1}
  /\ backup \in Config \cup {Absent}
  /\ audit \subseteq Events

Init ==
  /\ WorldInit
  /\ pc = "start"
  /\ attempt = 1
  /\ change \in DeviceConfigs
  /\ ttl \in {-1, 0, 1}
  /\ backup = Absent
  /\ audit = {}

-----------------------------------------------------------------------------
input == <<change, ttl>>

\* Mutant of Start: the change is made before it is put on the audit trail.
StartUnaudited ==
  /\ pc = "start"
  /\ Goto(IF ttl < 0 THEN "rejected" ELSE "backup")
  /\ UNCHANGED <<world, input, backup, audit>>

Start ==
  /\ pc = "start"
  /\ Goto(IF ttl < 0 THEN "rejected" ELSE "audit_initiated")
  /\ UNCHANGED <<world, input, backup, audit>>

LogAuditEvent ==
  /\ pc \in AuditLabels
  /\ audit' = audit \cup {AuditStep[pc].event}
  /\ Goto(AuditStep[pc].next)
  /\ UNCHANGED <<world, input, backup>>

Backup ==
  /\ pc = "backup"
  /\ backup' = running
  /\ Goto("store_backup")
  /\ UNCHANGED <<world, input, audit>>

\* Mutant of StoreBackup: the device is not put in maintenance first.
StoreBackupUnmarked ==
  /\ pc = "store_backup"
  /\ Goto("deploy")
  /\ UNCHANGED <<world, input, backup, audit>>

StoreBackup ==
  /\ pc = "store_backup"
  /\ Goto("mark_maintenance")
  /\ UNCHANGED <<world, input, backup, audit>>

BackupFails ==
  /\ pc \in {"backup", "store_backup"}
  /\ ReadFails("backup_failed")
  /\ UNCHANGED <<input, backup, audit>>

MarkMaintenance ==
  /\ pc = "mark_maintenance"
  /\ StatusWritten("maintenance", "deploy")
  /\ UNCHANGED <<input, backup, audit>>

MarkMaintenanceUnacked ==
  /\ pc = "mark_maintenance"
  /\ StatusWrittenUnacked("maintenance")
  /\ UNCHANGED <<input, backup, audit>>

Deploy ==
  /\ pc = "deploy"
  /\ \/ SetSucceeds(Update(change), "validate_bgp")
     \/ SetFails(Update(change), "rollback_deploy")
  /\ UNCHANGED <<input, backup, audit>>

ValidateBgp ==
  /\ pc = "validate_bgp"
  /\ \/ Goto("audit_applied")
     \/ RetryOr("rollback_validation")
  /\ UNCHANGED <<world, input, backup, audit>>

\* The rollback and the audit event are in one try: a rollback that fails is
\* logged, its audit event is skipped, and the error is raised all the same.
AfterRollback == [rollback_deploy |-> [ok    |-> "audit_deploy_failed",
                                       error |-> "deploy_failed"],
                  rollback_validation |-> [ok    |-> "audit_validation_failed",
                                           error |-> "validation_failed"]]

\* Mutant of Rollback: it is tried until it is done.
RollbackUntilDone ==
  /\ pc \in DOMAIN AfterRollback
  /\ \/ SetSucceeds(Restore(backup), AfterRollback[pc].ok)
     \/ SetFails(Restore(backup), pc)
  /\ UNCHANGED <<input, backup, audit>>

Rollback ==
  /\ pc \in DOMAIN AfterRollback
  /\ \/ SetSucceeds(Restore(backup), AfterRollback[pc].ok)
     \/ SetFails(Restore(backup), AfterRollback[pc].error)
  /\ UNCHANGED <<input, backup, audit>>

\* workflow.sleep: a durable timer, which a restart of the worker survives.
TtlExpires ==
  /\ pc = "sleep"
  /\ Goto("revert")
  /\ UNCHANGED <<world, input, backup, audit>>

\* Mutants of Revert: it merges the backup, or passes over its failure.
RevertMerging ==
  /\ pc = "revert"
  /\ \/ SetSucceeds(Update(backup), "mark_reverted")
     \/ SetFails(Update(backup), "audit_revert_failed")
  /\ UNCHANGED <<input, backup, audit>>

RevertIgnoringFailure ==
  /\ pc = "revert"
  /\ \/ SetSucceeds(Restore(backup), "mark_reverted")
     \/ SetFails(Restore(backup), "mark_reverted")
  /\ UNCHANGED <<input, backup, audit>>

Revert ==
  /\ pc = "revert"
  /\ \/ SetSucceeds(Restore(backup), "mark_reverted")
     \/ SetFails(Restore(backup), "audit_revert_failed")
  /\ UNCHANGED <<input, backup, audit>>

\* Housekeeping never fails the run: an error is logged and passed over.
AfterMark == [mark_applied |-> "applied", mark_reverted |-> "audit_reverted"]

MarkActive ==
  /\ pc \in DOMAIN AfterMark
  /\ \/ StatusWritten("active", AfterMark[pc])
     \/ StatusWriteFails("active", AfterMark[pc])
  /\ UNCHANGED <<input, backup, audit>>

AuditReverted ==
  /\ pc = "audit_reverted"
  /\ \/ audit' = audit \cup {"EMERGENCY_REVERTED"} /\ Goto("reverted")
     \/ UNCHANGED audit /\ RetryOr("reverted")
     \/ /\ "ackLost" \in Faults
        /\ audit' = audit \cup {"EMERGENCY_REVERTED"}
        /\ RetryOr("reverted")
  /\ UNCHANGED <<world, input, backup>>

RetryForever == pc \in Unlimited /\ UNCHANGED vars

Ended == pc \in Closed /\ UNCHANGED vars

-----------------------------------------------------------------------------
Progress ==
  \/ Start \/ LogAuditEvent \/ Backup \/ BackupFails \/ StoreBackup
  \/ MarkMaintenance \/ Deploy \/ ValidateBgp \/ Rollback \/ TtlExpires
  \/ Revert \/ MarkActive \/ AuditReverted

Next ==
  \/ Progress
  \/ MarkMaintenanceUnacked
  \/ RetryForever
  \/ Ended
  \/ Environment /\ UNCHANGED <<input, backup, audit>>

Spec == Init /\ [][Next]_vars

\* As NetworkChange: unlimited retries eventually succeed, timers fire.
FairSpec == Spec /\ WF_vars(Progress)

-----------------------------------------------------------------------------
(* Properties.                                                             *)

Intended == Merge(backup, change)

\* The transaction this workflow carries out on the device.  A run that failed
\* restored the device only if it got as far as its audit event.
Phase ==
  CASE pc \in {"deploy", "validate_bgp"} -> "changing"
    [] pc \in {"audit_applied", "sleep", "mark_applied", "applied"} -> "changed"
    [] pc \in {"rollback_deploy", "rollback_validation", "revert"} -> "restoring"
    [] \/ pc \in {"audit_deploy_failed", "audit_validation_failed",
                  "mark_reverted", "audit_reverted", "reverted"}
       \/ pc = "deploy_failed" /\ "EMERGENCY_DEPLOY_FAILED" \in audit
       \/ pc = "validation_failed" /\ "EMERGENCY_VALIDATION_FAILED" \in audit
       -> "restored"
    [] \/ pc \in {"audit_revert_failed", "revert_failed"}
       \/ pc = "deploy_failed" /\ "EMERGENCY_DEPLOY_FAILED" \notin audit
       \/ pc = "validation_failed" /\ "EMERGENCY_VALIDATION_FAILED" \notin audit
       -> "unresolved"
    [] OTHER -> "untouched"

Began == Phase # "untouched"

Transaction ==
  INSTANCE ConfigTransaction
  WITH config <- running, phase <- Phase, Nothing <- Absent,
       base <- IF Began THEN backup ELSE Absent,
       target <- IF Began THEN Intended ELSE Absent

\* The workflow is a transaction from the backup to the backup with the change
\* merged in: no failure, retry or lost acknowledgement leaves the device at a
\* third configuration, and a run that says it reverted did so exactly.
IsTransaction == Transaction!Spec

\* Unless the change was applied for good or taken back, a device that is not
\* at its baseline is in maintenance, so that no drift remediation touches it:
\* also when a run failed and its rollback with it.
UnsettledInMaintenance ==
  /\ backup # Absent
  /\ running # backup
  /\ pc \notin {"mark_applied", "applied"}
  => status = "maintenance"

\* No configuration reaches the device unless an audit event names who
\* initiated the change, and none stays for good without EMERGENCY_APPLIED.
ChangeIsAudited ==
  /\ backup # Absent /\ running # backup => "EMERGENCY_INITIATED" \in audit
  /\ pc \in {"sleep", "applied"} => "EMERGENCY_APPLIED" \in audit

\* A change applied with a time to live is taken back: the device returns to
\* its baseline or the failure to revert is on the audit trail.
TtlHonoured ==
  (pc = "sleep") ~>
    \/ pc = "reverted" /\ running = backup
    \/ pc = "revert_failed" /\ "EMERGENCY_REVERT_FAILED" \in audit

\* Every run closes, and with it releases the device.
EventuallyCloses == <>(pc \in Closed)
=============================================================================
