----------------------- MODULE EmergencyChangeProofs -----------------------
(***************************************************************************)
(* EmergencyChangeWorkflow keeps a device it has not settled in            *)
(* maintenance, audits what it does and is a transaction on the device:    *)
(* for every set of interfaces, sections and values and every number of    *)
(* attempts.                                                               *)
(***************************************************************************)
EXTENDS EmergencyChange, DeviceProofs

\* The labels by what the run has behind it at them.
Begun    == {"start", "rejected", "audit_initiated"}
Deployed == {"validate_bgp", "audit_applied", "sleep", "mark_applied", "applied"}
Undoing  == {"rollback_deploy", "rollback_validation", "revert"}
Restored == {"audit_deploy_failed", "audit_validation_failed", "mark_reverted",
             "audit_reverted", "reverted"}
Failed   == {"deploy_failed", "validation_failed", "audit_revert_failed", "revert_failed"}
Deploying == {"deploy"} \cup Deployed \cup Undoing \cup Restored \cup Failed
BackedUp == Deploying \cup {"store_backup", "mark_maintenance"}

\* A backup is there from "store_backup" on, and not before "backup" is done.
MemoryInv ==
  /\ pc \in BackedUp => backup # Absent
  /\ pc \in Begun \cup {"backup"} => backup = Absent

\* What is on the audit trail.  A failed change is put there after the rollback,
\* so that the event tells a restored device from one that is not.
TrailInv ==
  /\ pc \notin Begun => "EMERGENCY_INITIATED" \in audit
  /\ pc \in {"sleep", "mark_applied", "applied"} => "EMERGENCY_APPLIED" \in audit
  /\ "EMERGENCY_DEPLOY_FAILED" \in audit => pc = "deploy_failed"
  /\ "EMERGENCY_VALIDATION_FAILED" \in audit => pc = "validation_failed"

IInv == TypeOK /\ MemoryInv /\ TrailInv

\* The run has put the backup back.
PutBack ==
  \/ pc \in Restored
  \/ pc = "deploy_failed" /\ "EMERGENCY_DEPLOY_FAILED" \in audit
  \/ pc = "validation_failed" /\ "EMERGENCY_VALIDATION_FAILED" \in audit

\* Where the device is, if this run alone changes it and no SET outlives its attempt.
DeviceInv ==
  /\ late = {}
  /\ pc \in {"backup_failed", "store_backup", "mark_maintenance"} =>
       backup = Absent \/ running = backup
  /\ pc \in Deploying => running \in {backup, Intended}
  /\ pc \in Deployed => running = Intended
  /\ PutBack => running = backup

\* The device is in maintenance while its change is neither settled nor undone.
StatusInv ==
  pc \in Deploying \ {"mark_applied", "applied", "mark_reverted", "audit_reverted", "reverted"}
    => status = "maintenance"

-----------------------------------------------------------------------------
(* Types, what the workflow remembers, and the audit trail.                *)

\* The time to live is in AuditStep, but its labels do not depend on it.
LEMMA LabelsFixed == Labels' = Labels
BY DEF Labels, Unlimited, Closed, AuditLabels, AuditStep

\* The event and the label an audit event leads to.
LEMMA AuditNext ==
  ASSUME pc \in AuditLabels
  PROVE  \/ /\ pc = "audit_initiated"
            /\ AuditStep[pc].event = "EMERGENCY_INITIATED" /\ AuditStep[pc].next = "backup"
         \/ /\ pc = "audit_deploy_failed"
            /\ AuditStep[pc].event = "EMERGENCY_DEPLOY_FAILED"
            /\ AuditStep[pc].next = "deploy_failed"
         \/ /\ pc = "audit_validation_failed"
            /\ AuditStep[pc].event = "EMERGENCY_VALIDATION_FAILED"
            /\ AuditStep[pc].next = "validation_failed"
         \/ /\ pc = "audit_applied"
            /\ AuditStep[pc].event = "EMERGENCY_APPLIED"
            /\ AuditStep[pc].next \in {"sleep", "mark_applied"}
         \/ /\ pc = "audit_revert_failed"
            /\ AuditStep[pc].event = "EMERGENCY_REVERT_FAILED"
            /\ AuditStep[pc].next = "revert_failed"
BY DEF AuditLabels, AuditStep

LEMMA InitType == Init => TypeOK
BY InputTypes, ActivityAssumption DEF Init, WorldInit, TypeOK, WorldTypeOK, Labels

\* Every step keeps the types: what is put back was read before.
LEMMA TypeStep ==
  ASSUME TypeOK, MemoryInv, [Next]_vars
  PROVE  TypeOK'
<1>0. \A label \in {"start", "rejected", "audit_initiated", "backup", "store_backup",
                    "backup_failed", "mark_maintenance", "deploy", "validate_bgp",
                    "rollback_deploy", "rollback_validation", "audit_applied", "sleep",
                    "mark_applied", "revert", "mark_reverted", "audit_revert_failed",
                    "audit_deploy_failed", "audit_validation_failed", "deploy_failed",
                    "validation_failed", "revert_failed", "applied", "audit_reverted",
                    "reverted"} : label \in Labels
  BY DEF Labels, Unlimited, Closed, AuditLabels, AuditStep
<1>1. CASE Start
  BY <1>0, <1>1, LabelsFixed, ControlType DEF Start, TypeOK, WorldTypeOK, world, input
<1>2. CASE LogAuditEvent
  <2>1. AuditStep[pc].event \in Events /\ AuditStep[pc].next \in Labels
    BY <1>0, <1>2, AuditNext DEF LogAuditEvent, Events
  <2>2. pc' \in Labels /\ attempt' \in 1..MaxAttempts
    BY <1>2, <2>1, ControlType DEF LogAuditEvent, TypeOK
  <2>3. QED
    BY <1>2, <2>1, <2>2, LabelsFixed DEF LogAuditEvent, TypeOK, WorldTypeOK, world, input
<1>3. CASE Backup
  BY <1>0, <1>3, LabelsFixed, ControlType DEF Backup, TypeOK, WorldTypeOK, world, input
<1>4. CASE BackupFails
  BY <1>0, <1>4, LabelsFixed, ControlType
  DEF BackupFails, ReadFails, TypeOK, WorldTypeOK, world, input
<1>5. CASE StoreBackup
  BY <1>0, <1>5, LabelsFixed, ControlType DEF StoreBackup, TypeOK, WorldTypeOK, world, input
<1>6. CASE MarkMaintenance
  BY <1>0, <1>6, LabelsFixed, ControlType
  DEF MarkMaintenance, StatusWritten, TypeOK, WorldTypeOK, Statuses, input
<1>7. CASE MarkMaintenanceUnacked
  BY <1>7, LabelsFixed
  DEF MarkMaintenanceUnacked, StatusWrittenUnacked, TypeOK, WorldTypeOK, Statuses, input
<1>8. CASE Deploy
  <2>1. WorldTypeOK' /\ pc' \in Labels /\ attempt' \in 1..MaxAttempts
    BY <1>0, <1>8, SetType DEF Deploy, Update, TypeOK
  <2>2. QED
    BY <1>8, <2>1, LabelsFixed DEF Deploy, TypeOK, input
<1>9. CASE ValidateBgp
  BY <1>0, <1>9, LabelsFixed, ControlType DEF ValidateBgp, TypeOK, WorldTypeOK, world, input
<1>10. CASE Rollback
  <2>1. backup \in Config
    BY <1>10 DEF Rollback, AfterRollback, MemoryInv, TypeOK, BackedUp, Deploying, Undoing
  <2>2. AfterRollback[pc].ok \in Labels /\ AfterRollback[pc].error \in Labels
    BY <1>0, <1>10 DEF Rollback, AfterRollback
  <2>3. WorldTypeOK' /\ pc' \in Labels /\ attempt' \in 1..MaxAttempts
    BY <1>10, <2>1, <2>2, SetType DEF Rollback, Restore, TypeOK
  <2>4. QED
    BY <1>10, <2>3, LabelsFixed DEF Rollback, TypeOK, input
<1>11. CASE TtlExpires
  BY <1>0, <1>11, LabelsFixed, ControlType DEF TtlExpires, TypeOK, WorldTypeOK, world, input
<1>12. CASE Revert
  <2>1. backup \in Config
    BY <1>12 DEF Revert, MemoryInv, TypeOK, BackedUp, Deploying, Undoing
  <2>2. WorldTypeOK' /\ pc' \in Labels /\ attempt' \in 1..MaxAttempts
    BY <1>0, <1>12, <2>1, SetType DEF Revert, Restore, TypeOK
  <2>3. QED
    BY <1>12, <2>2, LabelsFixed DEF Revert, TypeOK, input
<1>13. CASE MarkActive
  <2>1. AfterMark[pc] \in Labels
    BY <1>0, <1>13 DEF MarkActive, AfterMark
  <2>2. pc' \in Labels /\ attempt' \in 1..MaxAttempts
    BY <1>13, <2>1, ControlType DEF MarkActive, StatusWritten, StatusWriteFails, TypeOK
  <2>3. QED
    BY <1>13, <2>2, LabelsFixed
    DEF MarkActive, StatusWritten, StatusWriteFails, TypeOK, WorldTypeOK, Statuses, input
<1>14. CASE AuditReverted
  <2>1. audit' \subseteq Events
    BY <1>14 DEF AuditReverted, TypeOK, Events
  <2>2. pc' \in Labels /\ attempt' \in 1..MaxAttempts
    BY <1>0, <1>14, ControlType DEF AuditReverted, TypeOK
  <2>3. QED
    BY <1>14, <2>1, <2>2, LabelsFixed DEF AuditReverted, TypeOK, WorldTypeOK, world, input
<1>15. CASE UNCHANGED vars
  BY <1>15, LabelsFixed DEF vars, world, TypeOK, WorldTypeOK
<1>16. CASE Environment /\ UNCHANGED <<input, backup, audit>>
  BY <1>16, LabelsFixed, EnvironmentType DEF TypeOK, input
<1>17. QED
  BY <1>1, <1>2, <1>3, <1>4, <1>5, <1>6, <1>7, <1>8, <1>9, <1>10, <1>11, <1>12, <1>13,
     <1>14, <1>15, <1>16
  DEF Next, Progress, RetryForever, Ended

\* Every step keeps the backup and the audit trail in line with where the run is.
LEMMA MemoryStep ==
  ASSUME IInv, [Next]_vars
  PROVE  MemoryInv' /\ TrailInv'
<1> USE DEF IInv, MemoryInv, TrailInv, Begun, BackedUp, Deploying, Deployed, Undoing,
            Restored, Failed
<1>1. CASE Start
  BY <1>1 DEF Start, Goto
<1>2. CASE LogAuditEvent
  <2>1. /\ audit' = audit \cup {AuditStep[pc].event} /\ pc' = AuditStep[pc].next
        /\ UNCHANGED backup
    BY <1>2 DEF LogAuditEvent, Goto
  <2>2. pc \in AuditLabels
    BY <1>2 DEF LogAuditEvent
  <2>3. QED
    BY <2>1, <2>2, AuditNext
<1>3. CASE Backup
  <2>1. backup' # Absent
    BY <1>3, SentinelAssumption DEF Backup, TypeOK, WorldTypeOK
  <2>2. QED
    BY <1>3, <2>1 DEF Backup, Goto
<1>4. CASE BackupFails
  BY <1>4 DEF BackupFails, ReadFails, RetryOr, Goto
<1>5. CASE StoreBackup
  BY <1>5 DEF StoreBackup, Goto
<1>6. CASE MarkMaintenance
  BY <1>6 DEF MarkMaintenance, StatusWritten, Goto
<1>7. CASE MarkMaintenanceUnacked
  BY <1>7 DEF MarkMaintenanceUnacked, StatusWrittenUnacked
<1>8. CASE Deploy
  BY <1>8 DEF Deploy, SetSucceeds, SetFails, RetryOr, Goto
<1>9. CASE ValidateBgp
  BY <1>9 DEF ValidateBgp, RetryOr, Goto
<1>10. CASE Rollback
  BY <1>10 DEF Rollback, AfterRollback, SetSucceeds, SetFails, RetryOr, Goto
<1>11. CASE TtlExpires
  BY <1>11 DEF TtlExpires, Goto
<1>12. CASE Revert
  BY <1>12 DEF Revert, SetSucceeds, SetFails, RetryOr, Goto
<1>13. CASE MarkActive
  BY <1>13 DEF MarkActive, AfterMark, StatusWritten, StatusWriteFails, RetryOr, Goto
<1>14. CASE AuditReverted
  BY <1>14 DEF AuditReverted, RetryOr, Goto
<1>15. CASE UNCHANGED vars
  BY <1>15 DEF vars
<1>16. CASE Environment /\ UNCHANGED <<input, backup, audit>>
  BY <1>16, EnvironmentType DEF TypeOK
<1>17. QED
  BY <1>1, <1>2, <1>3, <1>4, <1>5, <1>6, <1>7, <1>8, <1>9, <1>10, <1>11, <1>12, <1>13,
     <1>14, <1>15, <1>16
  DEF Next, Progress, RetryForever, Ended

\* The part of the invariant that holds whatever the environment does.
LEMMA Invariance == Spec => []IInv
<1>1. Init => IInv
  BY InitType DEF IInv, MemoryInv, TrailInv, Init, Begun, BackedUp, Deploying, Deployed,
                  Undoing, Restored, Failed
<1>2. IInv /\ [Next]_vars => IInv'
  BY TypeStep, MemoryStep DEF IInv
<1>3. QED
  BY <1>1, <1>2, PTL DEF Spec

\* No configuration reaches the device unless an audit event says who initiated
\* the change, and none stays for good without EMERGENCY_APPLIED: whatever else
\* happens to the device meanwhile.
THEOREM Audited == Spec => []ChangeIsAudited
<1>1. IInv => ChangeIsAudited
  BY DEF IInv, MemoryInv, TrailInv, Begun, ChangeIsAudited
<1>2. QED
  BY <1>1, Invariance, PTL

\* Type correctness, whatever the environment does.
THEOREM TypeCorrect == Spec => []TypeOK
BY Invariance, PTL DEF IInv

-----------------------------------------------------------------------------
(* Where the device is, and its status.                                    *)

\* What the deployment, and what the rollback, makes of the device.
LEMMA SetEffect ==
  ASSUME IInv, DeviceInv, pc \in Deploying
  PROVE  /\ AfterSet(running, Update(change)) = Intended
         /\ AfterSet(running, Restore(backup)) = backup
<1>1. backup \in Config /\ change \in Config
  BY DEF IInv, MemoryInv, TypeOK, BackedUp
<1>2. running \in {backup, Merge(backup, change)}
  BY DEF DeviceInv, Intended
<1>3. QED
  BY <1>1, <1>2, SetAgain DEF Intended

\* An attempt of a SET without late effects.
LEMMA PromptSet ==
  ASSUME late = {}, "lateSet" \notin Faults, NEW set, NEW next, NEW handler,
         SetSucceeds(set, next) \/ SetFails(set, handler)
  PROVE  /\ late' = {}
         /\ \/ pc' = next /\ running' = AfterSet(running, set)
            \/ pc' \in {pc, handler} /\ running' \in {running, AfterSet(running, set)}
BY DEF SetSucceeds, SetFails, RetryOr, Goto

\* Unless someone else configures the device, every step leaves it at the backup
\* or at the backup with the change, and at which of the two where it matters.
LEMMA DeviceStep ==
  ASSUME IInv, DeviceInv, [Next]_vars, "outOfBand" \notin Faults, "lateSet" \notin Faults
  PROVE  DeviceInv'
<1> USE DEF DeviceInv, PutBack, Deploying, Deployed, Undoing, Restored, Failed
<1>1. CASE Start
  BY <1>1 DEF Start, Goto, world
<1>2. CASE LogAuditEvent
  <2>1. /\ audit' = audit \cup {AuditStep[pc].event} /\ pc' = AuditStep[pc].next
        /\ UNCHANGED <<running, late, backup>> /\ Intended' = Intended
        /\ pc \in AuditLabels
    BY <1>2 DEF LogAuditEvent, Goto, world, input, Intended
  <2>2. pc = "audit_revert_failed" => pc' = "revert_failed"
    BY <2>1, AuditNext
  <2>3. QED
    BY <2>1, <2>2, AuditNext
<1>3. CASE Backup
  BY <1>3 DEF Backup, Goto, world
<1>4. CASE BackupFails
  BY <1>4 DEF BackupFails, ReadFails, RetryOr, Goto, world, IInv, MemoryInv, Begun
<1>5. CASE StoreBackup
  BY <1>5 DEF StoreBackup, Goto, world
<1>6. CASE MarkMaintenance
  BY <1>6 DEF MarkMaintenance, StatusWritten, Goto, IInv, MemoryInv, BackedUp
<1>7. CASE MarkMaintenanceUnacked
  BY <1>7 DEF MarkMaintenanceUnacked, StatusWrittenUnacked
<1>8. CASE Deploy
  <2>1. pc = "deploy" /\ Intended' = Intended /\ UNCHANGED <<backup, audit>>
    BY <1>8 DEF Deploy, input, Intended
  <2>2. AfterSet(running, Update(change)) = Intended
    BY <2>1, SetEffect
  <2>3. /\ late' = {}
        /\ \/ pc' = "validate_bgp" /\ running' = Intended
           \/ pc' \in {pc, "rollback_deploy"} /\ running' \in {running, Intended}
    BY <1>8, <2>2, PromptSet DEF Deploy
  <2>4. QED
    BY <2>1, <2>3
<1>9. CASE ValidateBgp
  BY <1>9 DEF ValidateBgp, RetryOr, Goto, world, input, Intended
<1>10. CASE Rollback
  <2>1. /\ pc \in {"rollback_deploy", "rollback_validation"}
        /\ Intended' = Intended /\ UNCHANGED <<backup, audit>>
    BY <1>10 DEF Rollback, AfterRollback, input, Intended
  <2>2. AfterSet(running, Restore(backup)) = backup
    BY <2>1, SetEffect
  <2>3. /\ late' = {}
        /\ \/ pc' = AfterRollback[pc].ok /\ running' = backup
           \/ pc' \in {pc, AfterRollback[pc].error} /\ running' \in {running, backup}
    BY <1>10, <2>2, PromptSet DEF Rollback
  <2>4. "EMERGENCY_DEPLOY_FAILED" \notin audit /\ "EMERGENCY_VALIDATION_FAILED" \notin audit
    BY <2>1 DEF IInv, TrailInv
  <2>5. QED
    BY <2>1, <2>3, <2>4 DEF AfterRollback
<1>11. CASE TtlExpires
  BY <1>11 DEF TtlExpires, Goto, world, input, Intended
<1>12. CASE Revert
  <2>1. pc = "revert" /\ Intended' = Intended /\ UNCHANGED <<backup, audit>>
    BY <1>12 DEF Revert, input, Intended
  <2>2. AfterSet(running, Restore(backup)) = backup
    BY <2>1, SetEffect
  <2>3. /\ late' = {}
        /\ \/ pc' = "mark_reverted" /\ running' = backup
           \/ pc' \in {pc, "audit_revert_failed"} /\ running' \in {running, backup}
    BY <1>12, <2>2, PromptSet DEF Revert
  <2>4. QED
    BY <2>1, <2>3
<1>13. CASE MarkActive
  BY <1>13
  DEF MarkActive, AfterMark, StatusWritten, StatusWriteFails, RetryOr, Goto, input, Intended
<1>14. CASE AuditReverted
  BY <1>14 DEF AuditReverted, RetryOr, Goto, world, input, Intended
<1>15. CASE UNCHANGED vars
  BY <1>15 DEF vars, world, Intended
<1>16. CASE Environment /\ UNCHANGED <<input, backup, audit>>
  <2>1. UNCHANGED <<pc, running, late, backup, audit>> /\ Intended' = Intended
    BY <1>16, EnvironmentStep DEF input, Intended
  <2>2. QED
    BY <2>1
<1>17. QED
  BY <1>1, <1>2, <1>3, <1>4, <1>5, <1>6, <1>7, <1>8, <1>9, <1>10, <1>11, <1>12, <1>13,
     <1>14, <1>15, <1>16
  DEF Next, Progress, RetryForever, Ended

LEMMA DeviceInvariance ==
  ASSUME "outOfBand" \notin Faults, "lateSet" \notin Faults
  PROVE  Spec => []DeviceInv
<1>1. Init => DeviceInv
  BY DEF Init, WorldInit, DeviceInv, PutBack, Deploying, Deployed, Undoing, Restored, Failed
<1>2. IInv /\ DeviceInv /\ [Next]_vars => DeviceInv'
  BY DeviceStep
<1>3. QED
  BY <1>1, <1>2, Invariance, PTL DEF Spec

\* Nobody else sets the status: the device stays in maintenance until this run
\* has settled the change or undone it.
LEMMA MarkedStep ==
  ASSUME StatusInv, [Next]_vars, "statusEdit" \notin Faults, "outOfBand" \notin Faults
  PROVE  StatusInv'
<1> USE DEF StatusInv, Deploying, Deployed, Undoing, Restored, Failed
<1>1. CASE Start
  BY <1>1 DEF Start, Goto
<1>2. CASE LogAuditEvent
  <2>1. pc' = AuditStep[pc].next /\ pc \in AuditLabels /\ UNCHANGED status
    BY <1>2 DEF LogAuditEvent, Goto, world
  <2>2. QED
    BY <2>1, AuditNext
<1>3. CASE Backup \/ BackupFails \/ StoreBackup
  BY <1>3 DEF Backup, BackupFails, ReadFails, StoreBackup, RetryOr, Goto
<1>4. CASE MarkMaintenance
  BY <1>4 DEF MarkMaintenance, StatusWritten
<1>5. CASE MarkMaintenanceUnacked
  BY <1>5 DEF MarkMaintenanceUnacked, StatusWrittenUnacked
<1>6. CASE Deploy
  BY <1>6 DEF Deploy, SetSucceeds, SetFails, RetryOr, Goto
<1>7. CASE ValidateBgp \/ TtlExpires
  BY <1>7 DEF ValidateBgp, TtlExpires, RetryOr, Goto, world
<1>8. CASE Rollback
  BY <1>8 DEF Rollback, AfterRollback, SetSucceeds, SetFails, RetryOr, Goto
<1>9. CASE Revert
  BY <1>9 DEF Revert, SetSucceeds, SetFails, RetryOr, Goto
<1>10. CASE MarkActive
  BY <1>10 DEF MarkActive, AfterMark, StatusWritten, StatusWriteFails, RetryOr, Goto
<1>11. CASE AuditReverted
  BY <1>11 DEF AuditReverted, RetryOr, Goto, world
<1>12. CASE UNCHANGED vars
  BY <1>12 DEF vars, world
<1>13. CASE Environment
  BY <1>13, EnvironmentStep
<1>14. QED
  BY <1>1, <1>2, <1>3, <1>4, <1>5, <1>6, <1>7, <1>8, <1>9, <1>10, <1>11, <1>12, <1>13
  DEF Next, Progress, RetryForever, Ended

\* A device that is not at its baseline is in maintenance unless the change was
\* applied for good: also where the run failed and its rollback with it.
THEOREM UnsettledMarked ==
  ASSUME "outOfBand" \notin Faults, "lateSet" \notin Faults, "statusEdit" \notin Faults
  PROVE  Spec => []UnsettledInMaintenance
<1>1. Init => StatusInv
  BY DEF Init, StatusInv, Deploying, Deployed, Undoing, Restored, Failed
<1>2. StatusInv /\ [Next]_vars => StatusInv'
  BY MarkedStep
<1>3. IInv /\ DeviceInv /\ StatusInv => UnsettledInMaintenance
  <2> SUFFICES ASSUME IInv, DeviceInv, StatusInv, backup # Absent, running # backup,
                      pc \notin {"mark_applied", "applied"}
               PROVE  status = "maintenance"
    BY DEF UnsettledInMaintenance
  <2>1. pc \notin Begun \cup {"backup"}
    BY DEF IInv, MemoryInv
  <2>2. pc \notin {"backup_failed", "store_backup", "mark_maintenance"} /\ pc \notin Restored
    BY DEF DeviceInv, PutBack
  <2>3. pc \in Labels
    BY DEF IInv, TypeOK
  <2>4. pc \in Deploying
    BY <2>1, <2>2, <2>3
    DEF Begun, Deploying, Deployed, Undoing, Restored, Failed, Labels, Closed, Unlimited,
        AuditLabels, AuditStep
  <2>5. QED
    BY <2>2, <2>4 DEF StatusInv, Restored
<1>4. QED
  BY <1>1, <1>2, <1>3, Invariance, DeviceInvariance, PTL DEF Spec

-----------------------------------------------------------------------------
(* The workflow implements the transaction.                                *)

\* The phase of the transaction at each label.
PhaseIs(label, trail, phase) ==
  /\ label \in {"deploy", "validate_bgp"} => phase = "changing"
  /\ label \in {"audit_applied", "sleep", "mark_applied", "applied"} => phase = "changed"
  /\ label \in Undoing => phase = "restoring"
  /\ label \in Restored => phase = "restored"
  /\ label \in {"audit_revert_failed", "revert_failed"} => phase = "unresolved"
  /\ label = "deploy_failed" =>
       phase = IF "EMERGENCY_DEPLOY_FAILED" \in trail THEN "restored" ELSE "unresolved"
  /\ label = "validation_failed" =>
       phase = IF "EMERGENCY_VALIDATION_FAILED" \in trail THEN "restored" ELSE "unresolved"
  /\ label \notin Deploying => phase = "untouched"

LEMMA PhaseAt == PhaseIs(pc, audit, Phase) /\ PhaseIs(pc', audit', Phase')
BY DEF PhaseIs, Phase, Deploying, Deployed, Undoing, Restored, Failed

\* A step that leaves the label, the device, what the run read and the audit
\* trail alone is a stutter of the transaction.
LEMMA Stutter ==
  ASSUME UNCHANGED <<running, pc, backup, change, audit>>
  PROVE  UNCHANGED Transaction!vars
BY DEF Transaction!vars, Phase, Began, Intended

\* Until the deployment the transaction has not begun: nothing of it changes.
LEMMA UntouchedStep ==
  ASSUME pc \notin Deploying, pc' \notin Deploying, running' = running
  PROVE  UNCHANGED Transaction!vars
<1>1. Phase = "untouched" /\ Phase' = "untouched"
  BY PhaseAt DEF PhaseIs
<1>2. QED
  BY <1>1 DEF Transaction!vars, Began

\* The base and the target of a transaction under way do not change any more.
LEMMA Fixed ==
  ASSUME pc \in Deploying, pc' \in Deploying, UNCHANGED <<backup, change>>
  PROVE  /\ (IF Began THEN backup ELSE Absent) = backup
         /\ (IF Began THEN Intended ELSE Absent) = Intended
         /\ (IF Began THEN backup ELSE Absent)' = backup
         /\ (IF Began THEN Intended ELSE Absent)' = Intended
<1>1. Phase # "untouched" /\ Phase' # "untouched"
  BY PhaseAt DEF PhaseIs, Deploying, Deployed, Undoing, Restored, Failed
<1>2. QED
  BY <1>1 DEF Began, Intended

\* Nor do they in a step within one phase, which is a stutter.
LEMMA PhaseKept ==
  ASSUME pc \in Deploying, pc' \in Deploying, UNCHANGED <<running, backup, change>>,
         Phase' = Phase
  PROVE  UNCHANGED Transaction!vars
BY Fixed DEF Transaction!vars

\* An attempt to put the backup back undoes the change, leaves the device as it
\* is, or gives up with the device at one of the two.
LEMMA RestoreStep ==
  ASSUME pc \in Undoing, pc' \in Deploying, UNCHANGED <<backup, change>>,
         \/ Phase' \in {"restoring", "restored"} /\ running' = backup
         \/ Phase' \in {"restoring", "unresolved"} /\ running' \in {running, backup}
  PROVE  [Transaction!Next]_(Transaction!vars)
<1>1. pc \in Deploying /\ Phase = "restoring"
  BY PhaseAt DEF PhaseIs, Deploying
<1>2. CASE Phase' \in {"restoring", "restored"} /\ running' = backup
  <2>1. Transaction!Undo
    BY <1>1, <1>2, Fixed DEF Transaction!Undo
  <2>2. QED
    BY <2>1 DEF Transaction!Next
<1>3. CASE Phase' = "unresolved" /\ running' \in {running, backup}
  <2>1. Transaction!Abandon
    BY <1>1, <1>3, Fixed DEF Transaction!Abandon
  <2>2. QED
    BY <2>1 DEF Transaction!Next
<1>4. CASE Phase' = "restoring" /\ running' = running
  BY <1>1, <1>4, PhaseKept
<1>5. QED
  BY <1>2, <1>3, <1>4

\* Every step of the workflow is a step of the transaction or a stutter.
LEMMA TransactionStep ==
  ASSUME IInv, DeviceInv, [Next]_vars, "outOfBand" \notin Faults, "lateSet" \notin Faults
  PROVE  [Transaction!Next]_(Transaction!vars)
<1>0. /\ Deploying = {"deploy", "validate_bgp", "audit_applied", "sleep", "mark_applied",
                      "applied", "rollback_deploy", "rollback_validation", "revert",
                      "audit_deploy_failed", "audit_validation_failed", "mark_reverted",
                      "audit_reverted", "reverted", "deploy_failed", "validation_failed",
                      "audit_revert_failed", "revert_failed"}
      /\ Undoing = {"rollback_deploy", "rollback_validation", "revert"}
      /\ Restored = {"audit_deploy_failed", "audit_validation_failed", "mark_reverted",
                     "audit_reverted", "reverted"}
  BY DEF Deploying, Deployed, Undoing, Restored, Failed
<1>1. CASE Start \/ Backup \/ BackupFails \/ StoreBackup
  BY <1>0, <1>1, UntouchedStep
  DEF Start, Backup, BackupFails, ReadFails, StoreBackup, RetryOr, Goto, world
<1>2. CASE LogAuditEvent
  <2>1. /\ audit' = audit \cup {AuditStep[pc].event} /\ pc' = AuditStep[pc].next
        /\ UNCHANGED <<running, backup, change>> /\ pc \in AuditLabels
    BY <1>2 DEF LogAuditEvent, Goto, world, input
  <2>2. CASE pc = "audit_initiated"
    BY <1>0, <2>1, <2>2, AuditNext, UntouchedStep
  <2>3. CASE pc = "audit_deploy_failed"
    <3>1. pc' = "deploy_failed" /\ "EMERGENCY_DEPLOY_FAILED" \in audit'
      BY <2>1, <2>3, AuditNext
    <3>2. Phase = "restored" /\ Phase' = "restored"
      BY <1>0, <2>3, <3>1, PhaseAt DEF PhaseIs
    <3>3. QED
      BY <1>0, <2>1, <2>3, <3>1, <3>2, PhaseKept
  <2>4. CASE pc = "audit_validation_failed"
    <3>1. pc' = "validation_failed" /\ "EMERGENCY_VALIDATION_FAILED" \in audit'
      BY <2>1, <2>4, AuditNext
    <3>2. Phase = "restored" /\ Phase' = "restored"
      BY <1>0, <2>4, <3>1, PhaseAt DEF PhaseIs
    <3>3. QED
      BY <1>0, <2>1, <2>4, <3>1, <3>2, PhaseKept
  <2>5. CASE pc = "audit_applied"
    <3>1. pc' \in {"sleep", "mark_applied"}
      BY <2>1, <2>5, AuditNext
    <3>2. Phase = "changed" /\ Phase' = "changed"
      BY <2>5, <3>1, PhaseAt DEF PhaseIs
    <3>3. QED
      BY <1>0, <2>1, <2>5, <3>1, <3>2, PhaseKept
  <2>6. CASE pc = "audit_revert_failed"
    <3>1. pc' = "revert_failed"
      BY <2>1, <2>6, AuditNext
    <3>2. Phase = "unresolved" /\ Phase' = "unresolved"
      BY <2>6, <3>1, PhaseAt DEF PhaseIs
    <3>3. QED
      BY <1>0, <2>1, <2>6, <3>1, <3>2, PhaseKept
  <2>7. QED
    BY <2>1, <2>2, <2>3, <2>4, <2>5, <2>6, AuditNext
<1>3. CASE MarkMaintenance
  <2>1. /\ pc = "mark_maintenance" /\ pc' = "deploy"
        /\ UNCHANGED <<running, backup, change>>
    BY <1>3 DEF MarkMaintenance, StatusWritten, Goto, input
  <2>2. Phase = "untouched" /\ Phase' = "changing"
    BY <1>0, <2>1, PhaseAt DEF PhaseIs
  <2>3. running = backup /\ backup \in Config /\ change \in Config
    BY <2>1 DEF DeviceInv, IInv, MemoryInv, TypeOK, BackedUp
  <2>4. Intended \in Config
    BY <2>3, MergeType DEF Intended
  <2>5. Transaction!Begin
    BY <2>1, <2>2, <2>3, <2>4 DEF Transaction!Begin, Began, Intended
  <2>6. QED
    BY <2>5 DEF Transaction!Next
<1>4. CASE MarkMaintenanceUnacked
  BY <1>4, Stutter DEF MarkMaintenanceUnacked, StatusWrittenUnacked, input
<1>5. CASE Deploy
  <2>1. pc = "deploy" /\ UNCHANGED <<backup, change>>
    BY <1>5 DEF Deploy, input
  <2>2. pc \in Deploying /\ Phase = "changing"
    BY <1>0, <2>1, PhaseAt DEF PhaseIs
  <2>3. AfterSet(running, Update(change)) = Intended
    BY <2>2, SetEffect
  <2>4. \/ pc' = "validate_bgp" /\ running' = Intended
        \/ pc' \in {pc, "rollback_deploy"} /\ running' \in {running, Intended}
    BY <1>5, <2>3, PromptSet DEF Deploy, DeviceInv
  <2>5. CASE pc' = "rollback_deploy"
    <3>1. Phase' = "restoring"
      BY <1>0, <2>5, PhaseAt DEF PhaseIs
    <3>2. Transaction!TakeBack
      BY <1>0, <2>1, <2>2, <2>4, <2>5, <3>1, Fixed DEF Transaction!TakeBack
    <3>3. QED
      BY <3>2 DEF Transaction!Next
  <2>6. CASE pc' \in {"deploy", "validate_bgp"} /\ running' = Intended
    <3>1. Phase' = "changing"
      BY <2>6, PhaseAt DEF PhaseIs
    <3>2. Transaction!Push
      BY <1>0, <2>1, <2>2, <2>6, <3>1, Fixed DEF Transaction!Push
    <3>3. QED
      BY <3>2 DEF Transaction!Next
  <2>7. CASE pc' = "deploy" /\ running' = running
    <3>1. Phase' = "changing"
      BY <2>7, PhaseAt DEF PhaseIs
    <3>2. QED
      BY <1>0, <2>1, <2>2, <2>7, <3>1, PhaseKept
  <2>8. QED
    BY <2>1, <2>4, <2>5, <2>6, <2>7
<1>6. CASE ValidateBgp
  <2>1. /\ pc = "validate_bgp" /\ pc' \in {pc, "audit_applied", "rollback_validation"}
        /\ UNCHANGED <<running, backup, change>>
    BY <1>6 DEF ValidateBgp, RetryOr, Goto, world, input
  <2>2. pc \in Deploying /\ Phase = "changing" /\ running = Intended
    BY <1>0, <2>1, PhaseAt DEF PhaseIs, DeviceInv, Deployed
  <2>3. CASE pc' = "audit_applied"
    <3>1. Phase' = "changed"
      BY <2>3, PhaseAt DEF PhaseIs
    <3>2. Transaction!Commit
      BY <1>0, <2>1, <2>2, <2>3, <3>1, Fixed DEF Transaction!Commit
    <3>3. QED
      BY <3>2 DEF Transaction!Next
  <2>4. CASE pc' = "rollback_validation"
    <3>1. Phase' = "restoring"
      BY <1>0, <2>4, PhaseAt DEF PhaseIs
    <3>2. Transaction!TakeBack
      BY <1>0, <2>1, <2>2, <2>4, <3>1, Fixed DEF Transaction!TakeBack
    <3>3. QED
      BY <3>2 DEF Transaction!Next
  <2>5. CASE pc' = pc
    <3>1. Phase' = "changing"
      BY <2>1, <2>5, PhaseAt DEF PhaseIs
    <3>2. QED
      BY <1>0, <2>1, <2>2, <2>5, <3>1, PhaseKept
  <2>6. QED
    BY <2>1, <2>3, <2>4, <2>5
<1>7. CASE Rollback
  <2>1. pc \in {"rollback_deploy", "rollback_validation"} /\ UNCHANGED <<backup, change, audit>>
    BY <1>7 DEF Rollback, AfterRollback, input
  <2>2. pc \in Deploying
    BY <1>0, <2>1
  <2>3. AfterSet(running, Restore(backup)) = backup
    BY <2>2, SetEffect
  <2>4. \/ pc' = AfterRollback[pc].ok /\ running' = backup
        \/ pc' \in {pc, AfterRollback[pc].error} /\ running' \in {running, backup}
    BY <1>7, <2>3, PromptSet DEF Rollback, DeviceInv
  <2>5. "EMERGENCY_DEPLOY_FAILED" \notin audit' /\ "EMERGENCY_VALIDATION_FAILED" \notin audit'
    BY <2>1 DEF IInv, TrailInv
  <2>6. /\ pc' \in {"audit_deploy_failed", "audit_validation_failed"} => Phase' = "restored"
        /\ pc' \in {"deploy_failed", "validation_failed"} => Phase' = "unresolved"
        /\ pc' \in {"rollback_deploy", "rollback_validation"} => Phase' = "restoring"
    BY <1>0, <2>5, PhaseAt DEF PhaseIs
  <2>7. CASE pc' = AfterRollback[pc].ok /\ running' = backup
    BY <1>0, <2>1, <2>6, <2>7, RestoreStep DEF AfterRollback
  <2>8. CASE pc' \in {pc, AfterRollback[pc].error} /\ running' \in {running, backup}
    BY <1>0, <2>1, <2>6, <2>8, RestoreStep DEF AfterRollback
  <2>9. QED
    BY <2>4, <2>7, <2>8
<1>8. CASE TtlExpires
  <2>1. pc = "sleep" /\ pc' = "revert" /\ UNCHANGED <<running, backup, change>>
    BY <1>8 DEF TtlExpires, Goto, world, input
  <2>2. Phase = "changed" /\ Phase' = "restoring"
    BY <1>0, <2>1, PhaseAt DEF PhaseIs
  <2>3. Transaction!TakeBack
    BY <1>0, <2>1, <2>2, Fixed DEF Transaction!TakeBack
  <2>4. QED
    BY <2>3 DEF Transaction!Next
<1>9. CASE Revert
  <2>1. pc = "revert" /\ UNCHANGED <<backup, change>>
    BY <1>9 DEF Revert, input
  <2>2. pc \in Deploying
    BY <1>0, <2>1
  <2>3. AfterSet(running, Restore(backup)) = backup
    BY <2>2, SetEffect
  <2>4. \/ pc' = "mark_reverted" /\ running' = backup
        \/ pc' \in {"revert", "audit_revert_failed"} /\ running' \in {running, backup}
    BY <1>9, <2>1, <2>3, PromptSet DEF Revert, DeviceInv
  <2>5. /\ pc' = "mark_reverted" => Phase' = "restored"
        /\ pc' = "audit_revert_failed" => Phase' = "unresolved"
        /\ pc' = "revert" => Phase' = "restoring"
    BY <1>0, PhaseAt DEF PhaseIs
  <2>6. QED
    BY <1>0, <2>1, <2>4, <2>5, RestoreStep
<1>10. CASE MarkActive
  <2>1. /\ \/ pc = "mark_applied" /\ pc' \in {pc, "applied"}
           \/ pc = "mark_reverted" /\ pc' \in {pc, "audit_reverted"}
        /\ UNCHANGED <<running, backup, change>>
    BY <1>10
    DEF MarkActive, AfterMark, StatusWritten, StatusWriteFails, RetryOr, Goto, input
  <2>2. Phase' = Phase
    BY <1>0, <2>1, PhaseAt DEF PhaseIs
  <2>3. QED
    BY <1>0, <2>1, <2>2, PhaseKept
<1>11. CASE AuditReverted
  <2>1. /\ pc = "audit_reverted" /\ pc' \in {pc, "reverted"}
        /\ UNCHANGED <<running, backup, change>>
    BY <1>11 DEF AuditReverted, RetryOr, Goto, world, input
  <2>2. Phase' = Phase
    BY <1>0, <2>1, PhaseAt DEF PhaseIs
  <2>3. QED
    BY <1>0, <2>1, <2>2, PhaseKept
<1>12. CASE UNCHANGED vars
  BY <1>12, Stutter DEF vars, world
<1>13. CASE Environment /\ UNCHANGED <<input, backup, audit>>
  BY <1>13, EnvironmentStep, Stutter DEF input, DeviceInv
<1>14. QED
  BY <1>1, <1>2, <1>3, <1>4, <1>5, <1>6, <1>7, <1>8, <1>9, <1>10, <1>11, <1>12, <1>13
  DEF Next, Progress, RetryForever, Ended

\* An emergency change takes the device from the backup to the backup with the
\* change merged in and back to exactly the backup, through every failure, retry
\* and lost acknowledgement, and ends "restored" only where it is at the backup.
THEOREM ImplementsTransaction ==
  ASSUME "outOfBand" \notin Faults, "lateSet" \notin Faults
  PROVE  Spec => IsTransaction
<1>1. Init => Transaction!Init
  <2> SUFFICES ASSUME Init PROVE Transaction!Init
    OBVIOUS
  <2>1. pc \notin Deploying /\ running \in Config
    BY InputTypes
    DEF Init, WorldInit, Deploying, Deployed, Undoing, Restored, Failed
  <2>2. Phase = "untouched"
    BY <2>1, PhaseAt DEF PhaseIs
  <2>3. QED
    BY <2>1, <2>2 DEF Transaction!Init, Began
<1>2. IInv /\ DeviceInv /\ [Next]_vars => [Transaction!Next]_(Transaction!vars)
  BY TransactionStep
<1>3. QED
  BY <1>1, <1>2, Invariance, DeviceInvariance, PTL DEF Spec, IsTransaction, Transaction!Spec
=============================================================================
