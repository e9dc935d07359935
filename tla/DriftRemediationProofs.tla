----------------------- MODULE DriftRemediationProofs -----------------------
(***************************************************************************)
(* DriftRemediationWorkflow changes a device only in the order audit,      *)
(* backup, deployment, and tells the truth about what it made of it: for   *)
(* every set of interfaces, sections and values and every number of        *)
(* attempts.                                                               *)
(***************************************************************************)
EXTENDS DriftRemediation, DeviceProofs

\* The labels by what the run has behind it at them.
Comparing == {"fetch_device", "fetch_interfaces", "render", "fetch_running",
              "fetch_running_failed"}
Deployed  == {"validate_bgp", "validate_interfaces", "mark_validation_failed",
              "audit_validation_failed", "validation_failed", "mark_active",
              "audit_remediated", "remediated"}
Deploying == Deployed \cup {"deploy", "mark_deploy_failed", "audit_deploy_failed",
                            "remediation_failed"}
BackedUp  == Deploying \cup {"store_backup"}
Remediating == BackedUp \cup {"backup", "backup_failed"}

Actions == {"none", "suppress", "log_only", "remediate"}

\* What the workflow remembers: the status before the interfaces, both before it
\* compares; then its decision, which is to remediate only outside maintenance.
MemoryInv ==
  /\ pc # "fetch_device" => seen # Absent
  /\ pc \notin {"fetch_device", "fetch_interfaces"} => plan # Absent
  /\ pc \notin Comparing =>
       decision \in Actions /\ (decision = "remediate" => seen # "maintenance")
  /\ pc = "audit_detected" => decision # "none"
  /\ pc \in Remediating => decision = "remediate"
  /\ pc \in BackedUp => backup # Absent
  /\ pc \notin BackedUp \cup {"backup_failed"} => backup = Absent

\* What is on the audit trail.
AuditInv ==
  /\ pc \notin Comparing \cup {"no_drift", "audit_detected"} => "DRIFT_DETECTED" \in audit
  /\ pc = "remediation_failed" => "DRIFT_REMEDIATION_FAILED" \in audit
  /\ pc = "validation_failed" => "DRIFT_VALIDATION_FAILED" \in audit
  /\ pc = "remediated" => "DRIFT_REMEDIATED" \in audit

\* The SETs still under way are deployments of this run.
LateInv ==
  \A set \in late : pc \in Deploying /\ ~set.replace /\ set.payload = Render(plan)

\* Where the device is, unless someone configures it by hand.
DeviceInv ==
  /\ pc = "store_backup" => running = backup
  /\ pc \in Deploying => running \in {backup, Intended}
  /\ pc \in Deployed => running = Intended

\* What its status is, unless someone else sets it.
StatusInv ==
  /\ pc \in {"audit_deploy_failed", "remediation_failed",
             "audit_validation_failed", "validation_failed"} => status = "maintenance"
  /\ pc \in {"audit_remediated", "remediated"} => status = "active"

IInv == TypeOK /\ MemoryInv /\ AuditInv /\ LateInv /\ DeviceInv

-----------------------------------------------------------------------------
(* Types.                                                                  *)

\* The policy answers with one of its actions, and never to remediate a device
\* in maintenance.
LEMMA DecisionIs ==
  ASSUME NEW intended, NEW config, NEW read
  PROVE  LET action == DecideDriftAction(ClassifyDrift(intended, config), read)
         IN  action \in Actions /\ (action = "remediate" => read # "maintenance")
<1>1. ClassifyDrift(intended, config) \in {"none", "critical", "cosmetic"}
  BY DEF ClassifyDrift
<1>2. QED
  BY <1>1 DEF DecideDriftAction, Actions

\* The labels an audit event and a status update lead to.
LEMMA AuditNext ==
  ASSUME NEW label \in DOMAIN AuditStep
  PROVE  /\ AuditStep[label].event \in Events
         /\ AuditStep[label].next \in Labels
         /\ label = "audit_detected" =>
              AuditStep[label].next =
                CASE decision = "suppress" -> "audit_suppressed"
                  [] decision = "log_only" -> "audit_logged"
                  [] OTHER -> "backup"
BY DEF AuditStep, Events, Labels, Closed, Failed, Unlimited, StatusStep

\* The decision is in AuditStep, but its labels do not depend on it.
LEMMA LabelsFixed == Labels' = Labels
BY DEF Labels, Unlimited, Closed, Failed, AuditStep, StatusStep

LEMMA InitType == Init => TypeOK
BY InputTypes, ActivityAssumption
DEF Init, WorldInit, TypeOK, WorldTypeOK, Labels, Unlimited

\* Every step keeps the types: what is deployed was read before.
LEMMA TypeStep ==
  ASSUME TypeOK, MemoryInv, [Next]_vars
  PROVE  TypeOK'
<1>0. \A label \in {"fetch_device", "fetch_interfaces", "render", "fetch_running", "no_drift",
                    "audit_detected", "fetch_running_failed", "store_backup", "deploy",
                    "backup_failed", "validate_bgp", "validate_interfaces", "mark_active",
                    "mark_deploy_failed", "mark_validation_failed"} : label \in Labels
  BY DEF Labels, Unlimited, Closed, Failed, AuditStep, StatusStep
<1>1. CASE FetchDevice
  BY <1>0, <1>1, LabelsFixed, ControlType DEF FetchDevice, TypeOK, WorldTypeOK, world
<1>2. CASE FetchInterfaces
  BY <1>0, <1>2, LabelsFixed, ControlType DEF FetchInterfaces, TypeOK, WorldTypeOK, world
<1>3. CASE FetchInterfacesFails
  BY <1>0, <1>3, LabelsFixed, ControlType
  DEF FetchInterfacesFails, TypeOK, WorldTypeOK, world, local
<1>4. CASE RenderIntendedConfig
  BY <1>0, <1>4, LabelsFixed, ControlType
  DEF RenderIntendedConfig, TypeOK, WorldTypeOK, world, local
<1>5. CASE FetchRunningConfig
  <2>1. decision' \in Actions
    BY <1>5, DecisionIs DEF FetchRunningConfig, Decide
  <2>2. pc' \in Labels /\ attempt' \in 1..MaxAttempts
    BY <1>0, <1>5, ControlType DEF FetchRunningConfig, TypeOK
  <2>3. QED
    BY <1>5, <2>1, <2>2, LabelsFixed
    DEF FetchRunningConfig, TypeOK, WorldTypeOK, world, Actions
<1>6. CASE FetchRunningConfigFails
  BY <1>0, <1>6, LabelsFixed, ControlType
  DEF FetchRunningConfigFails, ReadFails, TypeOK, WorldTypeOK, world, local
<1>7. CASE LogAuditEvent
  BY <1>7, AuditNext, LabelsFixed, ControlType DEF LogAuditEvent, TypeOK, WorldTypeOK, world
<1>8. CASE Backup
  BY <1>0, <1>8, LabelsFixed, ControlType DEF Backup, TypeOK, WorldTypeOK, world
<1>9. CASE StoreBackup
  BY <1>0, <1>9, LabelsFixed, ControlType DEF StoreBackup, TypeOK, WorldTypeOK, world, local
<1>10. CASE BackupFails
  BY <1>0, <1>10, LabelsFixed, ControlType
  DEF BackupFails, ReadFails, TypeOK, WorldTypeOK, world, local
<1>11. CASE Deploy
  <2>1. Render(plan) \in Config
    BY <1>11, RenderType DEF Deploy, MemoryInv, TypeOK
  <2>2. WorldTypeOK' /\ pc' \in Labels /\ attempt' \in 1..MaxAttempts
    BY <1>0, <1>11, <2>1, SetType DEF Deploy, Update, TypeOK
  <2>3. QED
    BY <1>11, <2>2, LabelsFixed DEF Deploy, TypeOK, local
<1>12. CASE ValidateBgp
  BY <1>0, <1>12, LabelsFixed, ControlType
  DEF ValidateBgp, TypeOK, WorldTypeOK, world, local
<1>13. CASE ValidateInterfaces
  BY <1>0, <1>13, LabelsFixed, ControlType
  DEF ValidateInterfaces, TypeOK, WorldTypeOK, world, local
<1>14. CASE UpdateDeviceStatus
  <2>1. StatusStep[pc].next \in Labels /\ StatusStep[pc].status \in Statuses
    BY <1>14 DEF UpdateDeviceStatus, StatusStep, AuditStep, Labels, Unlimited, Statuses
  <2>2. QED
    BY <1>14, <2>1, LabelsFixed, ControlType
    DEF UpdateDeviceStatus, StatusWritten, TypeOK, WorldTypeOK, local
<1>15. CASE UpdateDeviceStatusUnacked
  <2>1. StatusStep[pc].status \in Statuses
    BY <1>15 DEF UpdateDeviceStatusUnacked, StatusStep, Statuses
  <2>2. QED
    BY <1>15, <2>1, LabelsFixed
    DEF UpdateDeviceStatusUnacked, StatusWrittenUnacked, TypeOK, WorldTypeOK, local
<1>16. CASE UNCHANGED vars
  BY <1>16, LabelsFixed DEF vars, world, local, TypeOK, WorldTypeOK
<1>17. CASE Environment /\ UNCHANGED local
  BY <1>17, LabelsFixed, EnvironmentType DEF TypeOK, local
<1>18. QED
  BY <1>1, <1>2, <1>3, <1>4, <1>5, <1>6, <1>7, <1>8, <1>9, <1>10, <1>11, <1>12, <1>13,
     <1>14, <1>15, <1>16, <1>17
  DEF Next, Progress, RetryForever, Ended

-----------------------------------------------------------------------------
(* What the workflow remembers and has put on the audit trail.             *)

\* Every step keeps what the workflow remembers in line with where it is.
LEMMA MemoryStep ==
  ASSUME TypeOK, MemoryInv, [Next]_vars
  PROVE  MemoryInv'
<1> USE DEF MemoryInv, Comparing, Remediating, BackedUp, Deploying, Deployed
<1>1. CASE FetchDevice
  <2>1. seen' # Absent
    BY <1>1, StatusAssumption DEF FetchDevice, TypeOK, WorldTypeOK
  <2>2. QED
    BY <1>1, <2>1 DEF FetchDevice, Goto
<1>2. CASE FetchInterfaces
  <2>1. plan' # Absent
    BY <1>2, SentinelAssumption DEF FetchInterfaces, TypeOK, WorldTypeOK
  <2>2. QED
    BY <1>2, <2>1 DEF FetchInterfaces, Goto
<1>3. CASE FetchInterfacesFails
  BY <1>3 DEF FetchInterfacesFails, Goto, local
<1>4. CASE RenderIntendedConfig
  BY <1>4 DEF RenderIntendedConfig, Goto, local
<1>5. CASE FetchRunningConfig
  <2>1. decision' \in Actions /\ (decision' = "remediate" => seen' # "maintenance")
    BY <1>5, DecisionIs DEF FetchRunningConfig, Decide
  <2>2. QED
    BY <1>5, <2>1 DEF FetchRunningConfig, Goto
<1>6. CASE FetchRunningConfigFails
  BY <1>6 DEF FetchRunningConfigFails, ReadFails, RetryOr, Goto, local
<1>7. CASE LogAuditEvent
  <2>1. UNCHANGED <<plan, seen, decision, backup>> /\ pc' = AuditStep[pc].next
    BY <1>7 DEF LogAuditEvent, Goto
  <2>2. CASE pc = "audit_detected"
    <3>1. decision \in {"suppress", "log_only", "remediate"}
      BY <2>2 DEF Actions
    <3>2. \/ decision = "suppress" /\ pc' = "audit_suppressed"
          \/ decision = "log_only" /\ pc' = "audit_logged"
          \/ decision = "remediate" /\ pc' = "backup"
      BY <1>7, <2>1, <2>2, <3>1, AuditNext DEF LogAuditEvent
    <3>3. QED
      BY <2>1, <2>2, <3>2
  <2>3. CASE pc # "audit_detected"
    BY <1>7, <2>1, <2>3 DEF LogAuditEvent, AuditStep
  <2>4. QED
    BY <2>2, <2>3
<1>8. CASE Backup
  <2>1. backup' # Absent
    BY <1>8, SentinelAssumption DEF Backup, TypeOK, WorldTypeOK
  <2>2. QED
    BY <1>8, <2>1 DEF Backup, Goto
<1>9. CASE StoreBackup
  BY <1>9 DEF StoreBackup, Goto, local
<1>10. CASE BackupFails
  BY <1>10 DEF BackupFails, ReadFails, RetryOr, Goto, local
<1>11. CASE Deploy
  BY <1>11 DEF Deploy, SetSucceeds, SetFails, RetryOr, Goto, local
<1>12. CASE ValidateBgp \/ ValidateInterfaces
  BY <1>12 DEF ValidateBgp, ValidateInterfaces, RetryOr, Goto, local
<1>13. CASE UpdateDeviceStatus
  BY <1>13 DEF UpdateDeviceStatus, StatusWritten, StatusStep, Goto, local
<1>14. CASE UpdateDeviceStatusUnacked
  BY <1>14 DEF UpdateDeviceStatusUnacked, StatusWrittenUnacked, local
<1>15. CASE UNCHANGED vars
  BY <1>15 DEF vars, local
<1>16. CASE Environment /\ UNCHANGED local
  BY <1>16, EnvironmentType DEF TypeOK, local
<1>17. QED
  BY <1>1, <1>2, <1>3, <1>4, <1>5, <1>6, <1>7, <1>8, <1>9, <1>10, <1>11, <1>12, <1>13,
     <1>14, <1>15, <1>16
  DEF Next, Progress, RetryForever, Ended

\* Nothing is taken off the audit trail, and each event is on it when the run
\* has passed its label.
LEMMA TrailStep ==
  ASSUME TypeOK, MemoryInv, AuditInv, [Next]_vars
  PROVE  AuditInv'
<1> USE DEF AuditInv, Comparing
<1>1. CASE FetchDevice \/ FetchInterfaces \/ FetchInterfacesFails \/ RenderIntendedConfig
  BY <1>1
  DEF FetchDevice, FetchInterfaces, FetchInterfacesFails, RenderIntendedConfig, Goto, local
<1>2. CASE FetchRunningConfig
  BY <1>2 DEF FetchRunningConfig, Goto
<1>3. CASE FetchRunningConfigFails
  BY <1>3 DEF FetchRunningConfigFails, ReadFails, RetryOr, Goto, local
<1>4. CASE LogAuditEvent
  <2>1. audit' = audit \cup {AuditStep[pc].event} /\ pc' = AuditStep[pc].next
    BY <1>4 DEF LogAuditEvent, Goto
  <2>2. CASE pc = "audit_detected"
    <3>1. /\ AuditStep[pc].event = "DRIFT_DETECTED"
          /\ pc' \in {"audit_suppressed", "audit_logged", "backup"}
      BY <2>1, <2>2 DEF AuditStep
    <3>2. QED
      BY <2>1, <3>1
  <2>3. CASE pc # "audit_detected"
    BY <1>4, <2>1, <2>3 DEF LogAuditEvent, AuditStep
  <2>4. QED
    BY <2>2, <2>3
<1>5. CASE Backup
  BY <1>5 DEF Backup, Goto
<1>6. CASE StoreBackup
  BY <1>6 DEF StoreBackup, Goto, local
<1>7. CASE BackupFails
  BY <1>7 DEF BackupFails, ReadFails, RetryOr, Goto, local
<1>8. CASE Deploy
  BY <1>8 DEF Deploy, SetSucceeds, SetFails, RetryOr, Goto, local
<1>9. CASE ValidateBgp \/ ValidateInterfaces
  BY <1>9 DEF ValidateBgp, ValidateInterfaces, RetryOr, Goto, local
<1>10. CASE UpdateDeviceStatus
  BY <1>10 DEF UpdateDeviceStatus, StatusWritten, StatusStep, Goto, local
<1>11. CASE UpdateDeviceStatusUnacked
  BY <1>11 DEF UpdateDeviceStatusUnacked, StatusWrittenUnacked, local
<1>12. CASE UNCHANGED vars
  BY <1>12 DEF vars, local
<1>13. CASE Environment /\ UNCHANGED local
  BY <1>13, EnvironmentType DEF TypeOK, local
<1>14. QED
  BY <1>1, <1>2, <1>3, <1>4, <1>5, <1>6, <1>7, <1>8, <1>9, <1>10, <1>11, <1>12, <1>13
  DEF Next, Progress, RetryForever, Ended

\* Type correctness, whatever the environment does.
THEOREM TypeCorrect == Spec => []TypeOK
<1>1. Init => MemoryInv
  BY DEF Init, MemoryInv, Comparing, Remediating, BackedUp, Deploying, Deployed
<1>2. TypeOK /\ MemoryInv /\ [Next]_vars => (TypeOK /\ MemoryInv)'
  BY TypeStep, MemoryStep
<1>3. QED
  BY <1>1, <1>2, InitType, PTL DEF Spec

-----------------------------------------------------------------------------
(* Where the device is.                                                    *)

\* What a SET of this run makes of the device, on time or late.
LEMMA SetEffect ==
  ASSUME IInv, pc \in Deploying, NEW set, ~set.replace, set.payload = Render(plan)
  PROVE  AfterSet(running, set) = Intended
<1>1. pc \in BackedUp /\ pc \notin {"fetch_device", "fetch_interfaces"}
  BY DEF Deploying, Deployed, BackedUp
<1>2. backup \in Config /\ Render(plan) \in Config
  BY <1>1, RenderType DEF IInv, MemoryInv, TypeOK
<1>3. running \in {backup, Merge(backup, Render(plan))}
  BY DEF IInv, DeviceInv, Intended
<1>4. AfterSet(running, Update(Render(plan))) = Intended
  BY <1>2, <1>3, SetAgain DEF Intended
<1>5. QED
  BY <1>4 DEF AfterSet, Update

\* Every step keeps track of the SETs under way.
LEMMA LateStep ==
  ASSUME IInv, [Next]_vars
  PROVE  LateInv'
<1> USE DEF LateInv, IInv
<1>0. Deploying = {"validate_bgp", "validate_interfaces", "mark_validation_failed",
                   "audit_validation_failed", "validation_failed", "mark_active",
                   "audit_remediated", "remediated", "deploy", "mark_deploy_failed",
                   "audit_deploy_failed", "remediation_failed"}
  BY DEF Deploying, Deployed
<1>1. CASE FetchDevice \/ FetchInterfaces \/ FetchInterfacesFails \/ RenderIntendedConfig
  BY <1>0, <1>1
  DEF FetchDevice, FetchInterfaces, FetchInterfacesFails, RenderIntendedConfig, world
<1>2. CASE FetchRunningConfig \/ FetchRunningConfigFails
  BY <1>0, <1>2 DEF FetchRunningConfig, FetchRunningConfigFails, ReadFails, world
<1>3. CASE LogAuditEvent
  BY <1>0, <1>3 DEF LogAuditEvent, AuditStep, Goto, world
<1>4. CASE Backup \/ StoreBackup \/ BackupFails
  BY <1>0, <1>4 DEF Backup, StoreBackup, BackupFails, ReadFails, world
<1>5. CASE Deploy
  BY <1>0, <1>5 DEF Deploy, SetSucceeds, SetFails, RetryOr, Goto, Update, local
<1>6. CASE ValidateBgp \/ ValidateInterfaces
  BY <1>0, <1>6 DEF ValidateBgp, ValidateInterfaces, RetryOr, Goto, world, local
<1>7. CASE UpdateDeviceStatus
  BY <1>0, <1>7 DEF UpdateDeviceStatus, StatusWritten, StatusStep, Goto, local
<1>8. CASE UpdateDeviceStatusUnacked
  BY <1>8 DEF UpdateDeviceStatusUnacked, StatusWrittenUnacked, local
<1>9. CASE UNCHANGED vars
  BY <1>9 DEF vars, world, local
<1>10. CASE Environment /\ UNCHANGED local
  <2>1. late' \subseteq late /\ UNCHANGED <<pc, plan>>
    BY <1>10
    DEF Environment, LateSetLands, OutOfBandEdit, IntentEdit, StatusEdit, local
  <2>2. QED
    BY <2>1
<1>11. QED
  BY <1>1, <1>2, <1>3, <1>4, <1>5, <1>6, <1>7, <1>8, <1>9, <1>10
  DEF Next, Progress, RetryForever, Ended

\* Unless someone configures the device by hand, every step leaves it at the
\* backup or at the backup with the intent.
LEMMA DeviceStep ==
  ASSUME IInv, [Next]_vars, "outOfBand" \notin Faults
  PROVE  DeviceInv'
<1> USE DEF DeviceInv, IInv
<1>0. /\ Deploying = {"validate_bgp", "validate_interfaces", "mark_validation_failed",
                      "audit_validation_failed", "validation_failed", "mark_active",
                      "audit_remediated", "remediated", "deploy", "mark_deploy_failed",
                      "audit_deploy_failed", "remediation_failed"}
      /\ Deployed = {"validate_bgp", "validate_interfaces", "mark_validation_failed",
                     "audit_validation_failed", "validation_failed", "mark_active",
                     "audit_remediated", "remediated"}
  BY DEF Deploying, Deployed
<1>1. CASE FetchDevice \/ FetchInterfaces \/ FetchInterfacesFails \/ RenderIntendedConfig
  BY <1>0, <1>1
  DEF FetchDevice, FetchInterfaces, FetchInterfacesFails, RenderIntendedConfig, Goto
<1>2. CASE FetchRunningConfig \/ FetchRunningConfigFails
  BY <1>0, <1>2 DEF FetchRunningConfig, FetchRunningConfigFails, ReadFails, RetryOr, Goto
<1>3. CASE LogAuditEvent
  <2>1. Intended' = Intended /\ UNCHANGED <<running, backup>>
    BY <1>3 DEF LogAuditEvent, Intended, world
  <2>2. QED
    BY <1>0, <1>3, <2>1 DEF LogAuditEvent, AuditStep, Goto
<1>4. CASE Backup
  BY <1>0, <1>4 DEF Backup, Goto, world
<1>5. CASE StoreBackup
  BY <1>0, <1>5 DEF StoreBackup, Goto, world, local
<1>6. CASE BackupFails
  BY <1>0, <1>6 DEF BackupFails, ReadFails, RetryOr, Goto, world, local
<1>7. CASE Deploy
  <2>1. AfterSet(running, Update(Render(plan))) = Intended
    BY <1>0, <1>7, SetEffect DEF Deploy, Update
  <2>2. Intended' = Intended /\ UNCHANGED backup
    BY <1>7 DEF Deploy, Intended, local
  <2>3. CASE SetSucceeds(Update(Render(plan)), "validate_bgp")
    BY <1>0, <2>1, <2>2, <2>3 DEF SetSucceeds, Goto
  <2>4. CASE SetFails(Update(Render(plan)), "mark_deploy_failed")
    BY <1>0, <1>7, <2>1, <2>2, <2>4 DEF Deploy, SetFails, RetryOr, Goto
  <2>5. QED
    BY <1>7, <2>3, <2>4 DEF Deploy
<1>8. CASE ValidateBgp \/ ValidateInterfaces
  BY <1>0, <1>8 DEF ValidateBgp, ValidateInterfaces, RetryOr, Goto, world, local, Intended
<1>9. CASE UpdateDeviceStatus
  BY <1>0, <1>9 DEF UpdateDeviceStatus, StatusWritten, StatusStep, Goto, local, Intended
<1>10. CASE UpdateDeviceStatusUnacked
  BY <1>10 DEF UpdateDeviceStatusUnacked, StatusWrittenUnacked, local, Intended
<1>11. CASE UNCHANGED vars
  BY <1>11 DEF vars, world, local, Intended
<1>12. CASE Environment /\ UNCHANGED local
  <2>1. Intended' = Intended /\ UNCHANGED <<pc, backup>>
    BY <1>12, EnvironmentStep DEF Intended, local
  <2>2. ASSUME NEW set \in late, running' = AfterSet(running, set)
        PROVE  running' = Intended /\ pc \in Deploying
    BY <2>2, SetEffect DEF LateInv
  <2>3. CASE running' = running
    BY <2>1, <2>3
  <2>4. QED
    BY <1>0, <1>12, <2>1, <2>2, <2>3, EnvironmentStep
<1>13. QED
  BY <1>1, <1>2, <1>3, <1>4, <1>5, <1>6, <1>7, <1>8, <1>9, <1>10, <1>11, <1>12
  DEF Next, Progress, RetryForever, Ended

\* The invariant.
LEMMA Invariance ==
  ASSUME "outOfBand" \notin Faults
  PROVE  Spec => []IInv
<1>1. Init => IInv
  BY InitType
  DEF IInv, MemoryInv, AuditInv, LateInv, DeviceInv, Init, WorldInit, Comparing,
      Remediating, BackedUp, Deploying, Deployed
<1>2. IInv /\ [Next]_vars => IInv'
  BY TypeStep, MemoryStep, TrailStep, LateStep, DeviceStep DEF IInv
<1>3. QED
  BY <1>1, <1>2, PTL DEF Spec

\* A run that starts, whatever the device holds and its status is.
LEMMA Started ==
  ASSUME WorldTypeOK', late' = {}, pc' = "fetch_device", attempt' = 1, plan' = Absent,
         seen' = Absent, decision' = Absent, backup' = Absent, audit' = {}
  PROVE  IInv'
<1>1. TypeOK'
  BY ActivityAssumption DEF TypeOK, Labels, Unlimited
<1>2. QED
  BY <1>1 DEF IInv, MemoryInv, AuditInv, LateInv, DeviceInv, Comparing, Remediating,
              BackedUp, Deploying, Deployed

-----------------------------------------------------------------------------
(* Changes are made in order, and their outcome is recorded.               *)

\* A device is changed only after the drift is on the audit trail and the device
\* backed up, and never if it was in maintenance when its status was read: also
\* by a SET that lands late.
THEOREM ChangedInOrder ==
  ASSUME "outOfBand" \notin Faults
  PROVE  Spec => ChangesInOrder
<1> DEFINE Ordered == running' # running =>
                        /\ "DRIFT_DETECTED" \in audit
                        /\ backup # Absent
                        /\ seen \notin {Absent, "maintenance"}
<1>1. IInv /\ [Next]_vars => Ordered
  <2> SUFFICES ASSUME IInv, [Next]_vars, running' # running PROVE Ordered
    OBVIOUS
  <2>1. Deploy \/ Environment
    BY DEF Next, vars, Progress, RetryForever, Ended, FetchDevice, FetchInterfaces,
           FetchInterfacesFails, RenderIntendedConfig, FetchRunningConfig,
           FetchRunningConfigFails, ReadFails, LogAuditEvent, Backup, StoreBackup,
           BackupFails, ValidateBgp, ValidateInterfaces, UpdateDeviceStatus,
           StatusWritten, UpdateDeviceStatusUnacked, StatusWrittenUnacked, world
  <2>2. pc \in Deploying
    BY <2>1, EnvironmentStep DEF Deploy, IInv, LateInv, Deploying
  <2>3. QED
    BY <2>2 DEF IInv, MemoryInv, AuditInv, Deploying, Deployed, BackedUp, Remediating,
                Comparing
<1>2. QED
  BY <1>1, Invariance, PTL DEF Spec, ChangesInOrder

\* Where the status is written, it stays: nobody else sets it.
LEMMA MarkedStep ==
  ASSUME StatusInv, [Next]_vars, TypeOK, "statusEdit" \notin Faults, "outOfBand" \notin Faults
  PROVE  StatusInv'
<1> USE DEF StatusInv
<1>1. CASE FetchDevice \/ FetchInterfaces \/ FetchInterfacesFails \/ RenderIntendedConfig
  BY <1>1
  DEF FetchDevice, FetchInterfaces, FetchInterfacesFails, RenderIntendedConfig, Goto
<1>2. CASE FetchRunningConfig \/ FetchRunningConfigFails
  BY <1>2 DEF FetchRunningConfig, FetchRunningConfigFails, ReadFails, RetryOr, Goto, world
<1>3. CASE LogAuditEvent
  <2>1. UNCHANGED status /\ pc' = AuditStep[pc].next
    BY <1>3 DEF LogAuditEvent, Goto, world
  <2>2. CASE pc = "audit_detected"
    <3>1. pc' \in {"audit_suppressed", "audit_logged", "backup"}
      BY <2>1, <2>2 DEF AuditStep
    <3>2. QED
      BY <3>1
  <2>3. CASE pc # "audit_detected"
    BY <1>3, <2>1, <2>3 DEF LogAuditEvent, AuditStep
  <2>4. QED
    BY <2>2, <2>3
<1>4. CASE Backup \/ StoreBackup \/ BackupFails
  BY <1>4 DEF Backup, StoreBackup, BackupFails, ReadFails, RetryOr, Goto
<1>5. CASE Deploy
  BY <1>5 DEF Deploy, SetSucceeds, SetFails, RetryOr, Goto
<1>6. CASE ValidateBgp \/ ValidateInterfaces
  BY <1>6 DEF ValidateBgp, ValidateInterfaces, RetryOr, Goto
<1>7. CASE UpdateDeviceStatus
  BY <1>7 DEF UpdateDeviceStatus, StatusWritten, StatusStep, Goto
<1>8. CASE UpdateDeviceStatusUnacked
  BY <1>8 DEF UpdateDeviceStatusUnacked, StatusWrittenUnacked, StatusStep
<1>9. CASE UNCHANGED vars
  BY <1>9 DEF vars, world
<1>10. CASE Environment
  BY <1>10, EnvironmentStep
<1>11. QED
  BY <1>1, <1>2, <1>3, <1>4, <1>5, <1>6, <1>7, <1>8, <1>9, <1>10
  DEF Next, Progress, RetryForever, Ended

\* From the validation on the device has every leaf of the intent that was read.
LEMMA DeployedHasIntent ==
  ASSUME IInv, pc \in Deployed
  PROVE  Merge(running, Render(plan)) = running
<1>1. running = Intended /\ pc \in BackedUp /\ pc \notin {"fetch_device", "fetch_interfaces"}
  BY DEF IInv, DeviceInv, Deployed, BackedUp, Deploying
<1>2. backup \in Config /\ Render(plan) \in Config
  BY <1>1, RenderType DEF IInv, MemoryInv, TypeOK
<1>3. QED
  BY <1>1, <1>2, MergeTwice DEF Intended

\* A remediation that failed after the device may have been touched leaves it in
\* maintenance and on the audit trail; one that is reported left the device
\* active, with every leaf of the intent that was read.
THEOREM OutcomeRecorded ==
  ASSUME "outOfBand" \notin Faults, "statusEdit" \notin Faults
  PROVE  Spec => []OutcomeIsRecorded
<1>1. Init => StatusInv
  BY DEF Init, StatusInv
<1>2. IInv /\ StatusInv /\ [Next]_vars => StatusInv'
  BY MarkedStep DEF IInv
<1>3. IInv /\ StatusInv => OutcomeIsRecorded
  <2> SUFFICES ASSUME IInv, StatusInv PROVE OutcomeIsRecorded
    OBVIOUS
  <2>1. pc = "remediated" => Merge(running, Render(plan)) = running
    BY DeployedHasIntent DEF Deployed
  <2>2. QED
    BY <2>1 DEF IInv, StatusInv, AuditInv, Comparing, OutcomeIsRecorded
<1>4. QED
  BY <1>1, <1>2, <1>3, Invariance, PTL DEF Spec

-----------------------------------------------------------------------------
(* The workflow implements the transaction.                                *)

\* No step leaves a SET under way.
LEMMA NothingLateStep ==
  ASSUME late = {}, [Next]_vars, "lateSet" \notin Faults
  PROVE  late' = {}
BY DEF Next, vars, Progress, RetryForever, Ended, FetchDevice, FetchInterfaces,
       FetchInterfacesFails, RenderIntendedConfig, FetchRunningConfig,
       FetchRunningConfigFails, ReadFails, LogAuditEvent, Backup, StoreBackup,
       BackupFails, Deploy, SetSucceeds, SetFails, ValidateBgp, ValidateInterfaces,
       UpdateDeviceStatus, StatusWritten, UpdateDeviceStatusUnacked,
       StatusWrittenUnacked, Environment, LateSetLands, OutOfBandEdit, IntentEdit,
       StatusEdit, world

\* No SET is under way between attempts.
LEMMA NothingLate ==
  ASSUME "lateSet" \notin Faults
  PROVE  Spec => [](late = {})
<1>1. Init => late = {}
  BY DEF Init, WorldInit
<1>2. late = {} /\ [Next]_vars => (late = {})'
  BY NothingLateStep
<1>3. QED
  BY <1>1, <1>2, PTL DEF Spec

\* The phase of the transaction at each label.
PhaseIs(label, phase) ==
  /\ label \in {"deploy", "validate_bgp", "validate_interfaces"} => phase = "changing"
  /\ label \in {"mark_active", "audit_remediated", "remediated"} => phase = "changed"
  /\ label \in {"mark_deploy_failed", "audit_deploy_failed", "remediation_failed",
                "mark_validation_failed", "audit_validation_failed", "validation_failed"} =>
       phase = "unresolved"
  /\ label \notin Deploying => phase = "untouched"

LEMMA PhaseAt == PhaseIs(pc, Phase) /\ PhaseIs(pc', Phase')
BY DEF PhaseIs, Phase, Deploying, Deployed

\* A step that leaves the label, the device and what was read alone is a
\* stutter of the transaction.
LEMMA Stutter ==
  ASSUME UNCHANGED <<running, pc, backup, plan>>
  PROVE  UNCHANGED Transaction!vars
BY DEF Transaction!vars, Phase, Began, Intended

\* Until the deployment the transaction has not begun: nothing of it changes.
LEMMA UntouchedStep ==
  ASSUME pc \notin Deploying, pc' \notin Deploying, running' = running
  PROVE  UNCHANGED Transaction!vars
<1>1. Phase = "untouched" /\ Phase' = "untouched"
  BY PhaseAt DEF PhaseIs
<1>2. QED
  BY <1>1 DEF Transaction!vars, Began

\* The base and the target of a transaction under way do not change any more.
LEMMA Fixed ==
  ASSUME pc \in Deploying, pc' \in Deploying, UNCHANGED <<backup, plan>>
  PROVE  /\ (IF Began THEN backup ELSE Absent) = backup
         /\ (IF Began THEN Intended ELSE Absent) = Intended
         /\ (IF Began THEN backup ELSE Absent)' = backup
         /\ (IF Began THEN Intended ELSE Absent)' = Intended
BY PhaseAt DEF PhaseIs, Began, Intended, Deploying, Deployed

\* Nor do they in a step within one phase, which is a stutter.
LEMMA PhaseKept ==
  ASSUME pc \in Deploying, pc' \in Deploying, UNCHANGED <<running, backup, plan>>,
         Phase' = Phase
  PROVE  UNCHANGED Transaction!vars
BY Fixed DEF Transaction!vars

\* Every step of the workflow is a step of the transaction or a stutter.
LEMMA TransactionStep ==
  ASSUME IInv, late = {}, [Next]_vars, "outOfBand" \notin Faults
  PROVE  [Transaction!Next]_(Transaction!vars)
<1> USE DEF IInv
<1>0. Deploying = {"validate_bgp", "validate_interfaces", "mark_validation_failed",
                   "audit_validation_failed", "validation_failed", "mark_active",
                   "audit_remediated", "remediated", "deploy", "mark_deploy_failed",
                   "audit_deploy_failed", "remediation_failed"}
  BY DEF Deploying, Deployed
<1>1. CASE FetchDevice \/ FetchInterfaces \/ FetchInterfacesFails \/ RenderIntendedConfig
  BY <1>0, <1>1, UntouchedStep
  DEF FetchDevice, FetchInterfaces, FetchInterfacesFails, RenderIntendedConfig, Goto, world
<1>2. CASE FetchRunningConfig \/ FetchRunningConfigFails
  BY <1>0, <1>2, UntouchedStep
  DEF FetchRunningConfig, FetchRunningConfigFails, ReadFails, RetryOr, Goto, world
<1>3. CASE LogAuditEvent
  <2>1. /\ pc' = AuditStep[pc].next
        /\ UNCHANGED <<running, backup, plan>>
    BY <1>3 DEF LogAuditEvent, Goto, world
  <2>2. CASE pc \notin Deploying
    <3>1. pc' \notin Deploying
      BY <1>0, <1>3, <2>1, <2>2 DEF LogAuditEvent, AuditStep
    <3>2. QED
      BY <2>1, <2>2, <3>1, UntouchedStep
  <2>3. CASE pc \in Deploying
    <3>1. \/ pc = "audit_remediated" /\ pc' = "remediated"
          \/ pc = "audit_deploy_failed" /\ pc' = "remediation_failed"
          \/ pc = "audit_validation_failed" /\ pc' = "validation_failed"
      BY <1>0, <1>3, <2>1, <2>3 DEF LogAuditEvent, AuditStep
    <3>2. QED
      BY <1>0, <2>1, <3>1, PhaseAt, PhaseKept DEF PhaseIs
  <2>4. QED
    BY <2>2, <2>3
<1>4. CASE Backup \/ BackupFails
  BY <1>0, <1>4, UntouchedStep DEF Backup, BackupFails, ReadFails, RetryOr, Goto, world
<1>5. CASE StoreBackup
  <2>1. Phase = "untouched" /\ Phase' = "changing"
    BY <1>0, <1>5, PhaseAt DEF StoreBackup, Goto, PhaseIs
  <2>2. running = backup /\ backup \in Config /\ plan \in Intent
    BY <1>5 DEF StoreBackup, DeviceInv, MemoryInv, TypeOK, WorldTypeOK
  <2>3. Intended \in Config
    BY <2>2, RenderType, MergeType DEF Intended
  <2>4. Transaction!Begin
    BY <1>5, <2>1, <2>2, <2>3
    DEF StoreBackup, Transaction!Begin, Began, Intended, world, local
  <2>5. QED
    BY <2>4 DEF Transaction!Next
<1>6. CASE Deploy
  <2>1. pc \in Deploying /\ Phase = "changing"
    BY <1>0, <1>6, PhaseAt DEF Deploy, PhaseIs
  <2>2. AfterSet(running, Update(Render(plan))) = Intended
    BY <2>1, SetEffect DEF Update
  <2>3. /\ pc' \in {"deploy", "validate_bgp", "mark_deploy_failed"}
        /\ running' \in {running, Intended}
        /\ pc' = "validate_bgp" => running' = Intended
        /\ UNCHANGED <<backup, plan>>
    BY <1>6, <2>2 DEF Deploy, SetSucceeds, SetFails, RetryOr, Goto, local
  <2>4. CASE pc' = "mark_deploy_failed"
    <3>1. Phase' = "unresolved"
      BY <2>4, PhaseAt DEF PhaseIs
    <3>2. Transaction!Abandon
      BY <1>0, <2>1, <2>3, <2>4, <3>1, Fixed DEF Transaction!Abandon
    <3>3. QED
      BY <3>2 DEF Transaction!Next
  <2>5. CASE pc' # "mark_deploy_failed" /\ running' = Intended
    <3>1. Phase' = "changing"
      BY <2>3, <2>5, PhaseAt DEF PhaseIs
    <3>2. Transaction!Push
      BY <1>0, <2>1, <2>3, <2>5, <3>1, Fixed DEF Transaction!Push
    <3>3. QED
      BY <3>2 DEF Transaction!Next
  <2>6. CASE pc' # "mark_deploy_failed" /\ running' = running
    <3>1. Phase' = "changing"
      BY <2>3, <2>6, PhaseAt DEF PhaseIs
    <3>2. QED
      BY <1>0, <2>1, <2>3, <2>6, <3>1, PhaseKept
  <2>7. QED
    BY <2>3, <2>4, <2>5, <2>6
<1>7. CASE ValidateBgp \/ ValidateInterfaces
  <2>1. pc \in Deploying /\ Phase = "changing" /\ running = Intended
    BY <1>0, <1>7, PhaseAt DEF ValidateBgp, ValidateInterfaces, PhaseIs, DeviceInv, Deployed
  <2>2. /\ pc' \in {"validate_bgp", "validate_interfaces", "mark_active",
                    "mark_validation_failed"}
        /\ UNCHANGED <<running, backup, plan>>
    BY <1>7 DEF ValidateBgp, ValidateInterfaces, RetryOr, Goto, world, local
  <2>3. CASE pc' = "mark_validation_failed"
    <3>1. Phase' = "unresolved"
      BY <2>3, PhaseAt DEF PhaseIs
    <3>2. Transaction!Abandon
      BY <1>0, <2>1, <2>2, <2>3, <3>1, Fixed DEF Transaction!Abandon
    <3>3. QED
      BY <3>2 DEF Transaction!Next
  <2>4. CASE pc' = "mark_active"
    <3>1. Phase' = "changed"
      BY <2>4, PhaseAt DEF PhaseIs
    <3>2. Transaction!Commit
      BY <1>0, <2>1, <2>2, <2>4, <3>1, Fixed DEF Transaction!Commit
    <3>3. QED
      BY <3>2 DEF Transaction!Next
  <2>5. CASE pc' \in {"validate_bgp", "validate_interfaces"}
    <3>1. Phase' = "changing"
      BY <2>5, PhaseAt DEF PhaseIs
    <3>2. QED
      BY <1>0, <2>1, <2>2, <2>5, <3>1, PhaseKept
  <2>6. QED
    BY <2>2, <2>3, <2>4, <2>5
<1>8. CASE UpdateDeviceStatus
  <2>1. UNCHANGED <<running, backup, plan>>
    BY <1>8 DEF UpdateDeviceStatus, StatusWritten, local
  <2>2. \/ pc = "mark_active" /\ pc' = "audit_remediated"
        \/ pc = "mark_deploy_failed" /\ pc' = "audit_deploy_failed"
        \/ pc = "mark_validation_failed" /\ pc' = "audit_validation_failed"
    BY <1>8 DEF UpdateDeviceStatus, StatusWritten, StatusStep, Goto
  <2>3. QED
    BY <1>0, <2>1, <2>2, PhaseAt, PhaseKept DEF PhaseIs
<1>9. CASE UpdateDeviceStatusUnacked
  BY <1>9, Stutter DEF UpdateDeviceStatusUnacked, StatusWrittenUnacked, local
<1>10. CASE UNCHANGED vars
  BY <1>10, Stutter DEF vars, world, local
<1>11. CASE Environment /\ UNCHANGED local
  BY <1>11, EnvironmentStep, Stutter DEF local
<1>12. QED
  BY <1>1, <1>2, <1>3, <1>4, <1>5, <1>6, <1>7, <1>8, <1>9, <1>10, <1>11
  DEF Next, Progress, RetryForever, Ended

\* A remediation takes the device from the backup to the backup with the intent
\* merged in and to nothing else, through every failure, retry and lost
\* acknowledgement; where it fails the device is at one of the two.
THEOREM ImplementsTransaction ==
  ASSUME "outOfBand" \notin Faults, "lateSet" \notin Faults
  PROVE  Spec => IsTransaction
<1>1. Init => Transaction!Init
  <2> SUFFICES ASSUME Init PROVE Transaction!Init
    OBVIOUS
  <2>1. Phase = "untouched" /\ running \in Config
    BY PhaseAt, InputTypes DEF Init, WorldInit, PhaseIs, Deploying, Deployed
  <2>2. QED
    BY <2>1 DEF Transaction!Init, Began
<1>2. IInv /\ late = {} /\ [Next]_vars => [Transaction!Next]_(Transaction!vars)
  BY TransactionStep
<1>3. QED
  BY <1>1, <1>2, Invariance, NothingLate, PTL DEF Spec, IsTransaction, Transaction!Spec
=============================================================================
