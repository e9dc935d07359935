------------------------ MODULE NetworkChangeProofs ------------------------
(***************************************************************************)
(* NetworkChangeWorkflow keeps its promises about the device for every set *)
(* of interfaces, sections and values and for every number of attempts.    *)
(***************************************************************************)
EXTENDS NetworkChange, DeviceProofs

\* The labels by what the run has behind it at them.
BackedUp  == Labels \ {"backup", "backup_failed"}
Restoring == {"rollback", "rollback_failed", "mark_rolled_back", "rolled_back"}
Validated == {"mark_active", "success"}
Deployed  == Validated \cup {"validate_bgp", "validate_interfaces"}
Deploying == {"deploy"} \cup Restoring \cup Deployed
Planned   == Deploying \cup {"render_error", "mark_unhygienic", "unhygienic"}

\* What the workflow remembers: a backup from "store_backup" on, the intent
\* from its fetch on, and only an acceptable one where it is deployed.
MemoryInv ==
  /\ pc \in BackedUp <=> backup # Absent
  /\ pc \in Planned <=> plan # Absent
  /\ pc \in Deploying => Renders(plan) /\ PassesHygiene(plan)

\* The SETs still under way are those this run has tried.
LateInv ==
  \A set \in late :
    /\ pc \in Deploying
    /\ \/ ~set.replace /\ set.payload = Render(plan)
       \/ set.replace /\ set.payload = backup /\ pc \in Restoring

\* Where the device is.
DeviceInv ==
  /\ pc \in BackedUp \ Deploying => running = backup
  /\ pc \in Deploying => running \in {backup, Intended}
  /\ pc \in Deployed => running = Intended
  /\ pc \in Validated => AdminStatesMatch(running, plan)

IInv == TypeOK /\ MemoryInv /\ LateInv /\ DeviceInv

\* The same when no SET outlives its attempt: then a rollback is final.
PromptInv ==
  /\ late = {}
  /\ pc \in {"mark_rolled_back", "rolled_back"} => running = backup

-----------------------------------------------------------------------------
(* Types.                                                                  *)

\* Every step keeps the types: what is deployed or put back was read before.
LEMMA TypeStep ==
  ASSUME TypeOK, MemoryInv, [Next]_vars
  PROVE  TypeOK'
<1>1. CASE Backup
  <2>1. "store_backup" \in Labels
    BY DEF Labels, Unlimited
  <2>2. QED
    BY <1>1, <2>1, ControlType DEF Backup, TypeOK, WorldTypeOK, world
<1>2. CASE BackupFails
  <2>1. "backup_failed" \in Labels
    BY DEF Labels, Closed
  <2>2. QED
    BY <1>2, <2>1, ControlType DEF BackupFails, ReadFails, TypeOK, WorldTypeOK, world
<1>3. CASE StoreBackup
  <2>1. "fetch" \in Labels
    BY DEF Labels, Unlimited
  <2>2. QED
    BY <1>3, <2>1, ControlType DEF StoreBackup, TypeOK, WorldTypeOK, world
<1>4. CASE FetchDeviceConfig
  <2>1. NextAfterFetch(intent) \in Labels
    BY DEF NextAfterFetch, Labels, Stuck, Unlimited
  <2>2. QED
    BY <1>4, <2>1, ControlType DEF FetchDeviceConfig, TypeOK, WorldTypeOK, world
<1>5. CASE Deploy
  <2>1. plan \in Intent
    BY <1>5 DEF Deploy, MemoryInv, Planned, Deploying, TypeOK
  <2>2. Render(plan) \in Config
    BY <2>1, RenderType
  <2>3. "validate_bgp" \in Labels /\ "rollback" \in Labels
    BY DEF Labels
  <2>4. QED
    BY <1>5, <2>2, <2>3, SetType DEF Deploy, Update, TypeOK
<1>6. CASE ValidateBgp
  <2>1. "validate_interfaces" \in Labels /\ "rollback" \in Labels
    BY DEF Labels
  <2>2. QED
    BY <1>6, <2>1, ControlType DEF ValidateBgp, TypeOK, WorldTypeOK, world
<1>7. CASE ValidateInterfaces
  <2>1. "mark_active" \in Labels /\ "rollback" \in Labels
    BY DEF Labels, Unlimited
  <2>2. QED
    BY <1>7, <2>1, ControlType DEF ValidateInterfaces, TypeOK, WorldTypeOK, world
<1>8. CASE Rollback
  <2>1. backup \in Config
    BY <1>8 DEF Rollback, MemoryInv, BackedUp, Labels, TypeOK
  <2>2. "mark_rolled_back" \in Labels /\ "rollback_failed" \in Labels
    BY DEF Labels, Unlimited, Closed
  <2>3. QED
    BY <1>8, <2>1, <2>2, SetType DEF Rollback, RollbackSet, Restore, TypeOK
<1>9. CASE UpdateDeviceStatus
  <2>1. /\ StatusStep[pc].next \in Labels
        /\ StatusStep[pc].status \in Statuses
    BY <1>9 DEF UpdateDeviceStatus, StatusStep, Labels, Closed, Stuck, Statuses
  <2>2. QED
    BY <1>9, <2>1, ControlType DEF UpdateDeviceStatus, StatusWritten, TypeOK, WorldTypeOK
<1>10. CASE UpdateDeviceStatusUnacked
  <2>1. StatusStep[pc].status \in Statuses
    BY <1>10 DEF UpdateDeviceStatusUnacked, StatusStep, Statuses
  <2>2. QED
    BY <1>10, <2>1 DEF UpdateDeviceStatusUnacked, StatusWrittenUnacked, TypeOK, WorldTypeOK
<1>11. CASE UNCHANGED vars
  BY <1>11 DEF vars, world, TypeOK, WorldTypeOK
<1>12. CASE Environment /\ UNCHANGED <<backup, plan>>
  BY <1>12, EnvironmentType DEF TypeOK
<1>13. QED
  BY <1>1, <1>2, <1>3, <1>4, <1>5, <1>6, <1>7, <1>8, <1>9, <1>10, <1>11, <1>12
  DEF Next, Progress, RetryForever, Ended

\* Every step keeps what the workflow remembers in line with where it is.
LEMMA MemoryStep ==
  ASSUME TypeOK, MemoryInv, [Next]_vars
  PROVE  MemoryInv'
<1> USE DEF MemoryInv, BackedUp, Planned, Deploying, Deployed, Validated, Restoring,
            Labels, Unlimited, Closed, Stuck
<1>1. CASE Backup
  <2>1. backup' # Absent
    BY <1>1, SentinelAssumption DEF Backup, TypeOK, WorldTypeOK
  <2>2. QED
    BY <1>1, <2>1 DEF Backup, Goto
<1>2. CASE BackupFails
  BY <1>2 DEF BackupFails, ReadFails, RetryOr, Goto
<1>3. CASE StoreBackup
  BY <1>3 DEF StoreBackup, Goto
<1>4. CASE FetchDeviceConfig
  <2>1. plan' # Absent
    BY <1>4, SentinelAssumption DEF FetchDeviceConfig, TypeOK, WorldTypeOK
  <2>2. QED
    BY <1>4, <2>1 DEF FetchDeviceConfig, NextAfterFetch, Goto
<1>5. CASE Deploy
  BY <1>5 DEF Deploy, SetSucceeds, SetFails, RetryOr, Goto
<1>6. CASE ValidateBgp
  BY <1>6 DEF ValidateBgp, RetryOr, Goto
<1>7. CASE ValidateInterfaces
  BY <1>7 DEF ValidateInterfaces, RetryOr, Goto
<1>8. CASE Rollback
  BY <1>8 DEF Rollback, SetSucceeds, SetFails, RetryOr, Goto
<1>9. CASE UpdateDeviceStatus
  BY <1>9 DEF UpdateDeviceStatus, StatusWritten, StatusStep, Goto
<1>10. CASE UpdateDeviceStatusUnacked
  BY <1>10 DEF UpdateDeviceStatusUnacked, StatusWrittenUnacked
<1>11. CASE UNCHANGED vars
  BY <1>11 DEF vars
<1>12. CASE Environment /\ UNCHANGED <<backup, plan>>
  BY <1>12 DEF Environment, LateSetLands, OutOfBandEdit, IntentEdit, StatusEdit
<1>13. QED
  BY <1>1, <1>2, <1>3, <1>4, <1>5, <1>6, <1>7, <1>8, <1>9, <1>10, <1>11, <1>12
  DEF Next, Progress, RetryForever, Ended

\* The initial states have the types, nothing read and nothing under way.
LEMMA InitType ==
  ASSUME Init
  PROVE  TypeOK /\ MemoryInv
<1>1. TypeOK
  BY InputTypes, ActivityAssumption DEF Init, WorldInit, TypeOK, WorldTypeOK, Labels
<1>2. MemoryInv
  BY DEF Init, MemoryInv, BackedUp, Planned, Deploying, Deployed, Validated, Restoring
<1>3. QED
  BY <1>1, <1>2

\* Type correctness of NetworkChange, whatever the environment does.
THEOREM TypeCorrect == Spec => []TypeOK
<1>1. Init => TypeOK /\ MemoryInv
  BY InitType
<1>2. TypeOK /\ MemoryInv /\ [Next]_vars => (TypeOK /\ MemoryInv)'
  BY TypeStep, MemoryStep
<1>3. QED
  BY <1>1, <1>2, PTL DEF Spec

-----------------------------------------------------------------------------
(* Where the device is.                                                    *)

\* What a SET of this run makes of the device: the change repeated is the
\* change, and the backup put back is the baseline, whatever it finds.
LEMMA SetEffect ==
  ASSUME IInv, pc \in Deploying, NEW set
  PROVE  /\ ~set.replace /\ set.payload = Render(plan) =>
              AfterSet(running, set) = Intended
         /\ set.replace /\ set.payload = backup =>
              AfterSet(running, set) = backup
<1>1. pc \in BackedUp /\ pc \in Planned
  BY DEF Deploying, Deployed, Validated, Restoring, BackedUp, Planned, Labels,
         Unlimited, Closed, Stuck
<1>2. backup \in Config /\ Render(plan) \in Config
  BY <1>1, RenderType DEF IInv, MemoryInv, TypeOK
<1>3. running = backup \/ running = Intended
  BY DEF IInv, DeviceInv
<1>4. Merge(running, Render(plan)) = Intended
  BY <1>2, <1>3, MergeTwice DEF Intended
<1>5. QED
  BY <1>4 DEF AfterSet

\* Every step keeps track of the SETs under way.
LEMMA LateStep ==
  ASSUME IInv, [Next]_vars
  PROVE  LateInv'
<1> USE DEF LateInv, IInv
<1> DEFINE Labelled == /\ Deploying = {"deploy", "rollback", "rollback_failed",
                                       "mark_rolled_back", "rolled_back",
                                       "mark_active", "success", "validate_bgp",
                                       "validate_interfaces"}
                       /\ Restoring = {"rollback", "rollback_failed",
                                       "mark_rolled_back", "rolled_back"}
<1>0. Labelled
  BY DEF Deploying, Deployed, Validated, Restoring
<1>1. CASE Backup
  BY <1>0, <1>1 DEF Backup, world
<1>2. CASE BackupFails
  BY <1>0, <1>2 DEF BackupFails, ReadFails, world
<1>3. CASE StoreBackup
  BY <1>0, <1>3 DEF StoreBackup, world
<1>4. CASE FetchDeviceConfig
  BY <1>0, <1>4 DEF FetchDeviceConfig, world
<1>5. CASE Deploy
  BY <1>0, <1>5 DEF Deploy, SetSucceeds, SetFails, RetryOr, Goto, Update
<1>6. CASE ValidateBgp
  BY <1>0, <1>6 DEF ValidateBgp, RetryOr, Goto, world
<1>7. CASE ValidateInterfaces
  BY <1>0, <1>7 DEF ValidateInterfaces, RetryOr, Goto, world
<1>8. CASE Rollback
  BY <1>0, <1>8 DEF Rollback, SetSucceeds, SetFails, RetryOr, Goto, RollbackSet, Restore
<1>9. CASE UpdateDeviceStatus
  BY <1>0, <1>9 DEF UpdateDeviceStatus, StatusWritten, StatusStep, Goto
<1>10. CASE UpdateDeviceStatusUnacked
  BY <1>10 DEF UpdateDeviceStatusUnacked, StatusWrittenUnacked
<1>11. CASE UNCHANGED vars
  BY <1>11 DEF vars, world
<1>12. CASE Environment /\ UNCHANGED <<backup, plan>>
  BY <1>12 DEF Environment, LateSetLands, OutOfBandEdit, IntentEdit, StatusEdit
<1>13. QED
  BY <1>1, <1>2, <1>3, <1>4, <1>5, <1>6, <1>7, <1>8, <1>9, <1>10, <1>11, <1>12
  DEF Next, Progress, RetryForever, Ended

\* Unless someone configures the device by hand, every step leaves it at the
\* baseline or at the baseline with the change.
LEMMA DeviceStep ==
  ASSUME IInv, [Next]_vars, "outOfBand" \notin Faults
  PROVE  DeviceInv'
<1> USE DEF DeviceInv, IInv
<1> DEFINE Labelled == /\ Deploying = {"deploy", "rollback", "rollback_failed",
                                       "mark_rolled_back", "rolled_back",
                                       "mark_active", "success", "validate_bgp",
                                       "validate_interfaces"}
                       /\ Deployed = {"mark_active", "success", "validate_bgp",
                                      "validate_interfaces"}
                       /\ Validated = {"mark_active", "success"}
                       /\ BackedUp \ Deploying =
                            {"store_backup", "fetch", "render_error",
                             "mark_unhygienic", "unhygienic"}
<1>0. Labelled
  BY DEF Deploying, Deployed, Validated, Restoring, BackedUp, Labels, Unlimited,
         Closed, Stuck
<1>1. CASE Backup
  BY <1>0, <1>1 DEF Backup, Goto, world
<1>2. CASE BackupFails
  BY <1>0, <1>2 DEF BackupFails, ReadFails, RetryOr, Goto, world
<1>3. CASE StoreBackup
  BY <1>0, <1>3 DEF StoreBackup, Goto, world
<1>4. CASE FetchDeviceConfig
  BY <1>0, <1>4 DEF FetchDeviceConfig, NextAfterFetch, Goto, world
<1>5. CASE Deploy
  <2>1. AfterSet(running, Update(Render(plan))) = Intended
    BY <1>0, <1>5, SetEffect DEF Deploy, Update
  <2>2. Intended' = Intended
    BY <1>5 DEF Deploy, Intended
  <2>3. CASE SetSucceeds(Update(Render(plan)), "validate_bgp")
    BY <1>0, <1>5, <2>1, <2>2, <2>3 DEF Deploy, SetSucceeds, Goto
  <2>4. CASE SetFails(Update(Render(plan)), "rollback")
    BY <1>0, <1>5, <2>1, <2>2, <2>4 DEF Deploy, SetFails, RetryOr, Goto
  <2>5. QED
    BY <1>5, <2>3, <2>4 DEF Deploy
<1>6. CASE ValidateBgp
  BY <1>0, <1>6 DEF ValidateBgp, RetryOr, Goto, world, Intended
<1>7. CASE ValidateInterfaces
  BY <1>0, <1>7 DEF ValidateInterfaces, RetryOr, Goto, world, Intended
<1>8. CASE Rollback
  <2>1. AfterSet(running, RollbackSet) = backup
    BY <1>0, <1>8, SetEffect DEF Rollback, RollbackSet, Restore
  <2>2. Intended' = Intended
    BY <1>8 DEF Rollback, Intended
  <2>3. CASE SetSucceeds(RollbackSet, "mark_rolled_back")
    BY <1>0, <1>8, <2>1, <2>2, <2>3 DEF Rollback, SetSucceeds, Goto
  <2>4. CASE SetFails(RollbackSet, "rollback_failed")
    BY <1>0, <1>8, <2>1, <2>2, <2>4 DEF Rollback, SetFails, RetryOr, Goto
  <2>5. QED
    BY <1>8, <2>3, <2>4 DEF Rollback
<1>9. CASE UpdateDeviceStatus
  BY <1>0, <1>9 DEF UpdateDeviceStatus, StatusWritten, StatusStep, Goto, Intended
<1>10. CASE UpdateDeviceStatusUnacked
  BY <1>10 DEF UpdateDeviceStatusUnacked, StatusWrittenUnacked, Intended
<1>11. CASE UNCHANGED vars
  BY <1>11 DEF vars, world, Intended
<1>12. CASE Environment /\ UNCHANGED <<backup, plan>>
  <2>1. Intended' = Intended
    BY <1>12 DEF Intended
  <2>2. CASE LateSetLands
    <3>1. PICK set \in late : running' = AfterSet(running, set)
      BY <2>2 DEF LateSetLands
    <3>2. \/ running' = Intended
          \/ running' = backup /\ pc \in Restoring
      BY <3>1, SetEffect DEF LateInv
    <3>3. pc \in Deploying /\ pc' = pc
      BY <2>2, <3>1 DEF LateSetLands, LateInv
    <3>4. pc \in Restoring => pc \notin Deployed
      BY DEF Restoring, Deployed, Validated
    <3>5. pc \in Deployed => running' = running
      BY <3>2, <3>4
    <3>6. Validated \subseteq Deployed
      BY DEF Deployed
    <3>7. QED
      BY <1>12, <2>1, <3>2, <3>3, <3>5, <3>6
  <2>3. CASE OutOfBandEdit
    BY <2>3 DEF OutOfBandEdit
  <2>4. CASE IntentEdit \/ StatusEdit
    BY <1>12, <2>1, <2>4 DEF IntentEdit, StatusEdit
  <2>5. QED
    BY <1>12, <2>2, <2>3, <2>4 DEF Environment
<1>13. QED
  BY <1>1, <1>2, <1>3, <1>4, <1>5, <1>6, <1>7, <1>8, <1>9, <1>10, <1>11, <1>12
  DEF Next, Progress, RetryForever, Ended

\* The invariant.
LEMMA Invariance ==
  ASSUME "outOfBand" \notin Faults
  PROVE  Spec => []IInv
<1>1. Init => IInv
  BY InitType DEF IInv, LateInv, DeviceInv, Init, WorldInit, BackedUp, Deploying,
                  Deployed, Validated, Restoring
<1>2. IInv /\ [Next]_vars => IInv'
  BY TypeStep, MemoryStep, LateStep, DeviceStep DEF IInv
<1>3. QED
  BY <1>1, <1>2, PTL DEF Spec

\* From the backup on the device holds the baseline or the baseline with the
\* whole change, also when SETs that timed out land at any later time.
THEOREM NeverThirdConfiguration ==
  ASSUME "outOfBand" \notin Faults
  PROVE  Spec => []NoThirdConfiguration
<1>1. IInv => NoThirdConfiguration
  <2> SUFFICES ASSUME IInv, backup # Absent
               PROVE  \/ running = backup
                      \/ plan # Absent /\ running = Intended
    BY DEF NoThirdConfiguration
  <2>1. pc \in BackedUp
    BY DEF IInv, MemoryInv
  <2>2. CASE pc \in Deploying
    BY <2>2 DEF IInv, MemoryInv, DeviceInv, Planned
  <2>3. CASE pc \notin Deploying
    BY <2>1, <2>3 DEF IInv, DeviceInv
  <2>4. QED
    BY <2>2, <2>3
<1>2. QED
  BY <1>1, Invariance, PTL

\* No configuration reaches the device but one rendered from an intent that
\* passed the hygiene checks.
THEOREM DeployedIsHygienic ==
  ASSUME "outOfBand" \notin Faults
  PROVE  Spec => []OnlyHygienicIntentDeployed
<1>1. IInv => OnlyHygienicIntentDeployed
  BY DEF IInv, MemoryInv, DeviceInv, OnlyHygienicIntentDeployed, Planned
<1>2. QED
  BY <1>1, Invariance, PTL

\* A success is reported only for a device that holds the whole change and has
\* the intended admin states; it stays so when a SET lands late.
THEOREM SuccessIsTrue ==
  ASSUME "outOfBand" \notin Faults
  PROVE  Spec => []SuccessMeansIntended
<1>1. IInv => SuccessMeansIntended
  BY DEF IInv, DeviceInv, SuccessMeansIntended, Deployed, Validated
<1>2. QED
  BY <1>1, Invariance, PTL

-----------------------------------------------------------------------------
(* Without SETs that outlive their attempt.                                *)

\* No SET is under way between attempts, and a rollback is final.
LEMMA PromptStep ==
  ASSUME IInv, PromptInv, [Next]_vars,
         "outOfBand" \notin Faults, "lateSet" \notin Faults
  PROVE  PromptInv'
<1> USE DEF PromptInv
<1>1. CASE Backup
  BY <1>1 DEF Backup, Goto, world
<1>2. CASE BackupFails
  BY <1>2 DEF BackupFails, ReadFails, RetryOr, Goto, world
<1>3. CASE StoreBackup
  BY <1>3 DEF StoreBackup, Goto, world
<1>4. CASE FetchDeviceConfig
  BY <1>4 DEF FetchDeviceConfig, NextAfterFetch, Goto, world
<1>5. CASE Deploy
  BY <1>5 DEF Deploy, SetSucceeds, SetFails, RetryOr, Goto
<1>6. CASE ValidateBgp
  BY <1>6 DEF ValidateBgp, RetryOr, Goto, world
<1>7. CASE ValidateInterfaces
  BY <1>7 DEF ValidateInterfaces, RetryOr, Goto, world
<1>8. CASE Rollback
  <2>1. AfterSet(running, RollbackSet) = backup
    BY <1>8, SetEffect DEF Rollback, RollbackSet, Restore, Deploying, Restoring
  <2>2. QED
    BY <1>8, <2>1 DEF Rollback, SetSucceeds, SetFails, RetryOr, Goto
<1>9. CASE UpdateDeviceStatus
  BY <1>9 DEF UpdateDeviceStatus, StatusWritten, StatusStep, Goto
<1>10. CASE UpdateDeviceStatusUnacked
  BY <1>10 DEF UpdateDeviceStatusUnacked, StatusWrittenUnacked
<1>11. CASE UNCHANGED vars
  BY <1>11 DEF vars, world
<1>12. CASE Environment /\ UNCHANGED <<backup, plan>>
  BY <1>12 DEF Environment, LateSetLands, OutOfBandEdit, IntentEdit, StatusEdit
<1>13. QED
  BY <1>1, <1>2, <1>3, <1>4, <1>5, <1>6, <1>7, <1>8, <1>9, <1>10, <1>11, <1>12
  DEF Next, Progress, RetryForever, Ended

\* A run that starts, whatever the device holds and its status is.
LEMMA Started ==
  ASSUME WorldTypeOK', late' = {}, pc' = "backup", attempt' = 1, backup' = Absent,
         plan' = Absent
  PROVE  IInv' /\ PromptInv'
<1>1. TypeOK'
  BY ActivityAssumption DEF TypeOK, Labels
<1>2. QED
  BY <1>1 DEF IInv, MemoryInv, LateInv, DeviceInv, PromptInv, BackedUp, Planned, Deploying,
              Deployed, Validated, Restoring

\* The invariant of a device that is changed by this run alone and at once.
LEMMA PromptInvariance ==
  ASSUME "outOfBand" \notin Faults, "lateSet" \notin Faults
  PROVE  Spec => [](IInv /\ PromptInv)
<1>1. Init => PromptInv
  BY DEF Init, WorldInit, PromptInv
<1>2. IInv /\ PromptInv /\ [Next]_vars => PromptInv'
  BY PromptStep
<1>3. QED
  BY <1>1, <1>2, Invariance, PTL DEF Spec

\* A run that marks or reports a rollback has put the device back to exactly
\* the configuration backed up before the change.
THEOREM RollbackIsExact ==
  ASSUME "outOfBand" \notin Faults, "lateSet" \notin Faults
  PROVE  Spec => []RolledBackToBaseline
<1>1. PromptInv => RolledBackToBaseline
  BY DEF PromptInv, RolledBackToBaseline
<1>2. QED
  BY <1>1, PromptInvariance, PTL

-----------------------------------------------------------------------------
(* The workflow implements the transaction.                                *)

\* The phase of the transaction at each label, before and after a step.
LEMMA PhaseAt ==
  /\ Phase = PhaseOf(pc) /\ Phase' = PhaseOf(pc')
  /\ \A label \in {"deploy", "validate_bgp", "validate_interfaces"} :
       PhaseOf(label) = "changing"
  /\ \A label \in {"mark_active", "success"} : PhaseOf(label) = "changed"
  /\ PhaseOf("rollback") = "restoring"
  /\ \A label \in {"mark_rolled_back", "rolled_back"} : PhaseOf(label) = "restored"
  /\ PhaseOf("rollback_failed") = "unresolved"
  /\ \A label : label \notin Deploying => PhaseOf(label) = "untouched"
BY DEF Phase, PhaseOf, Deploying, Deployed, Validated, Restoring

\* A step that leaves the label, the device and what was read alone is a
\* stutter of the transaction.
LEMMA Stutter ==
  ASSUME UNCHANGED <<running, pc, backup, plan>>
  PROVE  UNCHANGED Transaction!vars
BY DEF Transaction!vars, Phase, Began, Intended

\* Until the deployment the transaction has not begun: nothing of it changes.
LEMMA UntouchedStep ==
  ASSUME pc \notin Deploying, pc' \notin Deploying, running' = running
  PROVE  UNCHANGED Transaction!vars
<1>1. Phase = "untouched" /\ Phase' = "untouched"
  BY PhaseAt
<1>2. QED
  BY <1>1 DEF Transaction!vars, Began

\* The base and the target of a transaction under way are the backup and the
\* configuration with the change, which do not change any more.
LEMMA Fixed ==
  ASSUME pc \in Deploying, pc' \in Deploying, UNCHANGED <<backup, plan>>
  PROVE  /\ (IF Began THEN backup ELSE Absent) = backup
         /\ (IF Began THEN Intended ELSE Absent) = Intended
         /\ (IF Began THEN backup ELSE Absent)' = backup
         /\ (IF Began THEN Intended ELSE Absent)' = Intended
BY PhaseAt DEF Began, Intended, Deploying, Deployed, Validated, Restoring

\* Every step of the workflow is a step of the transaction or a stutter.
LEMMA TransactionStep ==
  ASSUME IInv, PromptInv, [Next]_vars, "outOfBand" \notin Faults
  PROVE  [Transaction!Next]_(Transaction!vars)
<1> USE DEF IInv
<1>0. /\ Deploying = {"deploy", "rollback", "rollback_failed",
                      "mark_rolled_back", "rolled_back", "mark_active", "success",
                      "validate_bgp", "validate_interfaces"}
      /\ Deployed = {"mark_active", "success", "validate_bgp", "validate_interfaces"}
      /\ Validated = {"mark_active", "success"}
      /\ "fetch" \in BackedUp
  BY DEF Deploying, Deployed, Validated, Restoring, BackedUp, Labels, Unlimited
<1>1. CASE Backup
  BY <1>0, <1>1, UntouchedStep DEF Backup, Goto, world
<1>2. CASE BackupFails
  BY <1>0, <1>2, UntouchedStep DEF BackupFails, ReadFails, RetryOr, Goto, world
<1>3. CASE StoreBackup
  BY <1>0, <1>3, UntouchedStep DEF StoreBackup, Goto, world
<1>4. CASE FetchDeviceConfig
  <2>1. CASE pc' # "deploy"
    BY <1>0, <1>4, <2>1, UntouchedStep
    DEF FetchDeviceConfig, NextAfterFetch, Goto, world
  <2>2. CASE pc' = "deploy"
    <3>1. Phase = "untouched" /\ Phase' = "changing"
      BY <1>0, <1>4, <2>2, PhaseAt DEF FetchDeviceConfig
    <3>2. running = backup /\ backup \in Config /\ intent \in Intent
      BY <1>0, <1>4 DEF FetchDeviceConfig, DeviceInv, TypeOK, WorldTypeOK
    <3>3. Intended' \in Config
      BY <1>4, <3>2, RenderType, MergeType DEF FetchDeviceConfig, Intended
    <3>4. Transaction!Begin
      BY <1>4, <3>1, <3>2, <3>3 DEF FetchDeviceConfig, Transaction!Begin, Began, world
    <3>5. QED
      BY <3>4 DEF Transaction!Next
  <2>3. QED
    BY <2>1, <2>2
<1>5. CASE Deploy
  <2>1. pc \in Deploying /\ Phase = "changing"
    BY <1>0, <1>5, PhaseAt DEF Deploy
  <2>2. AfterSet(running, Update(Render(plan))) = Intended
    BY <2>1, SetEffect DEF Update
  <2>3. /\ pc' \in {"deploy", "validate_bgp", "rollback"}
        /\ running' \in {running, Intended}
        /\ pc' = "validate_bgp" => running' = Intended
        /\ UNCHANGED <<backup, plan>>
    BY <1>5, <2>2 DEF Deploy, SetSucceeds, SetFails, RetryOr, Goto
  <2>4. CASE pc' = "rollback"
    BY <1>0, <2>1, <2>3, <2>4, Fixed, PhaseAt
    DEF Transaction!Next, Transaction!TakeBack
  <2>5. CASE pc' # "rollback" /\ running' = Intended
    BY <1>0, <2>1, <2>3, <2>5, Fixed, PhaseAt DEF Transaction!Next, Transaction!Push
  <2>6. CASE pc' # "rollback" /\ running' = running
    BY <1>0, <2>1, <2>3, <2>6, Fixed, PhaseAt DEF Transaction!vars
  <2>7. QED
    BY <2>3, <2>4, <2>5, <2>6
<1>6. CASE ValidateBgp \/ ValidateInterfaces
  <2>1. pc \in Deploying /\ Phase = "changing" /\ running = Intended
    BY <1>0, <1>6, PhaseAt DEF ValidateBgp, ValidateInterfaces, DeviceInv
  <2>2. /\ pc' \in {"validate_bgp", "validate_interfaces", "mark_active", "rollback"}
        /\ UNCHANGED <<running, backup, plan>>
    BY <1>6 DEF ValidateBgp, ValidateInterfaces, RetryOr, Goto, world
  <2>3. CASE pc' = "rollback"
    BY <1>0, <2>1, <2>2, <2>3, Fixed, PhaseAt
    DEF Transaction!Next, Transaction!TakeBack
  <2>4. CASE pc' = "mark_active"
    BY <1>0, <2>1, <2>2, <2>4, Fixed, PhaseAt DEF Transaction!Next, Transaction!Commit
  <2>5. CASE pc' \in {"validate_bgp", "validate_interfaces"}
    BY <1>0, <2>1, <2>2, <2>5, Fixed, PhaseAt DEF Transaction!vars
  <2>6. QED
    BY <2>2, <2>3, <2>4, <2>5
<1>7. CASE Rollback
  <2>1. pc \in Deploying /\ Phase = "restoring"
    BY <1>0, <1>7, PhaseAt DEF Rollback
  <2>2. AfterSet(running, RollbackSet) = backup
    BY <2>1, SetEffect DEF RollbackSet, Restore
  <2>3. /\ pc' \in {"rollback", "mark_rolled_back", "rollback_failed"}
        /\ running' \in {running, backup}
        /\ pc' = "mark_rolled_back" => running' = backup
        /\ UNCHANGED <<backup, plan>>
    BY <1>7, <2>2 DEF Rollback, SetSucceeds, SetFails, RetryOr, Goto
  <2>4. CASE pc' = "rollback_failed"
    BY <1>0, <2>1, <2>3, <2>4, Fixed, PhaseAt DEF Transaction!Next, Transaction!Abandon
  <2>5. CASE pc' # "rollback_failed" /\ running' = backup
    BY <1>0, <2>1, <2>3, <2>5, Fixed, PhaseAt DEF Transaction!Next, Transaction!Undo
  <2>6. CASE pc' = "rollback" /\ running' = running
    BY <1>0, <2>1, <2>3, <2>6, Fixed, PhaseAt DEF Transaction!vars
  <2>7. QED
    BY <2>3, <2>4, <2>5, <2>6
<1>8. CASE UpdateDeviceStatus
  <2>1. UNCHANGED <<running, backup, plan>>
    BY <1>8 DEF UpdateDeviceStatus, StatusWritten
  <2>2. CASE pc = "mark_unhygienic"
    BY <1>0, <1>8, <2>1, <2>2, UntouchedStep
    DEF UpdateDeviceStatus, StatusWritten, StatusStep, Goto
  <2>3. CASE pc \in {"mark_rolled_back", "mark_active"}
    <3>1. /\ pc = "mark_rolled_back" => pc' = "rolled_back"
          /\ pc = "mark_active" => pc' = "success"
      BY <1>8, <2>3 DEF UpdateDeviceStatus, StatusWritten, StatusStep, Goto
    <3>2. QED
      BY <1>0, <2>1, <2>3, <3>1, Fixed, PhaseAt DEF Transaction!vars
  <2>4. QED
    BY <1>8, <2>2, <2>3 DEF UpdateDeviceStatus, StatusStep
<1>9. CASE UpdateDeviceStatusUnacked
  BY <1>9, Stutter DEF UpdateDeviceStatusUnacked, StatusWrittenUnacked
<1>10. CASE UNCHANGED vars
  BY <1>10, Stutter DEF vars, world
<1>11. CASE Environment /\ UNCHANGED <<backup, plan>>
  BY <1>11, Stutter
  DEF Environment, LateSetLands, OutOfBandEdit, IntentEdit, StatusEdit, PromptInv
<1>12. QED
  BY <1>1, <1>2, <1>3, <1>4, <1>5, <1>6, <1>7, <1>8, <1>9, <1>10, <1>11
  DEF Next, Progress, RetryForever, Ended

\* The workflow implements the transaction: through every failure, retry and
\* lost acknowledgement the device goes from the baseline to the baseline with
\* the change and to nothing else, and a rollback restores the baseline.
THEOREM ImplementsTransaction ==
  ASSUME "outOfBand" \notin Faults, "lateSet" \notin Faults
  PROVE  Spec => IsTransaction
<1>1. Init => Transaction!Init
  <2> SUFFICES ASSUME Init PROVE Transaction!Init
    OBVIOUS
  <2>1. Phase = "untouched" /\ running \in Config
    BY PhaseAt, InputTypes DEF Init, WorldInit, Deploying, Deployed, Validated, Restoring
  <2>2. QED
    BY <2>1 DEF Transaction!Init, Began
<1>2. IInv /\ PromptInv /\ [Next]_vars => [Transaction!Next]_(Transaction!vars)
  BY TransactionStep
<1>3. QED
  BY <1>1, <1>2, PromptInvariance, PTL DEF Spec, IsTransaction, Transaction!Spec
=============================================================================
