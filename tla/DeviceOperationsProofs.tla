----------------------- MODULE DeviceOperationsProofs -----------------------
(***************************************************************************)
(* The operations of one device, run one at a time, keep each other's      *)
(* baseline: composed from the proofs about each workflow.  NCP and DRP    *)
(* are the two workflows with their invariants; what is proved about each  *)
(* for an environment that only edits the source of truth holds here as    *)
(* long as the other is not running.                                       *)
(***************************************************************************)
EXTENDS DeviceOperations, TLAPS

NCP == INSTANCE NetworkChangeProofs
       WITH pc <- pcN, attempt <- attemptN, backup <- backupN, plan <- planN

DRP == INSTANCE DriftRemediationProofs
       WITH pc <- pcD, attempt <- attemptD, plan <- planD, seen <- seenD,
            decision <- decisionD, backup <- backupD, audit <- auditD

\* The device between two runs.
DeviceInv ==
  /\ late = {}
  /\ running \in Config
  /\ intent \in Intent
  /\ status \in NC!Statuses

\* One run at most is open, and it finds the device as it would alone.
OpsInv ==
  /\ open \in {{}, {"network"}, {"drift"}}
  /\ DeviceInv
  /\ "network" \in open => NCP!IInv /\ NCP!PromptInv
  /\ "drift" \in open => DRP!IInv /\ pcD \notin DR!Closed

-----------------------------------------------------------------------------
(* The workflows with their proofs are the workflows.                      *)

\* The values of the device, and the assumptions.
LEMMA SameConstants ==
  /\ NCP!Config = Config /\ NCP!Intent = Intent
  /\ NCP!FaultKinds = NC!FaultKinds /\ NCP!Statuses = NC!Statuses
  /\ DRP!Config = Config /\ DRP!Intent = Intent
  /\ DRP!FaultKinds = NC!FaultKinds /\ DRP!Statuses = NC!Statuses
BY DEF NCP!Config, NCP!Intent, NCP!Interface, NCP!Leaves, NCP!Values, NCP!FaultKinds,
       NCP!Statuses, DRP!Config, DRP!Intent, DRP!Interface, DRP!Leaves, DRP!Values,
       DRP!FaultKinds, DRP!Statuses, NC!FaultKinds, NC!Statuses, Config, Intent,
       Interface, Leaves, Values

\* A step of the network change.
LEMMA SameNetworkStep ==
  ASSUME NC!Progress \/ NC!UpdateDeviceStatusUnacked
  PROVE  NCP!Next
<1> USE DEF NC!Goto, NCP!Goto, NC!RetryOr, NCP!RetryOr, NC!world, NCP!world
<1>1. NC!Backup => NCP!Backup
  BY DEF NC!Backup, NCP!Backup
<1>2. NC!BackupFails => NCP!BackupFails
  BY DEF NC!BackupFails, NCP!BackupFails, NC!ReadFails, NCP!ReadFails
<1>3. NC!StoreBackup => NCP!StoreBackup
  BY DEF NC!StoreBackup, NCP!StoreBackup
<1>4. NC!FetchDeviceConfig => NCP!FetchDeviceConfig
  BY DEF NC!FetchDeviceConfig, NCP!FetchDeviceConfig, NC!NextAfterFetch,
         NCP!NextAfterFetch, NC!Fetchable, NCP!Fetchable, NC!Renders, NCP!Renders,
         NC!PassesHygiene, NCP!PassesHygiene
<1>5. NC!Deploy => NCP!Deploy
  BY DEF NC!Deploy, NCP!Deploy, NC!SetSucceeds, NCP!SetSucceeds, NC!SetFails,
         NCP!SetFails, NC!Update, NCP!Update, NC!AfterSet, NCP!AfterSet, NC!Merge,
         NCP!Merge, NC!Render, NCP!Render, NC!Leaves, NCP!Leaves, NC!AdminState,
         NCP!AdminState
<1>6. NC!ValidateBgp => NCP!ValidateBgp
  BY DEF NC!ValidateBgp, NCP!ValidateBgp
<1>7. NC!ValidateInterfaces => NCP!ValidateInterfaces
  BY DEF NC!ValidateInterfaces, NCP!ValidateInterfaces, NC!AdminStatesMatch,
         NCP!AdminStatesMatch, NC!AdminState, NCP!AdminState
<1>8. NC!Rollback => NCP!Rollback
  BY DEF NC!Rollback, NCP!Rollback, NC!SetSucceeds, NCP!SetSucceeds, NC!SetFails,
         NCP!SetFails, NC!RollbackSet, NCP!RollbackSet, NC!Restore, NCP!Restore,
         NC!AfterSet, NCP!AfterSet, NC!Merge, NCP!Merge, NC!Leaves, NCP!Leaves
<1>9. NC!UpdateDeviceStatus => NCP!UpdateDeviceStatus
  BY DEF NC!UpdateDeviceStatus, NCP!UpdateDeviceStatus, NC!StatusStep, NCP!StatusStep,
         NC!StatusWritten, NCP!StatusWritten
<1>10. NC!UpdateDeviceStatusUnacked => NCP!UpdateDeviceStatusUnacked
  BY DEF NC!UpdateDeviceStatusUnacked, NCP!UpdateDeviceStatusUnacked, NC!StatusStep,
         NCP!StatusStep, NC!StatusWrittenUnacked, NCP!StatusWrittenUnacked
<1>11. QED
  BY <1>1, <1>2, <1>3, <1>4, <1>5, <1>6, <1>7, <1>8, <1>9, <1>10
  DEF NC!Progress, NCP!Progress, NCP!Next

\* A step of the drift remediation.
LEMMA SameDriftStep ==
  ASSUME DR!Progress \/ DR!FetchInterfacesFails \/ DR!UpdateDeviceStatusUnacked
  PROVE  DRP!Next
<1> USE DEF DR!Goto, DRP!Goto, DR!RetryOr, DRP!RetryOr, DR!world, DRP!world,
            DR!local, DRP!local
<1>1. DR!FetchDevice => DRP!FetchDevice
  BY DEF DR!FetchDevice, DRP!FetchDevice, DR!Fetchable, DRP!Fetchable
<1>2. DR!FetchInterfaces => DRP!FetchInterfaces
  BY DEF DR!FetchInterfaces, DRP!FetchInterfaces, DR!Fetchable, DRP!Fetchable
<1>3. DR!FetchInterfacesFails => DRP!FetchInterfacesFails
  BY DEF DR!FetchInterfacesFails, DRP!FetchInterfacesFails
<1>4. DR!RenderIntendedConfig => DRP!RenderIntendedConfig
  BY DEF DR!RenderIntendedConfig, DRP!RenderIntendedConfig, DR!Renders, DRP!Renders
<1>5. DR!Decide(running) = DRP!Decide(running)
  BY DEF DR!Decide, DRP!Decide, DR!DecideDriftAction, DRP!DecideDriftAction,
         DR!ClassifyDrift, DRP!ClassifyDrift, DR!IsCritical, DRP!IsCritical,
         DR!DriftedSections, DRP!DriftedSections, DR!HasSection, DRP!HasSection,
         DR!HasAdminStateKey, DRP!HasAdminStateKey, DR!LeavesOf, DRP!LeavesOf,
         DR!Sections, DRP!Sections, DR!Render, DRP!Render, DR!Leaves, DRP!Leaves,
         DR!AdminState, DRP!AdminState
<1>6. DR!FetchRunningConfig => DRP!FetchRunningConfig
  BY <1>5 DEF DR!FetchRunningConfig, DRP!FetchRunningConfig
<1>7. DR!FetchRunningConfigFails => DRP!FetchRunningConfigFails
  BY DEF DR!FetchRunningConfigFails, DRP!FetchRunningConfigFails, DR!ReadFails,
         DRP!ReadFails
<1>8. DR!LogAuditEvent => DRP!LogAuditEvent
  BY DEF DR!LogAuditEvent, DRP!LogAuditEvent, DR!AuditStep, DRP!AuditStep
<1>9. DR!Backup => DRP!Backup
  BY DEF DR!Backup, DRP!Backup
<1>10. DR!StoreBackup => DRP!StoreBackup
  BY DEF DR!StoreBackup, DRP!StoreBackup
<1>11. DR!BackupFails => DRP!BackupFails
  BY DEF DR!BackupFails, DRP!BackupFails, DR!ReadFails, DRP!ReadFails
<1>12. DR!Deploy => DRP!Deploy
  BY DEF DR!Deploy, DRP!Deploy, DR!SetSucceeds, DRP!SetSucceeds, DR!SetFails,
         DRP!SetFails, DR!Update, DRP!Update, DR!AfterSet, DRP!AfterSet, DR!Merge,
         DRP!Merge, DR!Render, DRP!Render, DR!Leaves, DRP!Leaves, DR!AdminState,
         DRP!AdminState
<1>13. DR!ValidateBgp => DRP!ValidateBgp
  BY DEF DR!ValidateBgp, DRP!ValidateBgp
<1>14. DR!ValidateInterfaces => DRP!ValidateInterfaces
  BY DEF DR!ValidateInterfaces, DRP!ValidateInterfaces, DR!AdminStatesMatch,
         DRP!AdminStatesMatch, DR!AdminState, DRP!AdminState
<1>15. DR!UpdateDeviceStatus => DRP!UpdateDeviceStatus
  BY DEF DR!UpdateDeviceStatus, DRP!UpdateDeviceStatus, DR!StatusStep, DRP!StatusStep,
         DR!StatusWritten, DRP!StatusWritten
<1>16. DR!UpdateDeviceStatusUnacked => DRP!UpdateDeviceStatusUnacked
  BY DEF DR!UpdateDeviceStatusUnacked, DRP!UpdateDeviceStatusUnacked, DR!StatusStep,
         DRP!StatusStep, DR!StatusWrittenUnacked, DRP!StatusWrittenUnacked
<1>17. QED
  BY <1>1, <1>2, <1>3, <1>4, <1>6, <1>7, <1>8, <1>9, <1>10, <1>11, <1>12, <1>13, <1>14,
     <1>15, <1>16
  DEF DR!Progress, DRP!Progress, DRP!Next

\* A step of the environment.
LEMMA SameEnvironment ==
  ASSUME NC!Environment
  PROVE  /\ UNCHANGED network => NCP!Next
         /\ UNCHANGED drift => DRP!Next
<1>1. NC!DeviceConfigs = NCP!DeviceConfigs /\ NC!DeviceConfigs = DRP!DeviceConfigs
  BY DEF NC!DeviceConfigs, NCP!DeviceConfigs, DRP!DeviceConfigs, NC!Leaves, NCP!Leaves,
         DRP!Leaves, NC!Values, NCP!Values, DRP!Values
<1>2. NC!Intents = NCP!Intents /\ NC!Intents = DRP!Intents
  BY DEF NC!Intents, NCP!Intents, DRP!Intents, NC!Intent, NCP!Intent, DRP!Intent,
         NC!Interface, NCP!Interface, DRP!Interface
<1>3. \A set : /\ NC!AfterSet(running, set) = NCP!AfterSet(running, set)
               /\ NC!AfterSet(running, set) = DRP!AfterSet(running, set)
  BY DEF NC!AfterSet, NCP!AfterSet, DRP!AfterSet, NC!Merge, NCP!Merge, DRP!Merge,
         NC!Leaves, NCP!Leaves, DRP!Leaves
<1>4. NC!LateSetLands =>
        /\ UNCHANGED network => NCP!LateSetLands
        /\ UNCHANGED drift => DRP!LateSetLands
  BY <1>3 DEF NC!LateSetLands, NCP!LateSetLands, DRP!LateSetLands, network, drift
<1>5. NC!OutOfBandEdit =>
        /\ UNCHANGED network => NCP!OutOfBandEdit
        /\ UNCHANGED drift => DRP!OutOfBandEdit
  BY <1>1 DEF NC!OutOfBandEdit, NCP!OutOfBandEdit, DRP!OutOfBandEdit, network, drift
<1>6. NC!IntentEdit =>
        /\ UNCHANGED network => NCP!IntentEdit
        /\ UNCHANGED drift => DRP!IntentEdit
  BY <1>2 DEF NC!IntentEdit, NCP!IntentEdit, DRP!IntentEdit, network, drift
<1>7. NC!StatusEdit =>
        /\ UNCHANGED network => NCP!StatusEdit
        /\ UNCHANGED drift => DRP!StatusEdit
  BY SameConstants DEF NC!StatusEdit, NCP!StatusEdit, DRP!StatusEdit, network, drift
<1>8. QED
  BY <1>4, <1>5, <1>6, <1>7
  DEF NC!Environment, NCP!Environment, DRP!Environment, NCP!Next, DRP!Next, DRP!local,
      network, drift

-----------------------------------------------------------------------------
(* Each workflow keeps its own invariant.                                  *)

LEMMA NetworkKept ==
  ASSUME NCP!IInv, NCP!PromptInv, [NCP!Next]_(NCP!vars),
         "outOfBand" \notin Faults, "lateSet" \notin Faults
  PROVE  NCP!IInv' /\ NCP!PromptInv' /\ DeviceInv'
<1> USE OperationsAssumption, SameConstants, ConfigAssumption, SentinelAssumption
<1>1. NCP!TypeOK /\ NCP!MemoryInv
  BY DEF NCP!IInv
<1>2. NCP!TypeOK'
  BY <1>1, NCP!TypeStep
<1>3. NCP!MemoryInv'
  BY <1>1, NCP!MemoryStep
<1>4. NCP!LateInv'
  BY NCP!LateStep
<1>5. NCP!DeviceInv'
  BY NCP!DeviceStep
<1>6. NCP!PromptInv'
  BY NCP!PromptStep
<1>7. DeviceInv'
  BY <1>2, <1>6 DEF DeviceInv, NCP!TypeOK, NCP!WorldTypeOK, NCP!PromptInv
<1>8. QED
  BY <1>2, <1>3, <1>4, <1>5, <1>6, <1>7 DEF NCP!IInv

LEMMA DriftKept ==
  ASSUME DRP!IInv, late = {}, [DRP!Next]_(DRP!vars),
         "outOfBand" \notin Faults, "lateSet" \notin Faults
  PROVE  DRP!IInv' /\ DeviceInv'
<1> USE OperationsAssumption, SameConstants, ConfigAssumption, SentinelAssumption
<1>1. DRP!TypeOK /\ DRP!MemoryInv
  BY DEF DRP!IInv
<1>2. DRP!TypeOK'
  BY <1>1, DRP!TypeStep
<1>3. DRP!MemoryInv'
  BY <1>1, DRP!MemoryStep
<1>4. DRP!AuditInv'
  BY DRP!TrailStep DEF DRP!IInv
<1>5. DRP!LateInv'
  BY DRP!LateStep
<1>6. DRP!DeviceInv'
  BY DRP!DeviceStep
<1>7. late' = {}
  BY DRP!NothingLateStep
<1>8. DeviceInv'
  BY <1>2, <1>7 DEF DeviceInv, DRP!TypeOK, DRP!WorldTypeOK
<1>9. QED
  BY <1>2, <1>3, <1>4, <1>5, <1>6, <1>8 DEF DRP!IInv

-----------------------------------------------------------------------------
(* The invariant.                                                          *)

LEMMA OpsInit ==
  ASSUME Init
  PROVE  OpsInv
<1>1. NC!DeviceConfigs \subseteq Config
  BY DEF NC!DeviceConfigs, Config, NC!Leaves, Leaves, NC!Values, Values
<1>2. NC!Intents \subseteq Intent
  BY DEF NC!Intents, NC!Intent, NC!Interface, Intent, Interface
<1>3. QED
  BY <1>1, <1>2 DEF Init, NC!Init, NC!WorldInit, OpsInv, DeviceInv

\* A run starts on the device as the last one left it.
LEMMA StartStep ==
  ASSUME OpsInv, StartNetworkChange \/ StartDriftRemediation
  PROVE  OpsInv'
<1> USE OperationsAssumption, SameConstants, ConfigAssumption, SentinelAssumption
<1>1. DeviceInv' /\ open = {}
  BY DEF OpsInv, DeviceInv, StartNetworkChange, StartDriftRemediation, Start, MayStart,
         world
<1>2. CASE StartNetworkChange
  <2>1. NCP!WorldTypeOK'
    BY <1>1 DEF DeviceInv, NCP!WorldTypeOK
  <2>2. late' = {}
    BY <1>1 DEF DeviceInv
  <2>3. NCP!IInv' /\ NCP!PromptInv'
    BY <1>2, <2>1, <2>2, NCP!Started DEF StartNetworkChange
  <2>4. open' = {"network"}
    BY <1>1, <1>2 DEF StartNetworkChange, Start
  <2>5. QED
    BY <1>1, <2>3, <2>4 DEF OpsInv
<1>3. CASE StartDriftRemediation
  <2>1. DRP!WorldTypeOK'
    BY <1>1 DEF DeviceInv, DRP!WorldTypeOK
  <2>2. late' = {}
    BY <1>1 DEF DeviceInv
  <2>3. DRP!IInv'
    BY <1>3, <2>1, <2>2, DRP!Started DEF StartDriftRemediation
  <2>4. open' = {"drift"} /\ pcD' \notin DR!Closed
    BY <1>1, <1>3 DEF StartDriftRemediation, Start, DR!Closed, DR!Failed
  <2>5. QED
    BY <1>1, <2>3, <2>4 DEF OpsInv
<1>4. QED
  BY <1>2, <1>3

\* Every step keeps the invariant: the run that is open is the only one that
\* changes the device.
LEMMA OpsStep ==
  ASSUME OpsInv, [Next]_vars, "outOfBand" \notin Faults, "lateSet" \notin Faults
  PROVE  OpsInv'
<1>1. CASE StartNetworkChange \/ StartDriftRemediation
  BY <1>1, StartStep
<1>2. CASE NetworkChangeStep
  <2>1. open = {"network"} /\ open' \in {{}, {"network"}}
    BY <1>2 DEF NetworkChangeStep, OpsInv
  <2>2. NCP!Next
    BY <1>2, SameNetworkStep DEF NetworkChangeStep
  <2>3. NCP!IInv' /\ NCP!PromptInv' /\ DeviceInv'
    BY <2>1, <2>2, NetworkKept DEF OpsInv
  <2>4. QED
    BY <2>1, <2>3 DEF OpsInv
<1>3. CASE DriftRemediationStep
  <2>1. open = {"drift"} /\ open' \in {{}, {"drift"}}
    BY <1>3 DEF DriftRemediationStep, OpsInv
  <2>2. DRP!Next
    BY <1>3, SameDriftStep DEF DriftRemediationStep
  <2>3. DRP!IInv' /\ DeviceInv'
    BY <2>1, <2>2, DriftKept DEF OpsInv, DeviceInv
  <2>4. "drift" \in open' => pcD' \notin DR!Closed
    BY <1>3 DEF DriftRemediationStep
  <2>5. (DR!Closed)' = DR!Closed
    BY DEF DR!Closed, DR!Failed
  <2>6. QED
    BY <2>1, <2>3, <2>4, <2>5 DEF OpsInv
<1>4. CASE EnvironmentStep
  <2>1. NC!Environment /\ UNCHANGED <<open, network, drift>>
    BY <1>4 DEF EnvironmentStep
  <2>2. CASE open = {}
    <3>1. NC!Intents \subseteq Intent
      BY DEF NC!Intents, NC!Intent, NC!Interface, Intent, Interface
    <3>2. DeviceInv'
      BY <2>1, <3>1
      DEF OpsInv, DeviceInv, NC!Environment, NC!LateSetLands, NC!OutOfBandEdit,
          NC!IntentEdit, NC!StatusEdit, NC!Statuses
    <3>3. QED
      BY <2>1, <2>2, <3>2 DEF OpsInv
  <2>3. CASE open = {"network"}
    <3>1. NCP!IInv' /\ NCP!PromptInv' /\ DeviceInv'
      BY <2>1, <2>3, SameEnvironment, NetworkKept DEF OpsInv
    <3>2. QED
      BY <2>1, <2>3, <3>1 DEF OpsInv
  <2>4. CASE open = {"drift"}
    <3>1. DRP!IInv' /\ DeviceInv'
      BY <2>1, <2>4, SameEnvironment, DriftKept DEF OpsInv, DeviceInv
    <3>2. pcD' = pcD /\ open' = open
      BY <2>1 DEF drift
    <3>3. QED
      BY <2>4, <3>1, <3>2 DEF OpsInv, DR!Closed, DR!Failed
  <2>5. QED
    BY <2>2, <2>3, <2>4 DEF OpsInv
<1>5. CASE UNCHANGED vars
  <2>1. UNCHANGED <<running, late, intent, status, open, pcN, attemptN, backupN, planN,
                    pcD, attemptD, planD, seenD, decisionD, backupD, auditD>>
    BY <1>5 DEF vars, world, network, drift
  <2>2. UNCHANGED NCP!vars /\ UNCHANGED DRP!vars
    BY <2>1 DEF NCP!vars, NCP!world, DRP!vars, DRP!world, DRP!local
  <2>3. DeviceInv'
    BY <2>1 DEF OpsInv, DeviceInv, NC!Statuses
  <2>4. open = {"network"} => NCP!IInv' /\ NCP!PromptInv'
    BY <2>2, NetworkKept DEF OpsInv
  <2>5. open = {"drift"} => DRP!IInv' /\ pcD' \notin DR!Closed
    BY <2>1, <2>2, DriftKept DEF OpsInv, DeviceInv
  <2>6. QED
    BY <2>1, <2>3, <2>4, <2>5 DEF OpsInv, DR!Closed, DR!Failed
<1>6. QED
  BY <1>1, <1>2, <1>3, <1>4, <1>5 DEF Next, Idle

LEMMA Invariance ==
  ASSUME "outOfBand" \notin Faults, "lateSet" \notin Faults
  PROVE  Spec => []OpsInv
<1>1. Init => OpsInv
  BY OpsInit
<1>2. OpsInv /\ [Next]_vars => OpsInv'
  BY OpsStep
<1>3. QED
  BY <1>1, <1>2, PTL DEF Spec

-----------------------------------------------------------------------------
(* What the mutex is for.                                                  *)

\* What the two workflows merge is what the invariants speak of.
LEMMA SameIntended ==
  /\ NC!Intended = NCP!Intended
  /\ DR!Intended = DRP!Intended
  /\ Merge(running, Render(planD)) = DRP!Merge(running, DRP!Render(planD))
  /\ NC!AdminStatesMatch(running, planN) = NCP!AdminStatesMatch(running, planN)
BY DEF NC!Intended, NCP!Intended, DR!Intended, DRP!Intended, Merge, NC!Merge, NCP!Merge,
       DR!Merge, DRP!Merge, Render, NC!Render, NCP!Render, DR!Render, DRP!Render, Leaves,
       NC!Leaves, NCP!Leaves, DR!Leaves, DRP!Leaves, AdminState, NC!AdminState,
       NCP!AdminState, DR!AdminState, DRP!AdminState, NC!AdminStatesMatch,
       NCP!AdminStatesMatch

\* No other run changes the device under one that has taken its backup: over any
\* number of runs of the two workflows, a network change finds its baseline or
\* its whole change and rolls back to that baseline, and a remediation never
\* works on a change that is half applied.
THEOREM BaselinesKept ==
  ASSUME "outOfBand" \notin Faults, "lateSet" \notin Faults
  PROVE  Spec => []BaselineKept
<1>1. OpsInv => BaselineKept
  <2> SUFFICES ASSUME OpsInv PROVE BaselineKept
    OBVIOUS
  <2>1. ASSUME "network" \in open
        PROVE  NC!NoThirdConfiguration /\ NC!RolledBackToBaseline
    <3> USE DEF NCP!BackedUp, NCP!Deploying, NCP!Deployed, NCP!Validated, NCP!Restoring,
                NCP!Planned
    <3>1. NCP!IInv /\ NCP!PromptInv
      BY <2>1 DEF OpsInv
    <3>2. NC!RolledBackToBaseline
      BY <3>1 DEF NCP!PromptInv, NC!RolledBackToBaseline
    <3>3. ASSUME backupN # Absent
          PROVE  running = backupN \/ (planN # Absent /\ running = NC!Intended)
      <4>1. pcN \in NCP!BackedUp
        BY <3>1, <3>3 DEF NCP!IInv, NCP!MemoryInv
      <4>2. CASE pcN \in NCP!Deploying
        BY <3>1, <4>2, SameIntended DEF NCP!IInv, NCP!MemoryInv, NCP!DeviceInv
      <4>3. CASE pcN \notin NCP!Deploying
        BY <3>1, <4>1, <4>3 DEF NCP!IInv, NCP!DeviceInv
      <4>4. QED
        BY <4>2, <4>3
    <3>4. QED
      BY <3>2, <3>3 DEF NC!NoThirdConfiguration
  <2>2. ASSUME "drift" \in open, backupD # Absent
        PROVE  running \in {backupD, DR!Intended}
    <3>1. DRP!IInv /\ pcD \notin DR!Closed
      BY <2>2 DEF OpsInv
    <3>2. pcD \in DRP!BackedUp
      BY <2>2, <3>1 DEF DRP!IInv, DRP!MemoryInv, DR!Closed, DR!Failed
    <3>3. QED
      BY <3>1, <3>2, SameIntended DEF DRP!IInv, DRP!DeviceInv, DRP!BackedUp
  <2>3. QED
    BY <2>1, <2>2 DEF BaselineKept
<1>2. QED
  BY <1>1, Invariance, PTL

\* What a run reports, or marks "active", is true of the device at that time,
\* whatever ran before it.
THEOREM ReportsAreTrue ==
  ASSUME "outOfBand" \notin Faults, "lateSet" \notin Faults
  PROVE  Spec => []ReportIsTrue
<1>1. OpsInv => ReportIsTrue
  <2> SUFFICES ASSUME OpsInv PROVE ReportIsTrue
    OBVIOUS
  <2>1. ASSUME "network" \in open PROVE NC!SuccessMeansIntended
    <3>1. NCP!DeviceInv
      BY <2>1 DEF OpsInv, NCP!IInv
    <3>2. QED
      BY <3>1, SameIntended
      DEF NCP!DeviceInv, NCP!Deployed, NCP!Validated, NC!SuccessMeansIntended
  <2>2. ASSUME "drift" \in open, pcD \in {"mark_active", "audit_remediated"}
        PROVE  running = Merge(running, Render(planD))
    <3>1. DRP!IInv /\ pcD \in DRP!Deployed
      BY <2>2 DEF OpsInv, DRP!Deployed
    <3>2. DRP!Merge(running, DRP!Render(planD)) = running
      BY <3>1, DRP!DeployedHasIntent, OperationsAssumption, SameConstants,
         ConfigAssumption, SentinelAssumption
    <3>3. QED
      BY <3>2, SameIntended
  <2>3. QED
    BY <2>1, <2>2 DEF ReportIsTrue
<1>2. QED
  BY <1>1, Invariance, PTL
=============================================================================
