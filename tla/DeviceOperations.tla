-------------------------- MODULE DeviceOperations --------------------------
(***************************************************************************)
(* A network change and a drift remediation of one device, started through *)
(* start_device_workflow: both run under the workflow ID of the device,    *)
(* and Temporal refuses a start while a run of that ID is open.  A run     *)
(* that has closed may be followed by another of either kind; a run that   *)
(* is stuck stays open.                                                    *)
(***************************************************************************)
EXTENDS DeviceConfig

CONSTANTS MaxAttempts, Faults,  \* as in DeviceActivities
          MaxStarts             \* bounds the runs started

VARIABLES running, late, intent, status,          \* the device and its SoT
          open, starts,                           \* Temporal: the open runs
          pcN, attemptN, backupN, planN,          \* NetworkChangeWorkflow
          pcD, attemptD, planD, seenD, decisionD, backupD, auditD

world == <<running, late, intent, status>>
network == <<pcN, attemptN, backupN, planN>>
drift == <<pcD, attemptD, planD, seenD, decisionD, backupD, auditD>>
vars == <<world, open, starts, network, drift>>

NC == INSTANCE NetworkChange
      WITH pc <- pcN, attempt <- attemptN, backup <- backupN, plan <- planN

DR == INSTANCE DriftRemediation
      WITH pc <- pcD, attempt <- attemptD, plan <- planD, seen <- seenD,
           decision <- decisionD, backup <- backupD, audit <- auditD

ASSUME OperationsAssumption ==
  /\ MaxAttempts \in Nat \ {0}
  /\ Faults \subseteq NC!FaultKinds
  /\ Absent \notin NC!Statuses
  /\ MaxStarts \in Nat

TypeOK ==
  /\ NC!TypeOK
  /\ DR!TypeOK
  /\ open \subseteq {"network", "drift"}
  /\ starts \in 0..MaxStarts

Init ==
  /\ NC!Init
  /\ DR!Init
  /\ open = {}
  /\ starts = 0

-----------------------------------------------------------------------------
(* id_conflict_policy=FAIL: a start while a run of the ID is open raises    *)
(* WorkflowAlreadyStartedError and changes nothing; id_reuse_policy lets a  *)
(* closed run be followed by a new one.                                     *)

\* Mutant of MayStart: a workflow ID for each kind of workflow.
MayStartPerKind(kind) == kind \notin open

MayStart(kind) == open = {}

Start(kind) ==
  /\ MayStart(kind)
  /\ kind \notin open
  /\ starts < MaxStarts
  /\ starts' = starts + 1
  /\ open' = open \cup {kind}

StartNetworkChange ==
  /\ Start("network")
  /\ pcN' = "backup" /\ attemptN' = 1
  /\ backupN' = Absent /\ planN' = Absent
  /\ UNCHANGED <<world, drift>>

StartDriftRemediation ==
  /\ Start("drift")
  /\ pcD' = "fetch_device" /\ attemptD' = 1
  /\ planD' = Absent /\ seenD' = Absent /\ decisionD' = Absent
  /\ backupD' = Absent /\ auditD' = {}
  /\ UNCHANGED <<world, network>>

\* The run ends with the step that completes it.
NetworkChangeStep ==
  /\ "network" \in open
  /\ NC!Progress \/ NC!UpdateDeviceStatusUnacked
  /\ open' = IF pcN' \in NC!Closed THEN open \ {"network"} ELSE open
  /\ UNCHANGED <<starts, drift>>

DriftRemediationStep ==
  /\ "drift" \in open
  /\ DR!Progress \/ DR!FetchInterfacesFails \/ DR!UpdateDeviceStatusUnacked
  /\ open' = IF pcD' \in DR!Closed THEN open \ {"drift"} ELSE open
  /\ UNCHANGED <<starts, network>>

EnvironmentStep ==
  /\ NC!Environment
  /\ UNCHANGED <<open, starts, network, drift>>

\* The bound on starts is reached, or a run is stuck, or retries for ever.
Idle ==
  /\ open = {} => starts = MaxStarts
  /\ "network" \in open => pcN \in NC!Stuck \cup NC!Unlimited
  /\ "drift" \in open => pcD \in DR!Unlimited
  /\ UNCHANGED vars

Next ==
  \/ StartNetworkChange
  \/ StartDriftRemediation
  \/ NetworkChangeStep
  \/ DriftRemediationStep
  \/ EnvironmentStep
  \/ Idle

Spec == Init /\ [][Next]_vars

-----------------------------------------------------------------------------
(* Properties.                                                             *)

\* The race the mutex is for (triggers.py:5-9): no other run changes the device
\* under a run that has taken its backup.  A network change finds its baseline
\* or its whole change there, a rollback returns to that baseline, and a drift
\* remediation never works on a half-applied change.
BaselineKept ==
  /\ "network" \in open => NC!NoThirdConfiguration /\ NC!RolledBackToBaseline
  /\ "drift" \in open /\ backupD # Absent => running \in {backupD, DR!Intended}

\* What a run is about to report, or reports by writing "active", is true of the
\* device at that time, whatever ran before it.
ReportIsTrue ==
  /\ "network" \in open => NC!SuccessMeansIntended
  /\ "drift" \in open /\ pcD \in {"mark_active", "audit_remediated"} =>
       running = Merge(running, Render(planD))
=============================================================================
