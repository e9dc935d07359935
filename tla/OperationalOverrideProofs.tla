--------------------- MODULE OperationalOverrideProofs ---------------------
(***************************************************************************)
(* OperationalOverrideWorkflow honours the window it was granted, follows  *)
(* the lifecycle in Infrahub, counts in its metrics and records only what  *)
(* has happened on the device: for every window, every number of           *)
(* extensions and attempts, and every set of interfaces and values.        *)
(***************************************************************************)
EXTENDS OperationalOverride, DeviceProofs

\* What has been read at each label.
MemoryInv ==
  /\ pc \in {"store_backup", "apply"} \cup Marking \cup InForce => original # Absent
  /\ pc \in {"render", "revert"} \cup Completed => plan # Absent

\* The extensions signalled while the window could still grow are granted or
\* pending; the workflow leaves the window when none is pending and time is up.
WindowInv ==
  /\ pending <= sent
  /\ pc \in BeforeWindow => pending = sent
  /\ pc = "audit_applied" => window = duration
  /\ pc \in Waiting => window + pending = duration + sent
  /\ pc \in Reverting \cup GivenUp \cup Completed /\ ~early =>
       window = duration + sent /\ elapsed >= window

\* The status of the override in Infrahub at each label.
StatusInv ==
  /\ pc \in Unapplied => ovStatus = "pending"
  /\ pc \in Marking => ovStatus \in {"pending", "active"}
  /\ pc \in InForce \cup Reverting => ovStatus = "active"
  /\ pc \in GivenUp => ovStatus \in {"active", "revert_failed"}
  /\ pc \in Completed =>
       ovStatus \in {"active", IF early THEN "cancelled" ELSE "reverted"}

\* Where a reversion can have been counted and how often, and what the metrics are
\* when every attempt that counted was reported and the worker lived.
MetricsInv ==
  /\ metrics.success > 0 => pc \in {"revert", "record_failure"} \cup GivenUp \cup Completed
  /\ metrics.failure > 0 => pc \in {"record_failure"} \cup GivenUp
  /\ metrics.success + metrics.failure <= 1 + miscounted
  /\ pc \notin GivenUp \cup Completed => metrics.success + metrics.failure <= miscounted
  /\ miscounted = 0 =>
       /\ metrics.active = IF pc \in Marking \cup InForce \cup Reverting THEN 1 ELSE 0
       /\ metrics.success = IF pc \in Completed THEN 1 ELSE 0
       /\ metrics.failure = IF pc \in GivenUp THEN 1 ELSE 0

IInv == TypeOK /\ MemoryInv /\ WindowInv /\ StatusInv /\ MetricsInv

\* Where the device is, if this run alone changes it and no SET outlives its attempt.
DeviceInv ==
  /\ late = {}
  /\ pc \in {"store_backup", "apply"} =>
       original = Absent \/ running \in {original, Merge(original, override)}
  /\ pc \in Marking \cup InForce => running = Merge(original, override)
  /\ pc \in Completed => Merge(running, Render(plan)) = running

\* What a counted success says of the device.
CountedInv ==
  metrics.success > 0 => plan # Absent /\ Merge(running, Render(plan)) = running

-----------------------------------------------------------------------------
(* Types.                                                                  *)

LEMMA LabelSet ==
  Labels = Unapplied \cup Marking \cup InForce \cup Reverting \cup GivenUp \cup Completed
BY DEF Labels, Closed, Unlimited, AuditLabels, AuditStep, Waiting, BeforeWindow,
       Unapplied, Marking, InForce, Reverting, GivenUp, Completed

\* The event and the label an audit event leads to.
LEMMA AuditNext ==
  ASSUME pc \in AuditLabels
  PROVE  /\ AuditStep[pc].event \in Events /\ AuditStep[pc].next \in Labels
         /\ \/ pc = "audit_initiated"     /\ AuditStep[pc].next = "capture"
            \/ pc = "audit_apply_failed"  /\ AuditStep[pc].next = "apply_failed"
            \/ pc = "audit_applied"       /\ AuditStep[pc].next = "window"
            \/ pc = "audit_extended"      /\ AuditStep[pc].next = "drain"
            \/ pc = "audit_terminated"    /\ AuditStep[pc].next = "check_safety"
            \/ pc = "audit_unsafe"        /\ AuditStep[pc].next = "unsafe"
            \/ pc = "audit_revert_failed" /\ AuditStep[pc].next = "revert_failed"
BY DEF AuditLabels, AuditStep, Events, Labels, Closed, Waiting, BeforeWindow

LEMMA InitType == Init => TypeOK
<1> SUFFICES ASSUME Init PROVE TypeOK
  OBVIOUS
<1>1. WorldTypeOK /\ override \in Config
  BY InputTypes DEF Init, WorldInit, WorldTypeOK
<1>2. /\ duration \in 0..MaxDuration
      /\ elapsed \in 0..MaxWindow /\ window \in 0..MaxWindow
      /\ pending \in 0..MaxExtensions /\ sent \in 0..MaxExtensions
  BY OverrideAssumption DEF Init, MaxWindow
<1>3. metrics \in Metrics
  BY DEF Init, Metrics, NoMetrics
<1>4. pc \in Labels /\ attempt \in 1..MaxAttempts
  BY ActivityAssumption DEF Init, Labels, BeforeWindow
<1>5. /\ terminated \in BOOLEAN /\ early \in BOOLEAN /\ safe \in BOOLEAN
      /\ miscounted \in 0..MaxMiscounts
  <2>1. miscounted \in 0..MaxMiscounts
    BY OverrideAssumption DEF Init
  <2>2. QED
    BY <2>1 DEF Init
<1>6. /\ original \in Config \cup {Absent} /\ plan \in Intent \cup {Absent}
      /\ ovStatus \in OverrideStatuses /\ audit \subseteq Events
  BY DEF Init, OverrideStatuses
<1>7. QED
  BY <1>1, <1>2, <1>3, <1>4, <1>5, <1>6 DEF TypeOK

\* The steps that leave the device, the clock and what was read alone.
LEMMA RecordType ==
  ASSUME TypeOK, UNCHANGED <<world, input, clock, signals, metrics, miscounted, original, plan>>,
         pc' \in Labels /\ attempt' \in 1..MaxAttempts,
         ovStatus' \in OverrideStatuses, audit' \subseteq Events,
         early' \in BOOLEAN, safe' \in BOOLEAN
  PROVE  TypeOK'
BY DEF TypeOK, WorldTypeOK, world, input, clock, signals

\* The steps that only move the clock or the signals.
LEMMA ClockType ==
  ASSUME TypeOK, UNCHANGED <<world, input, record, original, plan, safe>>,
         pc' \in Labels /\ attempt' \in 1..MaxAttempts,
         elapsed' \in 0..MaxWindow /\ window' \in 0..MaxWindow,
         pending' \in 0..MaxExtensions /\ sent' \in 0..MaxExtensions,
         terminated' \in BOOLEAN, early' \in BOOLEAN
  PROVE  TypeOK'
BY DEF TypeOK, WorldTypeOK, world, input, record

\* An attempt to write the status of the override.
LEMMA OverrideStatusType ==
  ASSUME TypeOK, NEW new \in OverrideStatuses, NEW next \in Labels, NEW handler \in Labels,
         OverrideStatusAttempt(new, next, handler)
  PROVE  pc' \in Labels /\ attempt' \in 1..MaxAttempts /\ ovStatus' \in OverrideStatuses
<1>1. pc' \in Labels /\ attempt' \in 1..MaxAttempts
  BY ControlType DEF OverrideStatusAttempt, TypeOK
<1>2. QED
  BY <1>1 DEF OverrideStatusAttempt, TypeOK

\* An attempt of a SET, acknowledged, failed or unreported, and the metrics with it.
LEMMA SetAttemptType ==
  ASSUME TypeOK, UNCHANGED <<input, clock, signals, ovStatus, audit, results>>,
         miscounted' \in 0..MaxMiscounts,
         NEW payload \in Config, NEW next \in Labels, NEW handler \in Labels,
         \/ SetSucceeds(Update(payload), next)
         \/ SetFails(Update(payload), handler)
         \/ /\ running' = AfterSet(running, Update(payload))
            /\ RetryOr(handler)
            /\ UNCHANGED <<late, intent, status>>,
         metrics' \in Metrics
  PROVE  TypeOK'
<1>1. WorldTypeOK' /\ pc' \in Labels /\ attempt' \in 1..MaxAttempts
  <2>1. CASE SetSucceeds(Update(payload), next) \/ SetFails(Update(payload), handler)
    BY <2>1, SetType DEF Update, TypeOK
  <2>2. CASE /\ running' = AfterSet(running, Update(payload))
             /\ RetryOr(handler)
             /\ UNCHANGED <<late, intent, status>>
    <3>1. running' \in Config
      BY <2>2, AfterSetType DEF Update, TypeOK, WorldTypeOK
    <3>2. pc' \in Labels /\ attempt' \in 1..MaxAttempts
      BY <2>2, ControlType DEF TypeOK
    <3>3. QED
      BY <2>2, <3>1, <3>2 DEF TypeOK, WorldTypeOK
  <2>3. QED
    BY <2>1, <2>2
<1>2. QED
  BY <1>1 DEF TypeOK, input, clock, signals, results

\* One more miscount.
LEMMA MiscountType ==
  ASSUME miscounted \in 0..MaxMiscounts, Miscount
  PROVE  miscounted' \in 0..MaxMiscounts
BY OverrideAssumption DEF Miscount

\* What the metrics become.
LEMMA MetricsNext ==
  ASSUME metrics \in Metrics
  PROVE  /\ [metrics EXCEPT !.active = @ + 1] \in Metrics
         /\ Reverted \in Metrics
         /\ Failed \in Metrics
         /\ NoMetrics \in Metrics
<1>1. /\ metrics.active + 1 \in Int /\ metrics.active - 1 \in Int
      /\ metrics.success + 1 \in Nat /\ metrics.failure + 1 \in Nat
  BY DEF Metrics
<1>2. NoMetrics \in Metrics
  BY DEF Metrics, NoMetrics
<1>3. QED
  BY <1>1, <1>2, Zenon DEF Metrics, Reverted, Failed

\* Every step keeps the types: what is merged was read before, and the window
\* never grows beyond what was signalled.
LEMMA TypeStep ==
  ASSUME TypeOK, MemoryInv, WindowInv, [Next]_vars
  PROVE  TypeOK'
<1>0. \A label \in Unapplied \cup Marking \cup InForce \cup Reverting \cup GivenUp
                    \cup Completed : label \in Labels
  BY LabelSet
<1> USE <1>0, LabelSet DEF Unapplied, Marking, InForce, Reverting, GivenUp, Completed, Waiting
<1>1. CASE Start \/ StoreBackup \/ CaptureFails \/ RecordExtension \/ Wait \/ RenderIntendedConfig
  <2>1. pc' \in Labels /\ attempt' \in 1..MaxAttempts
    BY <1>1, ControlType
    DEF Start, StoreBackup, CaptureFails, ReadFails, RecordExtension, Wait,
        RenderIntendedConfig, TypeOK
  <2>2. UNCHANGED <<world, local>>
    BY <1>1 DEF Start, StoreBackup, CaptureFails, ReadFails, RecordExtension, Wait,
                RenderIntendedConfig
  <2>3. QED
    BY <2>1, <2>2, RecordType DEF local, record, results, TypeOK
<1>2. CASE LogAuditEvent
  <2>1. pc' \in Labels /\ attempt' \in 1..MaxAttempts
    BY <1>2, AuditNext, ControlType DEF LogAuditEvent, TypeOK
  <2>2. audit' \subseteq Events
    BY <1>2, AuditNext DEF LogAuditEvent, TypeOK
  <2>3. QED
    BY <1>2, <2>1, <2>2, RecordType DEF LogAuditEvent, results, TypeOK
<1>3. CASE Capture
  <2>1. pc' \in Labels /\ attempt' \in 1..MaxAttempts
    BY <1>3, ControlType DEF Capture, TypeOK
  <2>2. QED
    BY <1>3, <2>1
    DEF Capture, TypeOK, WorldTypeOK, world, input, clock, signals, record
<1>4. CASE Apply \/ ApplyUnreported
  <2>1. override \in Config /\ metrics' \in Metrics /\ miscounted' \in 0..MaxMiscounts
    BY <1>4, MetricsNext, MiscountType DEF Apply, ApplyUnreported, TypeOK
  <2>2. QED
    BY <1>4, <2>1, SetAttemptType DEF Apply, ApplyUnreported
<1>5. CASE MarkActive
  <2>1. pc' \in Labels /\ attempt' \in 1..MaxAttempts /\ ovStatus' \in OverrideStatuses
    BY <1>5, OverrideStatusType DEF MarkActive, OverrideStatuses
  <2>2. elapsed' \in 0..MaxWindow /\ window' \in 0..MaxWindow
    BY <1>5, OverrideAssumption DEF MarkActive, MaxWindow, TypeOK
  <2>3. QED
    BY <1>5, <2>1, <2>2
    DEF MarkActive, OverrideStatusAttempt, TypeOK, WorldTypeOK, world, input, signals, results
<1>6. CASE GrantExtension
  <2>1. pc' \in Labels /\ attempt' \in 1..MaxAttempts
    BY <1>6, ControlType DEF GrantExtension, TypeOK
  <2>2. window + pending = duration + sent
    BY <1>6 DEF GrantExtension, WindowInv
  <2>3. window' \in 0..MaxWindow /\ pending' \in 0..MaxExtensions
    BY <1>6, <2>2, OverrideAssumption DEF GrantExtension, TypeOK, MaxWindow
  <2>4. QED
    BY <1>6, <2>1, <2>3, ClockType DEF GrantExtension, results, TypeOK
<1>7. CASE LeaveWindow
  <2>1. pc' \in Labels /\ attempt' \in 1..MaxAttempts
    BY <1>7, ControlType DEF LeaveWindow, TypeOK
  <2>2. early' \in BOOLEAN
    BY <1>7 DEF LeaveWindow, TypeOK
  <2>3. QED
    BY <1>7, <2>1, <2>2, RecordType DEF LeaveWindow, record, TypeOK
<1>8. CASE TerminateEarly
  <2>1. terminated' \in BOOLEAN
    BY <1>8 DEF TerminateEarly
  <2>2. QED
    BY <1>8, <2>1, ClockType DEF TerminateEarly, clock, results, TypeOK
<1>9. CASE ExtendWindow
  <2>1. pending' \in 0..MaxExtensions /\ sent' \in 0..MaxExtensions
    BY <1>9, OverrideAssumption DEF ExtendWindow, WindowInv, TypeOK
  <2>2. UNCHANGED <<world, pc, attempt, input, clock, terminated, record, results>>
    BY <1>9 DEF ExtendWindow
  <2>3. QED
    BY <2>1, <2>2, ClockType DEF clock, results, TypeOK
<1>10. CASE Tick
  <2>1. elapsed' \in 0..MaxWindow
    BY <1>10, OverrideAssumption DEF Tick, TypeOK, MaxWindow
  <2>2. QED
    BY <1>10, <2>1, ClockType DEF Tick, signals, results, TypeOK
<1>11. CASE CheckReversionSafety
  <2>1. pc' \in Labels /\ attempt' \in 1..MaxAttempts
    BY <1>11, ControlType DEF CheckReversionSafety, TypeOK
  <2>2. safe' \in BOOLEAN
    BY <1>11 DEF CheckReversionSafety, TypeOK
  <2>3. QED
    BY <1>11, <2>1, <2>2, RecordType DEF CheckReversionSafety, record, TypeOK
<1>12. CASE FetchDeviceConfig
  <2>1. pc' \in Labels /\ attempt' \in 1..MaxAttempts
    BY <1>12, ControlType DEF FetchDeviceConfig, TypeOK
  <2>2. QED
    BY <1>12, <2>1
    DEF FetchDeviceConfig, TypeOK, WorldTypeOK, world, input, clock, signals, record
<1>13. CASE Revert \/ RevertUnreported
  <2>1. plan \in Intent
    BY <1>13 DEF Revert, RevertUnreported, MemoryInv, TypeOK
  <2>2. Render(plan) \in Config
    BY <2>1, RenderType
  <2>3. metrics' \in Metrics /\ miscounted' \in 0..MaxMiscounts
    BY <1>13, MetricsNext, MiscountType DEF Revert, RevertUnreported, TypeOK
  <2>4. QED
    BY <1>13, <2>2, <2>3, SetAttemptType DEF Revert, RevertUnreported, RevertSet
<1>14. CASE RecordRevertFailure \/ RecordRevertFailureUnreported \/ WorkerRestart
  <2>1. pc' \in Labels /\ attempt' \in 1..MaxAttempts
    BY <1>14, ControlType
    DEF RecordRevertFailure, RecordRevertFailureUnreported, WorkerRestart, TypeOK
  <2>2. metrics' \in Metrics /\ miscounted' \in 0..MaxMiscounts
    BY <1>14, MetricsNext, MiscountType
    DEF RecordRevertFailure, RecordRevertFailureUnreported, WorkerRestart, TypeOK
  <2>3. UNCHANGED <<world, input, clock, signals, ovStatus, audit, results>>
    BY <1>14 DEF RecordRevertFailure, RecordRevertFailureUnreported, WorkerRestart
  <2>4. QED
    BY <2>1, <2>2, <2>3 DEF TypeOK, WorldTypeOK, world, input, clock, signals, results
<1>15. CASE MarkRevertFailed \/ MarkCompleted
  <2>1. pc' \in Labels /\ attempt' \in 1..MaxAttempts /\ ovStatus' \in OverrideStatuses
    BY <1>15, OverrideStatusType DEF MarkRevertFailed, MarkCompleted, OverrideStatuses
  <2>2. QED
    BY <1>15, <2>1, RecordType
    DEF MarkRevertFailed, MarkCompleted, OverrideStatusAttempt, results, TypeOK
<1>16. CASE AuditCompleted
  <2>1. pc' \in Labels /\ attempt' \in 1..MaxAttempts
    BY <1>16, ControlType DEF AuditCompleted, TypeOK
  <2>2. audit' \subseteq Events
    BY <1>16 DEF AuditCompleted, TypeOK, Events
  <2>3. QED
    BY <1>16, <2>1, <2>2, RecordType DEF AuditCompleted, results, TypeOK
<1>17. CASE UNCHANGED vars
  BY <1>17, RecordType DEF vars, local, record, results, TypeOK
<1>18. CASE Environment /\ UNCHANGED local
  BY <1>18, EnvironmentType
  DEF TypeOK, local, input, clock, signals, record, results
<1>19. QED
  BY <1>1, <1>2, <1>3, <1>4, <1>5, <1>6, <1>7, <1>8, <1>9, <1>10, <1>11, <1>12, <1>13,
     <1>14, <1>15, <1>16, <1>17, <1>18
  DEF Next, Progress, RetryForever, Ended

-----------------------------------------------------------------------------
(* Memory, window, status and metrics.                                     *)

\* Every step keeps what was read for as long as it is used.
LEMMA MemoryStep ==
  ASSUME TypeOK, MemoryInv, [Next]_vars
  PROVE  MemoryInv'
<1> USE DEF MemoryInv, Marking, InForce, Waiting, Completed
<1>1. CASE Start \/ StoreBackup \/ CaptureFails \/ RecordExtension \/ Wait \/ RenderIntendedConfig
  BY <1>1 DEF Start, StoreBackup, CaptureFails, ReadFails, RecordExtension, Wait,
              RenderIntendedConfig, RetryOr, Goto, local, results
<1>2. CASE LogAuditEvent
  <2>1. pc' = AuditStep[pc].next /\ pc \in AuditLabels /\ UNCHANGED <<original, plan>>
    BY <1>2 DEF LogAuditEvent, Goto, results
  <2>2. QED
    BY <2>1, AuditNext
<1>3. CASE Capture
  <2>1. original' # Absent
    BY <1>3, SentinelAssumption DEF Capture, TypeOK, WorldTypeOK
  <2>2. QED
    BY <1>3, <2>1 DEF Capture, Goto
<1>4. CASE Apply \/ ApplyUnreported
  BY <1>4 DEF Apply, ApplyUnreported, SetSucceeds, SetFails, RetryOr, Goto, results
<1>5. CASE MarkActive
  BY <1>5 DEF MarkActive, OverrideStatusAttempt, RetryOr, Goto, results
<1>6. CASE GrantExtension \/ LeaveWindow
  BY <1>6 DEF GrantExtension, LeaveWindow, Goto, results
<1>7. CASE TerminateEarly \/ ExtendWindow \/ Tick
  BY <1>7 DEF TerminateEarly, ExtendWindow, Tick, results
<1>8. CASE CheckReversionSafety
  BY <1>8 DEF CheckReversionSafety, RetryOr, Goto
<1>9. CASE FetchDeviceConfig
  <2>1. plan' # Absent
    BY <1>9, SentinelAssumption DEF FetchDeviceConfig, TypeOK, WorldTypeOK
  <2>2. QED
    BY <1>9, <2>1 DEF FetchDeviceConfig, Goto
<1>10. CASE Revert \/ RevertUnreported
  BY <1>10 DEF Revert, RevertUnreported, SetSucceeds, SetFails, RetryOr, Goto, results
<1>11. CASE RecordRevertFailure \/ RecordRevertFailureUnreported \/ WorkerRestart
  BY <1>11 DEF RecordRevertFailure, RecordRevertFailureUnreported, WorkerRestart, Goto, results
<1>12. CASE MarkRevertFailed \/ MarkCompleted
  BY <1>12 DEF MarkRevertFailed, MarkCompleted, OverrideStatusAttempt, RetryOr, Goto, results
<1>13. CASE AuditCompleted
  BY <1>13 DEF AuditCompleted, RetryOr, Goto, results
<1>14. CASE UNCHANGED vars
  BY <1>14 DEF vars, local, results
<1>15. CASE Environment /\ UNCHANGED local
  BY <1>15, EnvironmentType DEF TypeOK, local, results
<1>16. QED
  BY <1>1, <1>2, <1>3, <1>4, <1>5, <1>6, <1>7, <1>8, <1>9, <1>10, <1>11, <1>12, <1>13,
     <1>14, <1>15
  DEF Next, Progress, RetryForever, Ended

\* Every step keeps the account of the extensions, and the window is left for
\* its expiry only when it is over.
LEMMA WindowStep ==
  ASSUME TypeOK, WindowInv, [Next]_vars
  PROVE  WindowInv'
<1> USE DEF WindowInv, BeforeWindow, Waiting, Reverting, GivenUp, Completed
<1>1. CASE Start \/ StoreBackup \/ CaptureFails \/ RecordExtension \/ Wait \/ RenderIntendedConfig
  BY <1>1 DEF Start, StoreBackup, CaptureFails, ReadFails, RecordExtension, Wait,
              RenderIntendedConfig, RetryOr, Goto, local, input, clock, signals, results
<1>2. CASE LogAuditEvent
  <2>1. /\ pc' = AuditStep[pc].next /\ pc \in AuditLabels
        /\ UNCHANGED <<input, clock, signals, early>>
    BY <1>2 DEF LogAuditEvent, Goto, results
  <2>2. QED
    BY <2>1, AuditNext DEF TypeOK, input, clock, signals
<1>3. CASE Capture
  BY <1>3 DEF Capture, Goto, input, clock, signals
<1>4. CASE Apply \/ ApplyUnreported
  BY <1>4 DEF Apply, ApplyUnreported, SetSucceeds, SetFails, RetryOr, Goto, input, clock,
              signals, results
<1>5. CASE MarkActive
  BY <1>5 DEF MarkActive, OverrideStatusAttempt, RetryOr, Goto, input, signals, results
<1>6. CASE GrantExtension
  <2>1. /\ pc' = "record_extension" /\ pc \in Waiting
        /\ pending' = pending - 1 /\ window' = window + 1
        /\ UNCHANGED <<duration, sent>>
    BY <1>6 DEF GrantExtension, Goto, input
  <2>2. window' + pending' = duration' + sent' /\ pending' <= sent'
    BY <2>1 DEF TypeOK
  <2>3. QED
    BY <2>1, <2>2
<1>7. CASE LeaveWindow
  <2>1. /\ pc' \in {"audit_terminated", "check_safety"} /\ pc \in Waiting
        /\ UNCHANGED <<duration, sent, window, elapsed, pending>> /\ early' = terminated
        /\ terminated \/ (pending = 0 /\ elapsed >= window)
    BY <1>7 DEF LeaveWindow, Goto, input, clock, signals
  <2>2. QED
    BY <2>1 DEF TypeOK
<1>8. CASE TerminateEarly
  BY <1>8 DEF TerminateEarly, input, clock, results
<1>9. CASE ExtendWindow
  <2>1. /\ UNCHANGED <<pc, duration, window, elapsed, early>> /\ pending' = pending + 1
        /\ sent' = sent + 1 /\ pc \in BeforeWindow \cup Waiting
    BY <1>9 DEF ExtendWindow, input, clock, results
  <2>2. QED
    BY <2>1 DEF TypeOK
<1>10. CASE Tick
  BY <1>10 DEF Tick, input, signals, results
<1>11. CASE CheckReversionSafety
  BY <1>11 DEF CheckReversionSafety, RetryOr, Goto, input, clock, signals
<1>12. CASE FetchDeviceConfig
  BY <1>12 DEF FetchDeviceConfig, Goto, input, clock, signals
<1>13. CASE Revert \/ RevertUnreported
  BY <1>13 DEF Revert, RevertUnreported, SetSucceeds, SetFails, RetryOr, Goto, input,
               clock, signals, results
<1>14. CASE RecordRevertFailure \/ RecordRevertFailureUnreported \/ WorkerRestart
  BY <1>14 DEF RecordRevertFailure, RecordRevertFailureUnreported, WorkerRestart, Goto,
               input, clock, signals, results
<1>15. CASE MarkRevertFailed \/ MarkCompleted
  BY <1>15 DEF MarkRevertFailed, MarkCompleted, OverrideStatusAttempt, RetryOr, Goto,
               input, clock, signals, results
<1>16. CASE AuditCompleted
  BY <1>16 DEF AuditCompleted, RetryOr, Goto, input, clock, signals, results
<1>17. CASE UNCHANGED vars
  BY <1>17 DEF vars, local, input, clock, signals, results
<1>18. CASE Environment /\ UNCHANGED local
  BY <1>18, EnvironmentType DEF TypeOK, local, input, clock, signals, results
<1>19. QED
  BY <1>1, <1>2, <1>3, <1>4, <1>5, <1>6, <1>7, <1>8, <1>9, <1>10, <1>11, <1>12, <1>13,
     <1>14, <1>15, <1>16, <1>17, <1>18
  DEF Next, Progress, RetryForever, Ended

\* Every step keeps the status of the override in line with where the run is.
LEMMA StatusStep ==
  ASSUME TypeOK, StatusInv, [Next]_vars
  PROVE  StatusInv'
<1> USE DEF StatusInv, Unapplied, Marking, InForce, Waiting, Reverting, GivenUp, Completed
<1>1. CASE Start \/ StoreBackup \/ CaptureFails \/ RecordExtension \/ Wait \/ RenderIntendedConfig
  BY <1>1 DEF Start, StoreBackup, CaptureFails, ReadFails, RecordExtension, Wait,
              RenderIntendedConfig, RetryOr, Goto, local, record, results
<1>2. CASE LogAuditEvent
  <2>1. pc' = AuditStep[pc].next /\ pc \in AuditLabels /\ UNCHANGED <<ovStatus, early>>
    BY <1>2 DEF LogAuditEvent, Goto, results
  <2>2. QED
    BY <2>1, AuditNext
<1>3. CASE Capture
  BY <1>3 DEF Capture, Goto, record
<1>4. CASE Apply \/ ApplyUnreported
  BY <1>4 DEF Apply, ApplyUnreported, SetSucceeds, SetFails, RetryOr, Goto, results
<1>5. CASE MarkActive
  BY <1>5 DEF MarkActive, OverrideStatusAttempt, RetryOr, Goto
<1>6. CASE GrantExtension \/ LeaveWindow
  BY <1>6 DEF GrantExtension, LeaveWindow, Goto, record
<1>7. CASE TerminateEarly \/ ExtendWindow \/ Tick
  BY <1>7 DEF TerminateEarly, ExtendWindow, Tick, record, results
<1>8. CASE CheckReversionSafety \/ FetchDeviceConfig
  BY <1>8 DEF CheckReversionSafety, FetchDeviceConfig, RetryOr, Goto, record
<1>9. CASE Revert \/ RevertUnreported
  BY <1>9 DEF Revert, RevertUnreported, SetSucceeds, SetFails, RetryOr, Goto, results
<1>10. CASE RecordRevertFailure \/ RecordRevertFailureUnreported \/ WorkerRestart
  BY <1>10 DEF RecordRevertFailure, RecordRevertFailureUnreported, WorkerRestart, Goto, results
<1>11. CASE MarkRevertFailed
  BY <1>11 DEF MarkRevertFailed, OverrideStatusAttempt, RetryOr, Goto
<1>12. CASE MarkCompleted
  BY <1>12 DEF MarkCompleted, OverrideStatusAttempt, RetryOr, Goto, results
<1>13. CASE AuditCompleted
  BY <1>13 DEF AuditCompleted, RetryOr, Goto, results
<1>14. CASE UNCHANGED vars
  BY <1>14 DEF vars, local, record, results
<1>15. CASE Environment /\ UNCHANGED local
  BY <1>15, EnvironmentType DEF TypeOK, local, record, results
<1>16. QED
  BY <1>1, <1>2, <1>3, <1>4, <1>5, <1>6, <1>7, <1>8, <1>9, <1>10, <1>11, <1>12, <1>13,
     <1>14, <1>15
  DEF Next, Progress, RetryForever, Ended

\* What each update makes of the gauge and the counters.
LEMMA CountedNext ==
  ASSUME metrics \in Metrics
  PROVE  /\ metrics.active \in Int /\ metrics.success \in Nat /\ metrics.failure \in Nat
         /\ metrics' = [metrics EXCEPT !.active = @ + 1] =>
              /\ metrics'.active = metrics.active + 1
              /\ metrics'.success = metrics.success /\ metrics'.failure = metrics.failure
         /\ metrics' = Reverted =>
              /\ metrics'.active = metrics.active - 1
              /\ metrics'.success = metrics.success + 1
              /\ metrics'.failure = metrics.failure
         /\ metrics' = Failed =>
              /\ metrics'.active = metrics.active - 1
              /\ metrics'.success = metrics.success
              /\ metrics'.failure = metrics.failure + 1
         /\ metrics' = NoMetrics =>
              metrics'.active = 0 /\ metrics'.success = 0 /\ metrics'.failure = 0
<1>1. metrics.active \in Int /\ metrics.success \in Nat /\ metrics.failure \in Nat
  BY DEF Metrics
<1>2. ASSUME metrics' = [metrics EXCEPT !.active = @ + 1]
      PROVE  /\ metrics'.active = metrics.active + 1
             /\ metrics'.success = metrics.success /\ metrics'.failure = metrics.failure
  BY <1>2 DEF Metrics
<1>3. ASSUME metrics' = Reverted
      PROVE  /\ metrics'.active = metrics.active - 1
             /\ metrics'.success = metrics.success + 1
             /\ metrics'.failure = metrics.failure
  BY <1>3 DEF Metrics, Reverted
<1>4. ASSUME metrics' = Failed
      PROVE  /\ metrics'.active = metrics.active - 1
             /\ metrics'.success = metrics.success
             /\ metrics'.failure = metrics.failure + 1
  BY <1>4 DEF Metrics, Failed
<1>5. ASSUME metrics' = NoMetrics
      PROVE  metrics'.active = 0 /\ metrics'.success = 0 /\ metrics'.failure = 0
  BY <1>5 DEF NoMetrics
<1>6. QED
  BY <1>1, <1>2, <1>3, <1>4, <1>5

\* Every step keeps the account: an override is counted with its last attempt to
\* apply, and its reversion with the step that settles it.
LEMMA MetricsStep ==
  ASSUME TypeOK, MetricsInv, [Next]_vars
  PROVE  MetricsInv'
<1> USE DEF MetricsInv, Marking, InForce, Waiting, Reverting, GivenUp, Completed
<1>0. metrics \in Metrics /\ miscounted \in Nat
  BY OverrideAssumption DEF TypeOK
<1>1. CASE Start \/ StoreBackup \/ CaptureFails \/ RecordExtension \/ Wait \/ RenderIntendedConfig
  BY <1>1 DEF Start, StoreBackup, CaptureFails, ReadFails, RecordExtension, Wait,
              RenderIntendedConfig, RetryOr, Goto, local, record
<1>2. CASE LogAuditEvent
  <2>1. /\ pc' = AuditStep[pc].next /\ pc \in AuditLabels
        /\ UNCHANGED <<metrics, miscounted>>
    BY <1>2 DEF LogAuditEvent, Goto
  <2>2. QED
    BY <2>1, AuditNext
<1>3. CASE Capture
  BY <1>3 DEF Capture, Goto, record
<1>4. CASE Apply
  <2>1. /\ pc = "apply" /\ UNCHANGED miscounted
        /\ \/ metrics' = [metrics EXCEPT !.active = @ + 1] /\ pc' = "mark_active"
           \/ UNCHANGED metrics /\ pc' \in {"apply", "audit_apply_failed"}
    BY <1>4 DEF Apply, SetSucceeds, SetFails, RetryOr, Goto
  <2>2. QED
    BY <1>0, <2>1, CountedNext
<1>5. CASE ApplyUnreported
  <2>1. /\ pc = "apply" /\ miscounted' = miscounted + 1
        /\ pc' \in {"apply", "audit_apply_failed"}
        /\ metrics' = [metrics EXCEPT !.active = @ + 1]
    BY <1>5 DEF ApplyUnreported, Miscount, RetryOr, Goto
  <2>2. QED
    BY <1>0, <2>1, CountedNext
<1>6. CASE MarkActive
  BY <1>6 DEF MarkActive, OverrideStatusAttempt, RetryOr, Goto
<1>7. CASE GrantExtension \/ LeaveWindow
  BY <1>7 DEF GrantExtension, LeaveWindow, Goto, record
<1>8. CASE TerminateEarly \/ ExtendWindow \/ Tick
  BY <1>8 DEF TerminateEarly, ExtendWindow, Tick, record
<1>9. CASE CheckReversionSafety \/ FetchDeviceConfig
  BY <1>9 DEF CheckReversionSafety, FetchDeviceConfig, RetryOr, Goto, record
<1>10. CASE Revert
  <2>1. /\ pc = "revert" /\ UNCHANGED miscounted
        /\ \/ metrics' = Reverted /\ pc' = "mark_completed"
           \/ UNCHANGED metrics /\ pc' \in {"revert", "record_failure"}
    BY <1>10 DEF Revert, SetSucceeds, SetFails, RetryOr, Goto
  <2>2. CASE metrics' = Reverted /\ pc' = "mark_completed"
    <3>1. /\ metrics'.active = metrics.active - 1
          /\ metrics'.success = metrics.success + 1
          /\ metrics'.failure = metrics.failure
      BY <1>0, <2>2, CountedNext
    <3>2. QED
      BY <1>0, <2>1, <2>2, <3>1, CountedNext
  <2>3. CASE UNCHANGED metrics /\ pc' \in {"revert", "record_failure"}
    BY <1>0, <2>1, <2>3
  <2>4. QED
    BY <2>1, <2>2, <2>3
<1>11. CASE RevertUnreported
  <2>1. /\ pc = "revert" /\ miscounted' = miscounted + 1 /\ metrics' = Reverted
        /\ pc' \in {"revert", "record_failure"}
    BY <1>11 DEF RevertUnreported, Miscount, RetryOr, Goto
  <2>2. QED
    BY <1>0, <2>1, CountedNext
<1>12. CASE RecordRevertFailure
  <2>1. /\ pc = "record_failure" /\ pc' = "mark_revert_failed"
        /\ UNCHANGED miscounted /\ metrics' = Failed
    BY <1>12 DEF RecordRevertFailure, Goto
  <2>2. /\ metrics'.active = metrics.active - 1
        /\ metrics'.success = metrics.success
        /\ metrics'.failure = metrics.failure + 1
    BY <1>0, <2>1, CountedNext
  <2>3. QED
    BY <1>0, <2>1, <2>2, CountedNext
<1>13. CASE RecordRevertFailureUnreported
  <2>1. /\ pc = "record_failure" /\ pc' = pc
        /\ miscounted' = miscounted + 1 /\ metrics' = Failed
    BY <1>13 DEF RecordRevertFailureUnreported, Miscount
  <2>2. QED
    BY <1>0, <2>1, CountedNext
<1>14. CASE WorkerRestart
  <2>1. miscounted' = miscounted + 1 /\ metrics' = NoMetrics /\ pc' = pc
    BY <1>14 DEF WorkerRestart, Miscount
  <2>2. metrics'.success = 0 /\ metrics'.failure = 0
    BY <1>0, <2>1, CountedNext
  <2>3. QED
    BY <1>0, <2>1, <2>2
<1>15. CASE MarkRevertFailed \/ MarkCompleted
  BY <1>15 DEF MarkRevertFailed, MarkCompleted, OverrideStatusAttempt, RetryOr, Goto
<1>16. CASE AuditCompleted
  BY <1>16 DEF AuditCompleted, RetryOr, Goto
<1>17. CASE UNCHANGED vars
  BY <1>17 DEF vars, local, record
<1>18. CASE Environment /\ UNCHANGED local
  <2>1. UNCHANGED <<pc, metrics, miscounted>>
    BY <1>18, EnvironmentType DEF TypeOK, local, record
  <2>2. QED
    BY <2>1
<1>19. QED
  BY <1>1, <1>2, <1>3, <1>4, <1>5, <1>6, <1>7, <1>8, <1>9, <1>10, <1>11, <1>12, <1>13,
     <1>14, <1>15, <1>16, <1>17, <1>18
  DEF Next, Progress, RetryForever, Ended

\* The part of the invariant that holds whatever the environment does.
LEMMA Invariance == Spec => []IInv
<1>1. Init => IInv
  <2> SUFFICES ASSUME Init PROVE IInv
    OBVIOUS
  <2>1. pc = "start" /\ pending = sent /\ ovStatus = "pending" /\ miscounted = 0
    BY DEF Init
  <2>2. metrics.active = 0 /\ metrics.success = 0 /\ metrics.failure = 0
    BY DEF Init, NoMetrics
  <2>3. MetricsInv
    BY <2>1, <2>2
    DEF MetricsInv, Marking, InForce, Waiting, Reverting, GivenUp, Completed
  <2>4. pending <= sent
    BY <2>1, InitType DEF TypeOK
  <2>5. QED
    BY <2>1, <2>3, <2>4, InitType
    DEF IInv, MemoryInv, WindowInv, StatusInv, Unapplied, Marking, InForce, Waiting,
        BeforeWindow, Reverting, GivenUp, Completed
<1>2. IInv /\ [Next]_vars => IInv'
  BY TypeStep, MemoryStep, WindowStep, StatusStep, MetricsStep DEF IInv
<1>3. QED
  BY <1>1, <1>2, PTL DEF Spec

\* Type correctness, whatever the environment does.
THEOREM TypeCorrect == Spec => []TypeOK
BY Invariance, PTL DEF IInv

\* An override is not taken back before the window it was granted and every
\* extension signalled until then are over, unless its early end was asked for:
\* whatever the order of signals and timer, and whatever the environment does.
THEOREM WindowKept == Spec => []WindowHonoured
<1>1. IInv => WindowHonoured
  BY DEF IInv, WindowInv, WindowHonoured, AfterWindow
<1>2. QED
  BY <1>1, Invariance, PTL

\* The status of an override changes along its lifecycle, and a final one is never
\* left: no update that Temporal repeats takes it back.
THEOREM LifecycleFollowed == Spec => Lifecycle
<1> DEFINE Along == \/ ovStatus = "pending" /\ ovStatus' = "active"
                    \/ ovStatus = "active" /\
                         ovStatus' \in {"reverted", "cancelled", "revert_failed"}
<1>1. IInv /\ [Next]_vars => (ovStatus' # ovStatus => Along)
  <2> SUFFICES ASSUME IInv, [Next]_vars, ovStatus' # ovStatus PROVE Along
    OBVIOUS
  <2>1. MarkActive \/ MarkRevertFailed \/ MarkCompleted
    BY DEF Next, vars, Progress, RetryForever, Ended, Start, LogAuditEvent, Capture,
           StoreBackup, CaptureFails, Apply, GrantExtension, RecordExtension, Wait,
           LeaveWindow, CheckReversionSafety, FetchDeviceConfig, RenderIntendedConfig,
           Revert, RecordRevertFailure, AuditCompleted, ApplyUnreported,
           RevertUnreported, RecordRevertFailureUnreported, WorkerRestart,
           TerminateEarly, ExtendWindow, Tick, local, record
  <2>2. CASE MarkActive
    BY <2>2 DEF MarkActive, OverrideStatusAttempt, IInv, StatusInv, Marking
  <2>3. CASE MarkRevertFailed
    BY <2>3 DEF MarkRevertFailed, OverrideStatusAttempt, IInv, StatusInv, GivenUp
  <2>4. CASE MarkCompleted
    BY <2>4 DEF MarkCompleted, OverrideStatusAttempt, IInv, StatusInv, Completed
  <2>5. QED
    BY <2>1, <2>2, <2>3, <2>4
<1>2. QED
  BY <1>1, Invariance, PTL DEF Spec, Lifecycle

-----------------------------------------------------------------------------
(* Where the device is.                                                    *)

\* An attempt of a SET without late effects.
LEMMA PromptSet ==
  ASSUME late = {}, "lateSet" \notin Faults, NEW set, NEW next, NEW handler,
         \/ SetSucceeds(set, next)
         \/ SetFails(set, handler)
         \/ running' = AfterSet(running, set) /\ RetryOr(handler) /\ UNCHANGED late
  PROVE  /\ late' = {}
         /\ \/ pc' = next /\ running' = AfterSet(running, set)
            \/ pc' \in {pc, handler} /\ running' \in {running, AfterSet(running, set)}
BY DEF SetSucceeds, SetFails, RetryOr, Goto

\* Unless someone else configures the device, every step leaves it where the
\* override stands.
LEMMA DeviceStep ==
  ASSUME IInv, DeviceInv, [Next]_vars, "outOfBand" \notin Faults, "lateSet" \notin Faults
  PROVE  DeviceInv'
<1> USE DEF DeviceInv, Marking, InForce, Waiting, Completed
<1>1. CASE Start \/ StoreBackup \/ CaptureFails \/ RecordExtension \/ Wait \/ RenderIntendedConfig
  BY <1>1 DEF Start, StoreBackup, CaptureFails, ReadFails, RecordExtension, Wait,
              RenderIntendedConfig, RetryOr, Goto, world, local, input, results, IInv,
              MemoryInv
<1>2. CASE LogAuditEvent
  <2>1. /\ pc' = AuditStep[pc].next /\ pc \in AuditLabels
        /\ UNCHANGED <<running, late, original, override, plan>>
    BY <1>2 DEF LogAuditEvent, Goto, world, input, results
  <2>2. QED
    BY <2>1, AuditNext
<1>3. CASE Capture
  BY <1>3 DEF Capture, Goto, world
<1>4. CASE Apply \/ ApplyUnreported
  <2>1. pc = "apply" /\ UNCHANGED <<original, override>>
    BY <1>4 DEF Apply, ApplyUnreported, input, results
  <2>2. /\ original \in Config /\ override \in Config
        /\ running \in {original, Merge(original, override)}
    BY <2>1 DEF IInv, MemoryInv, TypeOK
  <2>3. AfterSet(running, Update(override)) = Merge(original, override)
    BY <2>2, SetAgain
  <2>4. /\ late' = {}
        /\ \/ pc' = "mark_active" /\ running' = Merge(original, override)
           \/ /\ pc' \in {"apply", "audit_apply_failed"}
              /\ running' \in {running, Merge(original, override)}
    BY <1>4, <2>1, <2>3, PromptSet DEF Apply, ApplyUnreported
  <2>5. QED
    BY <2>1, <2>2, <2>4
<1>5. CASE MarkActive
  BY <1>5 DEF MarkActive, OverrideStatusAttempt, RetryOr, Goto, world, input, results
<1>6. CASE GrantExtension \/ LeaveWindow
  BY <1>6 DEF GrantExtension, LeaveWindow, Goto, world, input, results
<1>7. CASE TerminateEarly \/ ExtendWindow \/ Tick
  BY <1>7 DEF TerminateEarly, ExtendWindow, Tick, world, input, results
<1>8. CASE CheckReversionSafety \/ FetchDeviceConfig
  BY <1>8 DEF CheckReversionSafety, FetchDeviceConfig, RetryOr, Goto, world
<1>9. CASE Revert \/ RevertUnreported
  <2>1. pc = "revert" /\ UNCHANGED plan
    BY <1>9 DEF Revert, RevertUnreported, results
  <2>2. running \in Config /\ Render(plan) \in Config
    BY <2>1, RenderType DEF IInv, MemoryInv, TypeOK, WorldTypeOK
  <2>3. /\ late' = {}
        /\ \/ pc' = "mark_completed" /\ running' = AfterSet(running, RevertSet)
           \/ pc' \in {"revert", "record_failure"}
    BY <1>9, <2>1, PromptSet DEF Revert, RevertUnreported
  <2>4. AfterSet(running, RevertSet) = Merge(running, Render(plan))
    BY DEF AfterSet, RevertSet, Update
  <2>5. Merge(Merge(running, Render(plan)), Render(plan)) = Merge(running, Render(plan))
    BY <2>2, MergeTwice
  <2>6. QED
    BY <2>1, <2>3, <2>4, <2>5
<1>10. CASE RecordRevertFailure \/ RecordRevertFailureUnreported \/ WorkerRestart
  BY <1>10 DEF RecordRevertFailure, RecordRevertFailureUnreported, WorkerRestart, Goto,
               world, input, results
<1>11. CASE MarkRevertFailed \/ MarkCompleted
  BY <1>11 DEF MarkRevertFailed, MarkCompleted, OverrideStatusAttempt, RetryOr, Goto,
               world, results
<1>12. CASE AuditCompleted
  BY <1>12 DEF AuditCompleted, RetryOr, Goto, world, results
<1>13. CASE UNCHANGED vars
  BY <1>13 DEF vars, world, local, input, results
<1>14. CASE Environment /\ UNCHANGED local
  BY <1>14, EnvironmentStep DEF local, input, results
<1>15. QED
  BY <1>1, <1>2, <1>3, <1>4, <1>5, <1>6, <1>7, <1>8, <1>9, <1>10, <1>11, <1>12, <1>13,
     <1>14
  DEF Next, Progress, RetryForever, Ended

\* The device stays where a counted reversion left it.
LEMMA CountedStep ==
  ASSUME IInv, DeviceInv, CountedInv, [Next]_vars,
         "outOfBand" \notin Faults, "lateSet" \notin Faults
  PROVE  CountedInv'
<1> SUFFICES ASSUME metrics'.success > 0
             PROVE  plan' # Absent /\ (Merge(running, Render(plan)) = running)'
  BY DEF CountedInv
<1>0. /\ metrics \in Metrics
      /\ metrics.success > 0 =>
           pc \in {"revert", "record_failure"} \cup GivenUp \cup Completed
  BY DEF IInv, TypeOK, MetricsInv
<1>1. CASE Apply \/ ApplyUnreported \/ FetchDeviceConfig
  <2>1. pc \in {"apply", "fetch"} /\ metrics'.success = metrics.success
    BY <1>0, <1>1, CountedNext DEF Apply, ApplyUnreported, FetchDeviceConfig, record
  <2>2. QED
    BY <1>0, <2>1 DEF GivenUp, Completed
<1>2. CASE Revert \/ RevertUnreported
  <2>1. pc = "revert" /\ UNCHANGED plan
    BY <1>2 DEF Revert, RevertUnreported, results
  <2>2. running \in Config /\ Render(plan) \in Config /\ plan # Absent
    BY <2>1, RenderType DEF IInv, MemoryInv, TypeOK, WorldTypeOK
  <2>3. AfterSet(running, RevertSet) = Merge(running, Render(plan))
    BY DEF AfterSet, RevertSet, Update
  <2>4. Merge(Merge(running, Render(plan)), Render(plan)) = Merge(running, Render(plan))
    BY <2>2, MergeTwice
  <2>5. \/ running' = AfterSet(running, RevertSet)
        \/ UNCHANGED metrics /\ running' = running
    BY <1>2 DEF Revert, RevertUnreported, SetSucceeds, SetFails
  <2>6. QED
    BY <2>1, <2>2, <2>3, <2>4, <2>5 DEF CountedInv
<1>3. CASE RecordRevertFailure \/ RecordRevertFailureUnreported
  <2>1. metrics'.success = metrics.success /\ UNCHANGED <<running, plan>>
    BY <1>0, <1>3, CountedNext
    DEF RecordRevertFailure, RecordRevertFailureUnreported, world, results
  <2>2. QED
    BY <2>1 DEF CountedInv
<1>4. CASE WorkerRestart
  BY <1>0, <1>4, CountedNext DEF WorkerRestart
<1>5. CASE \/ Start \/ LogAuditEvent \/ Capture \/ StoreBackup \/ CaptureFails \/ MarkActive
           \/ GrantExtension \/ RecordExtension \/ Wait \/ LeaveWindow
           \/ CheckReversionSafety \/ RenderIntendedConfig
           \/ MarkRevertFailed \/ MarkCompleted \/ AuditCompleted
  <2>1. UNCHANGED <<metrics, running, plan>>
    BY <1>5
    DEF Start, LogAuditEvent, Capture, StoreBackup, CaptureFails, ReadFails, MarkActive,
        OverrideStatusAttempt, GrantExtension, RecordExtension, Wait, LeaveWindow,
        CheckReversionSafety, RenderIntendedConfig, MarkRevertFailed, MarkCompleted,
        AuditCompleted, world, local, record, results
  <2>2. QED
    BY <2>1 DEF CountedInv
<1>6. CASE TerminateEarly \/ ExtendWindow \/ Tick \/ UNCHANGED vars
  BY <1>6
  DEF TerminateEarly, ExtendWindow, Tick, vars, world, local, record, results, CountedInv
<1>7. CASE Environment /\ UNCHANGED local
  BY <1>7, EnvironmentStep DEF DeviceInv, CountedInv, local, record, results
<1>8. QED
  BY <1>1, <1>2, <1>3, <1>4, <1>5, <1>6, <1>7 DEF Next, Progress, RetryForever, Ended

\* A reversion is counted as a success only with the intent on the device again,
\* and as a failure only once it was given up, however reports are lost and
\* workers restarted; and exactly once where neither happens.
THEOREM MetricsFollowed ==
  ASSUME "outOfBand" \notin Faults, "lateSet" \notin Faults
  PROVE  Spec => []MetricsTruthful
<1>1. Init => DeviceInv /\ CountedInv
  BY DEF Init, WorldInit, DeviceInv, CountedInv, NoMetrics, Marking, InForce, Waiting,
         Completed
<1>2. IInv /\ DeviceInv /\ CountedInv /\ [Next]_vars => DeviceInv' /\ CountedInv'
  BY DeviceStep, CountedStep
<1>3. IInv /\ CountedInv => MetricsTruthful
  BY DEF IInv, MetricsInv, CountedInv, MetricsTruthful
<1>4. QED
  BY <1>1, <1>2, <1>3, Invariance, PTL DEF Spec

\* The status in Infrahub says of the device what is true of it: reverted or
\* cancelled where the intent has been merged in again, failed where the revert
\* was given up, active in a window only with the override in force.
THEOREM StatusTruthful ==
  ASSUME "outOfBand" \notin Faults, "lateSet" \notin Faults
  PROVE  Spec => []LifecycleTruthful
<1>1. Init => DeviceInv
  BY DEF Init, WorldInit, DeviceInv, Marking, InForce, Waiting, Completed
<1>2. IInv /\ DeviceInv /\ [Next]_vars => DeviceInv'
  BY DeviceStep
<1>3. IInv /\ DeviceInv => LifecycleTruthful
  <2> SUFFICES ASSUME IInv, DeviceInv PROVE LifecycleTruthful
    OBVIOUS
  <2>1. pc \in Unapplied \cup Marking \cup InForce \cup Reverting \cup GivenUp \cup Completed
    BY LabelSet DEF IInv, TypeOK
  <2>2. ovStatus \in {"reverted", "cancelled"} => pc \in Completed
    BY <2>1 DEF IInv, StatusInv
  <2>3. ovStatus = "cancelled" => early
    BY <2>2 DEF IInv, StatusInv
  <2>4. ovStatus = "revert_failed" => pc \in GivenUp
    BY <2>1 DEF IInv, StatusInv
  <2>5. QED
    BY <2>2, <2>3, <2>4
    DEF IInv, StatusInv, MemoryInv, DeviceInv, InForce, LifecycleTruthful
<1>4. QED
  BY <1>1, <1>2, <1>3, Invariance, PTL DEF Spec
=============================================================================
