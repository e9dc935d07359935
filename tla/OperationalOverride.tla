------------------------ MODULE OperationalOverride ------------------------
(***************************************************************************)
(* OperationalOverrideWorkflow: a sanctioned deviation is merged into the  *)
(* device for a window of time that signals can extend or cut short, and   *)
(* then the current intent is merged over it.  Time is counted in units    *)
(* since applied_at, which is all the workflow compares.                   *)
(***************************************************************************)
EXTENDS DeviceActivities, Integers

CONSTANTS MaxDuration,   \* bounds the window an operator asks for
          MaxExtensions, \* bounds the extend_window signals sent
          MaxMiscounts   \* bounds the unreported attempts that counted, and the
                         \* restarts of the worker

ASSUME OverrideAssumption ==
  MaxDuration \in Nat /\ MaxExtensions \in Nat /\ MaxMiscounts \in Nat

VARIABLES override,   \* override_config_json
          duration,   \* duration_seconds
          original,   \* original_state, Absent until it is captured
          plan,       \* device_data, Absent until it is read
          ovStatus,   \* status of the OperationalOverride node in Infrahub
          elapsed,    \* now - applied_at
          window,     \* end_time - applied_at
          pending,    \* the extensions signalled and not yet granted
          terminated, \* terminate_early was signalled
          early,      \* ... before the wait for expiry was over
          safe,       \* the verdict of the reversion safety check
          metrics,    \* the override gauge and the two revert counters, in
                      \* the memory of the worker
          miscounted, \* history: how often an attempt that had counted was not
                      \* reported, or the worker was restarted
          audit,      \* the kinds of the audit events logged
          sent        \* extensions signalled while the window was open

input == <<override, duration>>
clock == <<elapsed, window>>
signals == <<pending, terminated, sent>>
record == <<ovStatus, metrics, miscounted, audit>>
results == <<original, plan, early, safe>>
local == <<input, clock, signals, record, results>>
vars == <<world, pc, attempt, local>>

Closed == {"rejected", "capture_failed", "apply_failed", "mark_active_failed",
           "safety_error", "unsafe", "revert_failed", "reverted", "cancelled"}

\* log_audit_event without a retry policy, and what comes next.
AuditStep ==
  [audit_initiated     |-> [event |-> "OVERRIDE_INITIATED", next |-> "capture"],
   audit_apply_failed  |-> [event |-> "OVERRIDE_APPLY_FAILED", next |-> "apply_failed"],
   audit_applied       |-> [event |-> "OVERRIDE_APPLIED", next |-> "window"],
   audit_extended      |-> [event |-> "OVERRIDE_EXTENDED", next |-> "drain"],
   audit_terminated    |-> [event |-> "OVERRIDE_TERMINATED_EARLY",
                            next |-> "check_safety"],
   audit_unsafe        |-> [event |-> "OVERRIDE_REVERT_UNSAFE", next |-> "unsafe"],
   audit_revert_failed |-> [event |-> "OVERRIDE_REVERT_FAILED",
                            next |-> "revert_failed"]]

AuditLabels == DOMAIN AuditStep

Unlimited == AuditLabels
             \cup {"record_extension", "fetch", "render", "record_failure"}

\* The wait for expiry, from its first look at the signals on.
Waiting == {"window", "drain", "record_extension", "audit_extended"}

BeforeWindow == {"start", "audit_initiated", "capture", "store_backup", "apply",
                 "mark_active", "audit_applied"}

Labels == Closed \cup Unlimited \cup Waiting \cup BeforeWindow
          \cup {"check_safety", "revert", "mark_revert_failed",
                "mark_completed", "audit_completed"}

Events == {"OVERRIDE_INITIATED", "OVERRIDE_APPLY_FAILED", "OVERRIDE_APPLIED",
           "OVERRIDE_EXTENDED", "OVERRIDE_TERMINATED_EARLY", "OVERRIDE_REVERT_UNSAFE",
           "OVERRIDE_REVERT_FAILED", "OVERRIDE_CANCELLED", "OVERRIDE_REVERTED"}

OverrideStatuses == {"pending", "active", "reverted", "revert_failed", "cancelled"}

\* How far the override has come.
Unapplied  == {"start", "rejected", "audit_initiated", "capture", "capture_failed",
               "store_backup", "apply", "audit_apply_failed", "apply_failed"}
Marking    == {"mark_active", "mark_active_failed"}
InForce    == {"audit_applied"} \cup Waiting
Reverting  == {"audit_terminated", "check_safety", "safety_error", "fetch", "render",
               "revert", "record_failure"}
GivenUp    == {"mark_revert_failed", "audit_unsafe", "unsafe", "audit_revert_failed",
               "revert_failed"}
Completed  == {"mark_completed", "audit_completed", "reverted", "cancelled"}

\* The gauge can fall below zero: an attempt to revert that ran to its end
\* counts, and what it takes from may have been lost with a worker.
Metrics == [active : Int, success : Nat, failure : Nat]

\* REGISTRY as a worker creates it.
NoMetrics == [active |-> 0, success |-> 0, failure |-> 0]

\* The longest window the signals can make; the clock stops there.
MaxWindow == MaxDuration + MaxExtensions

TypeOK ==
  /\ WorldTypeOK
  /\ pc \in Labels
  /\ attempt \in 1..MaxAttempts
  /\ override \in Config /\ duration \in 0..MaxDuration
  /\ original \in Config \cup {Absent} /\ plan \in Intent \cup {Absent}
  /\ ovStatus \in OverrideStatuses
  /\ elapsed \in 0..MaxWindow /\ window \in 0..MaxWindow
  /\ pending \in 0..MaxExtensions /\ sent \in 0..MaxExtensions
  /\ terminated \in BOOLEAN /\ early \in BOOLEAN /\ safe \in BOOLEAN
  /\ metrics \in Metrics /\ miscounted \in 0..MaxMiscounts
  /\ audit \subseteq Events

Init ==
  /\ WorldInit
  /\ pc = "start"
  /\ attempt = 1
  /\ override \in DeviceConfigs
  /\ duration \in 0..MaxDuration
  /\ original = Absent /\ plan = Absent
  /\ ovStatus = "pending"
  /\ elapsed = 0 /\ window = 0
  /\ pending = 0 /\ sent = 0
  /\ terminated = FALSE /\ early = FALSE /\ safe = TRUE
  /\ metrics = NoMetrics /\ miscounted = 0
  /\ audit = {}

-----------------------------------------------------------------------------
(* Up to the window.                                                       *)

Start ==
  /\ pc = "start"
  /\ Goto(IF duration <= 0 THEN "rejected" ELSE "audit_initiated")
  /\ UNCHANGED <<world, local>>

LogAuditEvent ==
  /\ pc \in AuditLabels
  /\ audit' = audit \cup {AuditStep[pc].event}
  /\ Goto(AuditStep[pc].next)
  /\ UNCHANGED <<world, input, clock, signals, ovStatus, metrics, miscounted, results>>

Capture ==
  /\ pc = "capture"
  /\ original' = running
  /\ Goto("store_backup")
  /\ UNCHANGED <<world, input, clock, signals, record, plan, early, safe>>

StoreBackup ==
  /\ pc = "store_backup"
  /\ Goto("apply")
  /\ UNCHANGED <<world, local>>

CaptureFails ==
  /\ pc \in {"capture", "store_backup"}
  /\ ReadFails("capture_failed")
  /\ UNCHANGED local

\* apply_override_config: the gauge counts a SET that was acknowledged.
Apply ==
  /\ pc = "apply"
  /\ \/ /\ SetSucceeds(Update(override), "mark_active")
        /\ metrics' = [metrics EXCEPT !.active = @ + 1]
     \/ /\ SetFails(Update(override), "audit_apply_failed")
        /\ UNCHANGED metrics
  /\ UNCHANGED <<input, clock, signals, ovStatus, miscounted, audit, results>>

\* From here on the metrics may be off.
Miscount == miscounted < MaxMiscounts /\ miscounted' = miscounted + 1

\* The attempt ran to its end and Temporal did not hear of it: it runs again.
ApplyUnreported ==
  /\ "reportLost" \in Faults
  /\ pc = "apply"
  /\ running' = AfterSet(running, Update(override))
  /\ Miscount
  /\ metrics' = [metrics EXCEPT !.active = @ + 1]
  /\ RetryOr("audit_apply_failed")
  /\ UNCHANGED <<late, intent, status>>
  /\ UNCHANGED <<input, clock, signals, ovStatus, audit, results>>

\* update_override_status(name, new) under device_retry_policy.
OverrideStatusAttempt(new, next, handler) ==
  /\ \/ ovStatus' = new /\ Goto(next)
     \/ UNCHANGED ovStatus /\ RetryOr(handler)
     \/ "ackLost" \in Faults /\ ovStatus' = new /\ RetryOr(handler)
  /\ UNCHANGED <<world, input, signals, metrics, miscounted, audit, results>>

\* Mutant of MarkActive: a failed update is passed over like the final one.
MarkActiveBestEffort ==
  /\ pc = "mark_active"
  /\ OverrideStatusAttempt("active", "audit_applied", "audit_applied")
  /\ elapsed' = 0
  /\ window' = duration

\* Nothing handles the ActivityError of this call: it closes the run.
MarkActive ==
  /\ pc = "mark_active"
  /\ OverrideStatusAttempt("active", "audit_applied", "mark_active_failed")
  /\ elapsed' = 0
  /\ window' = duration

-----------------------------------------------------------------------------
(* _wait_for_expiry_or_signal, and the signals.                            *)

\* The head of pending_extensions, if the loop gets to look at it: the outer
\* loop looks at terminated first, the inner one drains all that is pending.
GrantExtension ==
  /\ \/ pc = "window" /\ ~terminated
     \/ pc = "drain"
  /\ pending > 0
  /\ pending' = pending - 1
  /\ window' = window + 1
  /\ Goto("record_extension")
  /\ UNCHANGED <<world, input, elapsed, terminated, sent, record, results>>

RecordExtension ==
  /\ pc = "record_extension"
  /\ Goto("audit_extended")
  /\ UNCHANGED <<world, local>>

\* Everything is drained and time remains: wait for a signal or the timer.
Wait ==
  /\ pc = "drain"
  /\ pending = 0
  /\ elapsed < window
  /\ Goto("window")
  /\ UNCHANGED <<world, local>>

\* Mutant of LeaveWindow: when the timer fires, the queue is not looked at.
LeaveWindowOnTimer ==
  /\ \/ pc = "window" /\ terminated
     \/ pc \in {"window", "drain"} /\ elapsed >= window
  /\ early' = terminated
  /\ Goto(IF terminated THEN "audit_terminated" ELSE "check_safety")
  /\ UNCHANGED <<world, input, clock, signals, record, original, plan, safe>>

LeaveWindow ==
  /\ \/ pc = "window" /\ terminated
     \/ pc \in {"window", "drain"} /\ pending = 0 /\ elapsed >= window
  /\ early' = terminated
  /\ Goto(IF terminated THEN "audit_terminated" ELSE "check_safety")
  /\ UNCHANGED <<world, input, clock, signals, record, original, plan, safe>>

TerminateEarly ==
  /\ pc \notin Closed
  /\ terminated' = TRUE
  /\ UNCHANGED <<world, pc, attempt, input, clock, pending, sent, record, results>>

\* A signal with a non-positive number of seconds is ignored; one that arrives
\* after the wait is queued and never looked at again, and is no step here.
ExtendWindow ==
  /\ pc \in BeforeWindow \cup Waiting
  /\ sent < MaxExtensions
  /\ pending' = pending + 1
  /\ sent' = sent + 1
  /\ UNCHANGED <<world, pc, attempt, input, clock, terminated, record, results>>

\* Time passes from applied_at on; after the window nothing compares it.
Tick ==
  /\ pc \in Waiting \cup {"audit_applied"}
  /\ elapsed < MaxWindow
  /\ elapsed' = elapsed + 1
  /\ UNCHANGED <<world, pc, attempt, input, window, signals, record, results>>

-----------------------------------------------------------------------------
(* Reversion.                                                              *)

\* The verdict is that of the BGP sessions; an attempt can also time out, and
\* nothing handles the ActivityError of the last one.
CheckReversionSafety ==
  /\ pc = "check_safety"
  /\ \/ /\ safe' \in BOOLEAN
        /\ Goto(IF safe' THEN "fetch" ELSE "record_failure")
     \/ UNCHANGED safe /\ RetryOr("safety_error")
  /\ UNCHANGED <<world, input, clock, signals, record, original, plan, early>>

FetchDeviceConfig ==
  /\ pc = "fetch"
  /\ Fetchable(intent)
  /\ plan' = intent
  /\ Goto("render")
  /\ UNCHANGED <<world, input, clock, signals, record, original, early, safe>>

RenderIntendedConfig ==
  /\ pc = "render"
  /\ Renders(plan)
  /\ Goto("revert")
  /\ UNCHANGED <<world, local>>

RevertSet == Update(Render(plan))

Reverted == [metrics EXCEPT !.active = @ - 1, !.success = @ + 1]

\* Mutants of Revert: an override that could not be reverted is completed, or
\* is reverted again with the intent of that time.
RevertStartingOver ==
  /\ pc = "revert"
  /\ \/ SetSucceeds(RevertSet, "mark_completed") /\ metrics' = Reverted
     \/ SetFails(RevertSet, "fetch") /\ UNCHANGED metrics
  /\ UNCHANGED <<input, clock, signals, ovStatus, miscounted, audit, results>>

RevertIgnoringFailure ==
  /\ pc = "revert"
  /\ \/ SetSucceeds(RevertSet, "mark_completed") /\ metrics' = Reverted
     \/ SetFails(RevertSet, "mark_completed") /\ UNCHANGED metrics
  /\ UNCHANGED <<input, clock, signals, ovStatus, miscounted, audit, results>>

\* Mutant of Revert: every attempt is counted, the failed ones included.
RevertCountingAttempts ==
  /\ pc = "revert"
  /\ metrics' = Reverted
  /\ \/ SetSucceeds(RevertSet, "mark_completed")
     \/ SetFails(RevertSet, "record_failure")
  /\ UNCHANGED <<input, clock, signals, ovStatus, miscounted, audit, results>>

Revert ==
  /\ pc = "revert"
  /\ \/ SetSucceeds(RevertSet, "mark_completed") /\ metrics' = Reverted
     \/ SetFails(RevertSet, "record_failure") /\ UNCHANGED metrics
  /\ UNCHANGED <<input, clock, signals, ovStatus, miscounted, audit, results>>

RevertUnreported ==
  /\ "reportLost" \in Faults
  /\ pc = "revert"
  /\ running' = AfterSet(running, RevertSet)
  /\ Miscount
  /\ metrics' = Reverted
  /\ RetryOr("record_failure")
  /\ UNCHANGED <<late, intent, status>>
  /\ UNCHANGED <<input, clock, signals, ovStatus, audit, results>>

Failed == [metrics EXCEPT !.active = @ - 1, !.failure = @ + 1]

\* Mutant of RecordRevertFailure: the gauge is not decremented.
RecordRevertFailureOnly ==
  /\ pc = "record_failure"
  /\ metrics' = [metrics EXCEPT !.failure = @ + 1]
  /\ Goto("mark_revert_failed")
  /\ UNCHANGED <<world, input, clock, signals, ovStatus, miscounted, audit, results>>

\* _mark_revert_failed, for an unsafe device and for a revert that failed.
RecordRevertFailure ==
  /\ pc = "record_failure"
  /\ metrics' = Failed
  /\ Goto("mark_revert_failed")
  /\ UNCHANGED <<world, input, clock, signals, ovStatus, miscounted, audit, results>>

\* It has no retry policy: Temporal runs it again until an end is reported.
RecordRevertFailureUnreported ==
  /\ "reportLost" \in Faults
  /\ pc = "record_failure"
  /\ Miscount
  /\ metrics' = Failed
  /\ UNCHANGED <<world, pc, attempt, input, clock, signals, ovStatus, audit, results>>

MarkRevertFailed ==
  /\ pc = "mark_revert_failed"
  /\ LET next == IF safe THEN "audit_revert_failed" ELSE "audit_unsafe"
     IN OverrideStatusAttempt("revert_failed", next, next)
  /\ UNCHANGED clock

\* The device is converged: bookkeeping that fails is passed over.
MarkCompleted ==
  /\ pc = "mark_completed"
  /\ OverrideStatusAttempt(IF early THEN "cancelled" ELSE "reverted",
                           "audit_completed", "audit_completed")
  /\ UNCHANGED clock

AuditCompleted ==
  /\ pc = "audit_completed"
  /\ LET event == IF early THEN "OVERRIDE_CANCELLED" ELSE "OVERRIDE_REVERTED"
         end   == IF early THEN "cancelled" ELSE "reverted"
     IN \/ audit' = audit \cup {event} /\ Goto(end)
        \/ UNCHANGED audit /\ RetryOr(end)
        \/ "ackLost" \in Faults /\ audit' = audit \cup {event} /\ RetryOr(end)
  /\ UNCHANGED <<world, input, clock, signals, ovStatus, metrics, miscounted, results>>

\* The worker process is replaced: Temporal keeps the run, its timers and its
\* signals, and nobody keeps the metrics.  The attempt it was at fails as any other.
WorkerRestart ==
  /\ "workerRestart" \in Faults
  /\ metrics # NoMetrics
  /\ Miscount
  /\ metrics' = NoMetrics
  /\ UNCHANGED <<world, pc, attempt, input, clock, signals, ovStatus, audit, results>>

RetryForever == pc \in Unlimited /\ UNCHANGED vars

Ended == pc \in Closed /\ UNCHANGED vars

-----------------------------------------------------------------------------
Progress ==
  \/ Start \/ LogAuditEvent \/ Capture \/ StoreBackup \/ CaptureFails
  \/ Apply \/ MarkActive
  \/ GrantExtension \/ RecordExtension \/ Wait \/ LeaveWindow
  \/ CheckReversionSafety \/ FetchDeviceConfig \/ RenderIntendedConfig
  \/ Revert \/ RecordRevertFailure \/ MarkRevertFailed
  \/ MarkCompleted \/ AuditCompleted

Next ==
  \/ Progress
  \/ ApplyUnreported
  \/ RevertUnreported
  \/ RecordRevertFailureUnreported
  \/ WorkerRestart
  \/ TerminateEarly
  \/ ExtendWindow
  \/ Tick
  \/ RetryForever
  \/ Ended
  \/ Environment /\ UNCHANGED local

Spec == Init /\ [][Next]_vars

\* As NetworkChange; and time passes.
FairSpec == Spec /\ WF_vars(Progress) /\ WF_vars(Tick)
-----------------------------------------------------------------------------
(* Properties.                                                             *)

AfterWindow == Reverting \cup GivenUp \cup Completed

\* The override is not taken back before the window it was granted is over,
\* every extension signalled until then included, unless its early termination
\* was asked for: no signal is lost between the loop's looks at the queue.
WindowHonoured ==
  pc \in AfterWindow /\ ~early => window = duration + sent /\ elapsed >= window

\* The status in Infrahub follows the life of an override, and an end of it is
\* recorded only when it has happened on the device: the intent was merged in
\* again, or the revert was given up.  While the window is open, the override
\* is active in Infrahub and in force on the device.
LifecycleTruthful ==
  /\ ovStatus \in {"reverted", "cancelled"} =>
       /\ plan # Absent
       /\ Merge(running, Render(plan)) = running
  /\ ovStatus = "cancelled" => early
  /\ ovStatus = "revert_failed" => pc \in GivenUp
  /\ pc \in Waiting => ovStatus = "active" /\ running = Merge(original, override)

\* Statuses change along the lifecycle, and a final one is never left.
Lifecycle ==
  [][ovStatus' # ovStatus =>
       \/ ovStatus = "pending" /\ ovStatus' = "active"
       \/ ovStatus = "active" /\ ovStatus' \in {"reverted", "cancelled", "revert_failed"}
    ]_vars

\* A revert is counted as a success only with the intent merged in again, and as
\* a failure only once it was given up, whatever attempts were repeated; and it is
\* counted more than once only where an attempt that counted was not reported.  As
\* long as all were and the worker lived, the gauge and the counters say where the
\* override stands: it is counted when it is in force, and moved once, to one of
\* the counters, when its reversion is settled.
MetricsTruthful ==
  /\ metrics.success > 0 => /\ plan # Absent
                            /\ Merge(running, Render(plan)) = running
  /\ metrics.failure > 0 => pc \in {"record_failure"} \cup GivenUp
  /\ metrics.success + metrics.failure <= 1 + miscounted
  /\ miscounted = 0 =>
       /\ metrics.active = IF pc \in Marking \cup InForce \cup Reverting THEN 1 ELSE 0
       /\ metrics.success = IF pc \in Completed THEN 1 ELSE 0
       /\ metrics.failure = IF pc \in GivenUp THEN 1 ELSE 0

\* Every run closes, and with it releases the device.
EventuallyCloses == <>(pc \in Closed)
=============================================================================
