-------------------------- MODULE DeviceActivities --------------------------
(***************************************************************************)
(* What every device workflow runs on: one device, its node in Infrahub,   *)
(* and the Temporal activities that read and write them.                   *)
(*                                                                         *)
(* Temporal keeps the state of a workflow durable and runs an activity at  *)
(* least once.  An attempt succeeds or fails; with device_retry_policy the *)
(* third failure raises in the workflow, without a policy Temporal retries *)
(* until an attempt succeeds.  A crash of the worker is a failed attempt;  *)
(* that the metrics in its memory are lost is a step of its own.           *)
(* A failed SET may have changed the device (the acknowledgement was lost) *)
(* or may still change it: it runs in a thread that neither the timeout of *)
(* the activity nor its cancellation stops.                                *)
(***************************************************************************)
EXTENDS DeviceConfig

CONSTANTS MaxAttempts,  \* maximum_attempts of device_retry_policy
          Faults        \* what the environment may do, see FaultKinds

FaultKinds == {"ackLost",    \* a failed attempt has taken effect
               "reportLost", \* an attempt was completed, Temporal not told
               "lateSet",    \* a timed-out SET reaches the device afterwards
               "outOfBand",  \* an engineer configures the device by hand
               "intentEdit", \* the intent in Infrahub is edited
               "statusEdit", \* an operator sets the status in Infrahub
               "workerRestart"} \* the worker's memory is lost (the metrics)

ASSUME ActivityAssumption ==
  /\ MaxAttempts \in Nat \ {0}
  /\ Faults \subseteq FaultKinds

VARIABLES running,  \* the configuration of the device
          late,     \* the timed-out SETs that have not reached the device yet
          intent,   \* what Infrahub holds for the device: its interfaces
          status,   \* ... and its status
          pc,       \* the activity the workflow awaits, or how it ended
          attempt   \* the attempt of that activity

world == <<running, late, intent, status>>

Statuses == {"active", "provisioning", "maintenance", "drained"}

ASSUME StatusAssumption == Absent \notin Statuses

LateSet == [replace : BOOLEAN, payload : Config, attempt : 1..MaxAttempts]

WorldTypeOK ==
  /\ running \in Config
  /\ late \subseteq LateSet
  /\ intent \in Intent
  /\ status \in Statuses

WorldInit ==
  /\ running \in DeviceConfigs
  /\ late = {}
  /\ intent \in Intents
  /\ status \in Statuses

-----------------------------------------------------------------------------
(* Control: the workflow goes on to the next activity, or retries.         *)

Goto(label) == pc' = label /\ attempt' = 1

\* Mutants of RetryOr: one attempt too many, and failures that never raise.
RetryOrOnceMore(handler) ==
  IF attempt <= MaxAttempts
  THEN attempt' = attempt + 1 /\ UNCHANGED pc
  ELSE Goto(handler)

RetryOrNever(handler) == UNCHANGED <<pc, attempt>>

\* device_retry_policy: the last failed attempt raises ActivityError, which
\* takes the workflow to its handler.
RetryOr(handler) ==
  IF attempt < MaxAttempts
  THEN attempt' = attempt + 1 /\ UNCHANGED pc
  ELSE Goto(handler)

-----------------------------------------------------------------------------
(* deploy_config and rollback_config: one gNMI SET.                        *)

\* Mutant of Update: a deployment that replaces the configuration.
UpdateReplacing(config) == [replace |-> TRUE, payload |-> config]

Update(config)  == [replace |-> FALSE, payload |-> config]
Restore(config) == [replace |-> TRUE, payload |-> config]

SetSucceeds(set, next) ==
  /\ running' = AfterSet(running, set)
  /\ Goto(next)
  /\ UNCHANGED <<late, intent, status>>

\* The device was not reached or refused, its acknowledgement was lost, or
\* the attempt timed out with the SET still in its thread.
SetFails(set, handler) ==
  /\ \/ UNCHANGED <<running, late>>
     \/ /\ "ackLost" \in Faults
        /\ running' = AfterSet(running, set)
        /\ UNCHANGED late
     \/ /\ "lateSet" \in Faults
        /\ late' = late \cup {[replace |-> set.replace,
                               payload |-> set.payload,
                               attempt |-> attempt]}
        /\ UNCHANGED running
  /\ RetryOr(handler)
  /\ UNCHANGED <<intent, status>>

\* Activities that change neither the device nor Infrahub.
ReadFails(handler) == RetryOr(handler) /\ UNCHANGED world

\* update_device_status without a retry policy.
StatusWritten(new, next) ==
  /\ status' = new
  /\ Goto(next)
  /\ UNCHANGED <<running, late, intent>>

\* The mutation took effect, its answer was lost: Temporal runs it again.
StatusWrittenUnacked(new) ==
  /\ "ackLost" \in Faults
  /\ status' = new
  /\ UNCHANGED <<running, late, intent, pc, attempt>>

\* update_device_status with device_retry_policy.
StatusWriteFails(new, handler) ==
  /\ \/ UNCHANGED status
     \/ "ackLost" \in Faults /\ status' = new
  /\ RetryOr(handler)
  /\ UNCHANGED <<running, late, intent>>

-----------------------------------------------------------------------------
(* The environment.                                                        *)

LateSetLands ==
  \E set \in late :
    /\ running' = AfterSet(running, set)
    /\ late' = late \ {set}
    /\ UNCHANGED <<intent, status, pc, attempt>>

OutOfBandEdit ==
  /\ "outOfBand" \in Faults
  /\ running' \in DeviceConfigs
  /\ UNCHANGED <<late, intent, status, pc, attempt>>

IntentEdit ==
  /\ "intentEdit" \in Faults
  /\ intent' \in Intents
  /\ UNCHANGED <<running, late, status, pc, attempt>>

StatusEdit ==
  /\ "statusEdit" \in Faults
  /\ status' \in Statuses
  /\ UNCHANGED <<running, late, intent, pc, attempt>>

Environment == LateSetLands \/ OutOfBandEdit \/ IntentEdit \/ StatusEdit
=============================================================================
