---------------------------- MODULE DeviceConfig ----------------------------
(***************************************************************************)
(* The configuration of one SR Linux device and the pure functions the     *)
(* workflows compute on it: gNMI SET in its merge and replace forms, the   *)
(* rendering of the intent held in Infrahub (the source of truth, "SoT"),  *)
(* and the drift classification and policy of DriftRemediationWorkflow.    *)
(*                                                                         *)
(* A configuration is a function from writable leaves to values.  The      *)
(* top-level JSON key "interface" holds two leaves for each interface,     *)
(* every other key (system, network-instance, ...) is one opaque leaf.     *)
(* The order of a JSON list is not modelled.                               *)
(***************************************************************************)
EXTENDS Naturals, FiniteSets

CONSTANTS Interfaces,     \* names of fabric and loopback interfaces
          OtherSections,  \* top-level keys of a device besides "interface"
          Descriptions,   \* interface descriptions
          OtherValues,    \* contents of the other sections
          Absent,         \* the value of a leaf a configuration does not have
          NotRendered,    \* an interface the SoT lacks, or of another role
          Defects         \* what may be wrong with the data of the SoT

ASSUME ConfigAssumption ==
  /\ Interfaces \cap OtherSections = {}
  /\ "interface" \notin OtherSections
  /\ Absent \notin {"enable", "disable"} \cup Descriptions \cup OtherValues
  /\ NotRendered \notin [enabled : BOOLEAN, description : Descriptions]
  /\ Defects \subseteq {"none", "unfetchable", "unrenderable", "unhygienic"}

Leaves == (Interfaces \X {"admin-state", "description"})
          \cup (OtherSections \X {"content"})

Values == {"enable", "disable"} \cup Descriptions \cup OtherValues

Config == [Leaves -> Values \cup {Absent}]

-----------------------------------------------------------------------------
(* gNMI SET on path "/": deploy_config(replace=False | True)               *)

\* update: the leaves of the payload overwrite, nothing is removed.
Merge(base, payload) ==
  [l \in Leaves |-> IF payload[l] = Absent THEN base[l] ELSE payload[l]]

\* The configuration a device has after it executed a SET.
AfterSet(base, set) ==
  IF set.replace THEN set.payload ELSE Merge(base, set.payload)

-----------------------------------------------------------------------------
(* The SoT's interface data and the JSON rendered from it.                 *)

\* A defect of the SoT is one of: "unfetchable", the device is unknown or has
\* no loopback address, so that get_device_config raises; "unrenderable", a
\* text the template does not escape (a quote in a description), so that
\* json.loads of the rendering raises; "unhygienic", an interface name, prefix,
\* ASN or peer the hygiene checker refuses; or "none".
Interface == [enabled : BOOLEAN, description : Descriptions]

Intent == [interfaces : [Interfaces -> Interface \cup {NotRendered}],
           defect     : Defects]

ASSUME SentinelAssumption == Absent \notin Config /\ Absent \notin Intent

AdminState(enabled) == IF enabled THEN "enable" ELSE "disable"

\* generate_interface_config: every rendered interface has an admin-state.
Render(intent) ==
  [l \in Leaves |->
     IF \/ l \notin Interfaces \X {"admin-state", "description"}
        \/ intent.interfaces[l[1]] = NotRendered
     THEN Absent
     ELSE IF l[2] = "admin-state"
          THEN AdminState(intent.interfaces[l[1]].enabled)
          ELSE intent.interfaces[l[1]].description]

Fetchable(intent) == intent.defect # "unfetchable"

Renders(intent) == intent.defect # "unrenderable"

PassesHygiene(intent) == intent.defect # "unhygienic"

\* The part of validate_interfaces that depends on configuration: every
\* intended interface exists and has the intended admin state.
AdminStatesMatch(running, intent) ==
  \A i \in Interfaces :
    intent.interfaces[i] # NotRendered =>
      running[<<i, "admin-state">>] = AdminState(intent.interfaces[i].enabled)

-----------------------------------------------------------------------------
(* classify_drift and decide_drift_action.                                 *)

Sections == {"interface"} \cup OtherSections

LeavesOf(section) ==
  IF section = "interface"
  THEN Interfaces \X {"admin-state", "description"}
  ELSE {<<section, "content">>}

HasSection(config, section) == \E l \in LeavesOf(section) : config[l] # Absent

HasAdminStateKey(config, section) ==
  \E l \in LeavesOf(section) : l[2] = "admin-state" /\ config[l] # Absent

DriftedSections(intended, running) ==
  {s \in Sections : \E l \in LeavesOf(s) : intended[l] # running[l]}

IsCritical(intended, running) ==
  \E s \in DriftedSections(intended, running) :
    \/ ~HasSection(intended, s)
    \/ ~HasSection(running, s)
    \/ HasAdminStateKey(intended, s)
    \/ HasAdminStateKey(running, s)

ClassifyDrift(intended, running) ==
  CASE intended = running             -> "none"
    [] /\ intended # running
       /\ IsCritical(intended, running)  -> "critical"
    [] /\ intended # running
       /\ ~IsCritical(intended, running) -> "cosmetic"

\* Mutant of DecideDriftAction: the severity is looked at before the status.
DecideBySeverityFirst(severity, deviceStatus) ==
  CASE severity = "none" -> "none"
    [] severity = "critical" -> "remediate"
    [] severity = "cosmetic" /\ deviceStatus = "maintenance" -> "suppress"
    [] severity = "cosmetic" /\ deviceStatus # "maintenance" -> "log_only"

DecideDriftAction(severity, deviceStatus) ==
  CASE severity = "none" -> "none"
    [] severity # "none" /\ deviceStatus = "maintenance" -> "suppress"
    [] severity = "cosmetic" /\ deviceStatus # "maintenance" -> "log_only"
    [] severity = "critical" /\ deviceStatus # "maintenance" -> "remediate"

-----------------------------------------------------------------------------
(* Inputs the program can meet: whole interfaces, at least one of them     *)
(* intended (get_device_config refuses a device without a loopback).       *)

DeviceConfigs ==
  {c \in [Leaves -> Values \cup {Absent}] :
     /\ \A s \in OtherSections : c[<<s, "content">>] \in OtherValues \cup {Absent}
     /\ \A i \in Interfaces :
          \/ c[<<i, "admin-state">>] = Absent /\ c[<<i, "description">>] = Absent
          \/ /\ c[<<i, "admin-state">>] \in {"enable", "disable"}
             /\ c[<<i, "description">>] \in Descriptions}

Intents ==
  {s \in Intent : \E i \in Interfaces : s.interfaces[i] # NotRendered}
=============================================================================
