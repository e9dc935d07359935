---------------------------- MODULE DeviceProofs ----------------------------
(***************************************************************************)
(* Facts about the operators of DeviceConfig and the activities of         *)
(* DeviceActivities, for every set of interfaces, sections and values,     *)
(* every number of attempts and whatever the environment may do.           *)
(***************************************************************************)
EXTENDS DeviceActivities, TLAPS

\* What a merge yields is a configuration.
LEMMA MergeType ==
  ASSUME NEW base \in Config, NEW payload \in Config
  PROVE  Merge(base, payload) \in Config
BY DEF Config, Merge

\* What is rendered from an intent is a configuration.
LEMMA RenderType ==
  ASSUME NEW i \in Intent
  PROVE  Render(i) \in Config
<1>1. ASSUME NEW l \in Leaves, l \in Interfaces \X {"admin-state", "description"},
             i.interfaces[l[1]] # NotRendered
      PROVE  /\ AdminState(i.interfaces[l[1]].enabled) \in Values
             /\ i.interfaces[l[1]].description \in Values
  <2>1. l[1] \in Interfaces
    BY <1>1
  <2>2. i.interfaces[l[1]] \in Interface
    BY <2>1, <1>1 DEF Intent
  <2>3. QED
    BY <2>2 DEF Interface, AdminState, Values
<1>2. QED
  BY <1>1 DEF Render, Config

\* A SET that is executed twice, because its acknowledgement was lost, has the
\* effect of one.
LEMMA MergeTwice ==
  ASSUME NEW base \in Config, NEW payload \in Config
  PROVE  Merge(Merge(base, payload), payload) = Merge(base, payload)
BY DEF Config, Merge

\* The initial configurations and intents are of their types.
LEMMA InputTypes == DeviceConfigs \subseteq Config /\ Intents \subseteq Intent
BY DEF DeviceConfigs, Config, Intents

\* Any drift of a device from an intent rendered from the SoT classifies as
\* critical: where the "interface" section differs the intent has an admin-state
\* in it, and every other section is missing from the intent.  The policy's
\* answer to cosmetic drift, to log it only, is never given.
THEOREM RenderedDriftIsCritical ==
  ASSUME NEW i \in Intents, NEW config \in Config, Render(i) # config
  PROVE  IsCritical(Render(i), config)
<1> DEFINE intended == Render(i)
<1>1. intended \in Config
  BY RenderType, InputTypes
<1>2. PICK l \in Leaves : intended[l] # config[l]
  BY <1>1 DEF Config
<1>3. CASE l \in Interfaces \X {"admin-state", "description"}
  <2>1. "interface" \in DriftedSections(intended, config)
    BY <1>2, <1>3 DEF DriftedSections, Sections, LeavesOf
  <2>2. PICK n \in Interfaces : i.interfaces[n] # NotRendered
    BY DEF Intents
  <2>3. i.interfaces[n] \in Interface
    BY <2>2, InputTypes DEF Intent
  <2>4. <<n, "admin-state">> \in Leaves
    BY <2>2 DEF Leaves
  <2>5. intended[<<n, "admin-state">>] \in {"enable", "disable"}
    BY <2>2, <2>3, <2>4 DEF Render, AdminState, Interface
  <2>6. HasAdminStateKey(intended, "interface")
    BY <2>5, ConfigAssumption DEF HasAdminStateKey, LeavesOf
  <2>7. QED
    BY <2>1, <2>6 DEF IsCritical
<1>4. CASE l \notin Interfaces \X {"admin-state", "description"}
  <2>1. PICK s \in OtherSections : l = <<s, "content">>
    BY <1>4 DEF Leaves
  <2>2. LeavesOf(s) = {l} /\ s \in Sections
    BY <2>1, ConfigAssumption DEF LeavesOf, Sections
  <2>3. s \in DriftedSections(intended, config)
    BY <2>2, <1>2 DEF DriftedSections
  <2>4. intended[l] = Absent
    BY <1>4 DEF Render
  <2>5. ~HasSection(intended, s)
    BY <2>2, <2>4 DEF HasSection
  <2>6. QED
    BY <2>3, <2>5 DEF IsCritical
<1>5. QED
  BY <1>3, <1>4

-----------------------------------------------------------------------------
(* What the activities of every workflow leave of the device and its node. *)

\* What a SET makes of the device, whether it replaces or merges.
LEMMA AfterSetType ==
  ASSUME NEW base \in Config, NEW payload \in Config, NEW replace \in BOOLEAN
  PROVE  AfterSet(base, [replace |-> replace, payload |-> payload]) \in Config
BY MergeType DEF AfterSet

\* A SET that lands late leaves a configuration.
LEMMA LateSetType ==
  ASSUME NEW base \in Config, NEW set \in LateSet
  PROVE  AfterSet(base, set) \in Config
BY MergeType DEF AfterSet, LateSet

\* A device at a base or at the base with a change: the change made again is the
\* change, and the base put back is the base.
LEMMA SetAgain ==
  ASSUME NEW base \in Config, NEW payload \in Config,
         NEW now \in {base, Merge(base, payload)}
  PROVE  /\ AfterSet(now, Update(payload)) = Merge(base, payload)
         /\ AfterSet(now, Restore(base)) = base
<1>1. Merge(now, payload) = Merge(base, payload)
  BY MergeTwice
<1>2. QED
  BY <1>1 DEF AfterSet, Update, Restore

\* The next activity is a label, and its attempts are in bounds.
LEMMA ControlType ==
  ASSUME NEW L, attempt \in 1..MaxAttempts, pc \in L,
         NEW label \in L, Goto(label) \/ RetryOr(label)
  PROVE  pc' \in L /\ attempt' \in 1..MaxAttempts
BY ActivityAssumption DEF Goto, RetryOr

\* An attempt of a SET, failed or not, keeps the types.
LEMMA SetType ==
  ASSUME WorldTypeOK, attempt \in 1..MaxAttempts, NEW L, pc \in L,
         NEW payload \in Config, NEW replace \in BOOLEAN,
         NEW label \in L, NEW handler \in L,
         \/ SetSucceeds([replace |-> replace, payload |-> payload], label)
         \/ SetFails([replace |-> replace, payload |-> payload], handler)
  PROVE  WorldTypeOK' /\ pc' \in L /\ attempt' \in 1..MaxAttempts
<1> DEFINE set == [replace |-> replace, payload |-> payload]
           timedOut == [replace |-> replace, payload |-> payload, attempt |-> attempt]
<1>1. AfterSet(running, set) \in Config
  BY AfterSetType DEF WorldTypeOK
<1>2. timedOut \in LateSet
  BY DEF LateSet
<1>3. WorldTypeOK'
  BY <1>1, <1>2 DEF SetSucceeds, SetFails, WorldTypeOK
<1>4. Goto(label) \/ RetryOr(handler)
  BY DEF SetSucceeds, SetFails
<1>5. QED
  BY <1>3, <1>4, ControlType

\* The environment keeps the types, and the workflow where it is.
LEMMA EnvironmentType ==
  ASSUME WorldTypeOK, Environment
  PROVE  WorldTypeOK' /\ UNCHANGED <<pc, attempt>>
<1> USE DEF WorldTypeOK
<1>1. CASE LateSetLands
  BY <1>1, LateSetType DEF LateSetLands
<1>2. CASE OutOfBandEdit
  BY <1>2, InputTypes DEF OutOfBandEdit
<1>3. CASE IntentEdit
  BY <1>3, InputTypes DEF IntentEdit
<1>4. CASE StatusEdit
  BY <1>4 DEF StatusEdit
<1>5. QED
  BY <1>1, <1>2, <1>3, <1>4 DEF Environment

\* What the environment does without the engineer who configures the device by
\* hand and the operator who sets its status: SETs land late, the intent changes.
LEMMA EnvironmentStep ==
  ASSUME Environment, "outOfBand" \notin Faults
  PROVE  /\ UNCHANGED pc
         /\ late' \subseteq late
         /\ \/ UNCHANGED running
            \/ \E set \in late : running' = AfterSet(running, set)
         /\ "statusEdit" \notin Faults => UNCHANGED status
BY DEF Environment, LateSetLands, OutOfBandEdit, IntentEdit, StatusEdit
=============================================================================
