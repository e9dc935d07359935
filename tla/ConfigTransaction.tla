------------------------- MODULE ConfigTransaction -------------------------
(***************************************************************************)
(* What a change workflow promises about the device it changes, as a       *)
(* transaction on one configuration: it is untouched, or it is being       *)
(* changed from a base to a target and at no time holds anything else, and *)
(* the transaction ends changed, restored to exactly the base, or          *)
(* unresolved, at one of the two.                                          *)
(***************************************************************************)
CONSTANTS Config,  \* the configurations of a device
          Nothing  \* base and target before the transaction has begun

VARIABLES config, phase, base, target

vars == <<config, phase, base, target>>

Init ==
  /\ config \in Config
  /\ phase = "untouched"
  /\ base = Nothing
  /\ target = Nothing

Begin ==
  /\ phase = "untouched"
  /\ phase' = "changing"
  /\ base' = config
  /\ target' \in Config
  /\ UNCHANGED config

\* A push that may be repeated: its acknowledgement can get lost.
Push ==
  /\ phase = "changing"
  /\ config' = target
  /\ UNCHANGED <<phase, base, target>>

Commit ==
  /\ phase = "changing"
  /\ config' = target
  /\ phase' = "changed"
  /\ UNCHANGED <<base, target>>

\* A failed change, or one applied for a limited time, is taken back; the push
\* that failed may have reached the device.
TakeBack ==
  /\ phase \in {"changing", "changed"}
  /\ phase' = "restoring"
  /\ config' \in {config, target}
  /\ UNCHANGED <<base, target>>

Undo ==
  /\ phase = "restoring"
  /\ config' = base
  /\ phase' \in {"restoring", "restored"}
  /\ UNCHANGED <<base, target>>

Abandon ==
  /\ phase \in {"changing", "restoring"}
  /\ config' \in {config, IF phase = "changing" THEN target ELSE base}
  /\ phase' = "unresolved"
  /\ UNCHANGED <<base, target>>

Next == Begin \/ Push \/ Commit \/ TakeBack \/ Undo \/ Abandon

Spec == Init /\ [][Next]_vars
=============================================================================
