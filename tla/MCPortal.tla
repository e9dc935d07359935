------------------------------ MODULE MCPortal ------------------------------
(***************************************************************************)
(* Portal for TLC: two operators and two types of workflow on one device,  *)
(* another name of it, another device, a viewer, a blank host and an       *)
(* invalid body.                                                           *)
(***************************************************************************)
EXTENDS Portal

CallOf(key, kind, host, address, valid) ==
  [key |-> key, kind |-> kind, host |-> host, address |-> address, valid |-> valid]

MCCall ==
  [deploy   |-> CallOf("k1", "deployment", "leaf01", "a1", TRUE),
   override |-> CallOf("k2", "override", "leaf01", "a1", TRUE),
   alias    |-> CallOf("k2", "override", "leaf01.lab", "a1", TRUE),
   viewer   |-> CallOf("k3", "override", "leaf02", "a2", TRUE),
   list     |-> CallOf("k3", "workflows", Blank, "a1", TRUE),
   blank    |-> CallOf("k2", "deployment", Blank, "a1", TRUE),
   invalid  |-> CallOf("k2", "override", "leaf02", "a2", FALSE)]

MCIdentities ==
  [k1 |-> [user |-> "ann", role |-> "operator"],
   k2 |-> [user |-> "bob", role |-> "operator"],
   k3 |-> [user |-> "eve", role |-> "viewer"]]
=============================================================================
