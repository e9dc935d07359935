-------------------------- MODULE MCNetworkChange --------------------------
(***************************************************************************)
(* NetworkChange for TLC.  Descriptions are interchangeable, and so are    *)
(* interfaces; the runs of safety properties use that.                     *)
(***************************************************************************)
EXTENDS NetworkChange, TLC

Symmetry == Permutations(Descriptions) \cup Permutations(Interfaces)
=============================================================================
