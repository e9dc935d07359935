------------------------- MODULE MCResourceManager -------------------------
(***************************************************************************)
(* ResourceManager for TLC: a device with two peers, provisioned by two    *)
(* overlapping attempts, and another device from a pool that has fewer     *)
(* prefixes than it has peers; the first pool is made by two racing calls. *)
(***************************************************************************)
EXTENDS ResourceManager

leaf01 == <<"leaf01">>
leaf02 == <<"leaf", "02">>
spine01 == <<"spine01">>

RequestFor(device, peers, fabric) ==
  [device |-> device, peers |-> peers, fabric |-> fabric]

MCRequest ==
  [first   |-> RequestFor(leaf01, <<spine01, leaf02>>, "fabric"),
   retry   |-> RequestFor(leaf01, <<spine01, leaf02>>, "fabric"),
   crowded |-> RequestFor(leaf02, <<spine01, leaf01>>, "small")]

MCMakerPool == [make1 |-> "fabric", make2 |-> "fabric"]

MCResources ==
  [asns |-> {1, 2}, loopbacks |-> {11, 12}, fabric |-> {20, 21}, small |-> {30}]
=============================================================================
