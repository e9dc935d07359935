-------------------------- MODULE MCSourceOfTruth --------------------------
(***************************************************************************)
(* SourceOfTruth for TLC: a small fabric and its business intent, with an  *)
(* address that two interfaces carry (one of them left out), a pool with   *)
(* no known prefix, a session with an unknown address, and a firewall that *)
(* is not in the seed, so that its binding and rule set are skipped.       *)
(***************************************************************************)
EXTENDS SourceOfTruth

SeedItem(kind, key, owner, refs) ==
  [kind |-> kind, key |-> key, owner |-> owner, refs |-> refs]

MCSeed ==
  <<SeedItem("manufacturer", "nokia", NoOwner, {}),
    SeedItem("location", "lab", NoOwner, {}),
    SeedItem("platform", "srlinux", NoOwner, {"nokia"}),
    SeedItem("autonomous_system", "as65000", NoOwner, {"nokia"}),
    SeedItem("namespace", "ipam", NoOwner, {}),
    SeedItem("vrf", "default", NoOwner, {"ipam"}),
    SeedItem("device", "leaf01", NoOwner, {"lab", "srlinux", "as65000"}),
    SeedItem("interface", "leaf01:e1", "leaf01", {"10.0.0.1"}),
    SeedItem("ip_address", "10.0.0.1", NoOwner, {"ipam"}),
    SeedItem("ip_address", "10.0.0.1", NoOwner, {"ipam"}),
    SeedItem("bgp_session", "leaf01-spine01", NoOwner,
             {"leaf01", "as65000", "10.0.0.1", "10.0.0.9", "default"}),
    SeedItem("prefix", "10.0.0.0", NoOwner, {"ipam"}),
    SeedItem("prefix_pool", "fabric", NoOwner, {"10.0.0.0"}),
    SeedItem("prefix_pool", "spare", NoOwner, {"10.9.0.0"}),
    SeedItem("address_pool", "loopbacks", NoOwner, {"fabric"}),
    SeedItem("service", "trading", NoOwner, {}),
    SeedItem("endpoint", "orders", NoOwner, {"trading"}),
    SeedItem("intent", "orders-fix", NoOwner, {"orders"}),
    SeedItem("binding", "on-leaf01", "leaf01", {"orders-fix"}),
    SeedItem("binding", "on-fw01", "fw01", {"orders-fix"}),
    SeedItem("rule_set", "permit-fw01", "on-fw01", {})>>

MCUnique == Kinds \ {"bgp_session", "interface"}
=============================================================================
