--------------------------- MODULE ResourceGrants ---------------------------
(***************************************************************************)
(* What allocation promises: every holder that owns a resource owns it for *)
(* ever, and no two holders own the same one.  A holder asks for one pool. *)
(***************************************************************************)
CONSTANTS Holders,
          ResourcesFor(_)   \* the resources of the pool a holder asks for

VARIABLES owned   \* the holders that own something, to what they own

Init == owned = [h \in {} |-> h]

Grant(h) ==
  /\ h \notin DOMAIN owned
  /\ \E res \in ResourcesFor(h) :
       /\ \A other \in DOMAIN owned : owned[other] # res
       /\ owned' = [x \in DOMAIN owned \cup {h} |-> IF x = h THEN res ELSE owned[x]]

Next == \E h \in Holders : Grant(h)

Spec == Init /\ [][Next]_owned
=============================================================================
